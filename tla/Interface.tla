------------------------------ MODULE Interface ------------------------------
(***************************************************************************)
(* What modules tell each other.  compile() walks the top-level            *)
(* declarations of a module, keeps the tables calls and layouts are        *)
(* checked against, and writes two files: the interface (.nif) other       *)
(* modules read with "use", and the IR (.nir) the binder reads.  The       *)
(* modules are compiled one after the other and then bound together, so    *)
(* every declaration is known three times: to the module that made it, to  *)
(* the modules that imported it and to the binder.                         *)
(*                                                                         *)
(* A file is a sequence of blocks, a block being what one declaration      *)
(* writes.  A type's text is a base name with the numbers in brackets      *)
(* behind it.  Function bodies are lowered in module Lower.                *)
(***************************************************************************)
EXTENDS Integers, Sequences, FiniteSets, SequencesExt, TLC

CONSTANTS
    Programs,     \* sets of programs: sequences of modules, in build order
    LongNames,    \* type names of more than 31 characters
    StackNames,   \* names of parameters and types that contain "stack"
    RegisterNames \* names of parameters and types that contain "register"

None == "-"

ASSUME ProgramsAssumption ==
    \A F \in Programs : \A P \in F : \A i \in 1 .. Len(P) : Len(P[i]) > 0

VARIABLES
    prog,         \* the program: one sequence of declarations per module
    phase,        \* "compile", "bind", "done", "failed"
    mod, next,    \* module and declaration (or block) being processed
    import,       \* blocks still to be read from an imported interface
    C,            \* compiler_t: the tables of the module being compiled
    files,        \* per compiled module its .nif and .nir
    known,        \* per compiled module its tables when it was finished
    B             \* the binder's tables

vars == <<prog, phase, mod, next, import, C, files, known, B>>

-----------------------------------------------------------------------------
(* Types and constant expressions. *)

Lit(n) == [k |-> "lit", v |-> n]
T(k) == [k |-> k]
Array(t, e) == [k |-> "array", of |-> t, size |-> e]
Bcd(n) == [k |-> "bcd", size |-> Lit(n)]
Text(b) == [base |-> b, dims |-> << >>]
Struct(b) == [k |-> "struct", name |-> Text(b)]

type_is_aggregate(t) == t.k \in {"array", "bcd", "struct", "far"}
type_needs_word_alignment(t) == t.k \in {"u16", "u32", "seg", "far", "struct"}

\* First entry of a table with a name, 0 when there is none.
Find(table, name) == SelectInSeq(table, LAMBDA e : e.name = name)

RECURSIVE eval_const_expr(_, _)
\* The value of a constant expression as a set, empty when it has none.
eval_const_expr(consts, e) ==
    CASE e.k = "lit" -> {e.v}
      [] e.k = "ident" ->
           LET i == Find(consts, e.name) IN IF i = 0 THEN {} ELSE {consts[i].value}
      [] e.k \in {"add", "mul"} ->
           {IF e.k = "add" THEN l + r ELSE l * r :
               l \in eval_const_expr(consts, e.l), r \in eval_const_expr(consts, e.r)}
      [] e.k = "div" ->
           {l \div r : l \in eval_const_expr(consts, e.l),
                       r \in eval_const_expr(consts, e.r) \ {0}}

NotConstant(consts, e) == eval_const_expr(consts, e) = {}
require_const_expr(consts, e) ==
    IF NotConstant(consts, e) THEN 0 ELSE CHOOSE v \in eval_const_expr(consts, e) : TRUE

RECURSIVE resolve_type_constants(_, _)
resolve_type_constants(consts, t) ==
    IF t.k = "array"
    THEN Array(resolve_type_constants(consts, t.of), Lit(require_const_expr(consts, t.size)))
    ELSE t

RECURSIVE Unresolved(_, _)
Unresolved(consts, t) ==
    t.k = "array" /\ (NotConstant(consts, t.size) \/ Unresolved(consts, t.of))

RECURSIVE type_str(_)
type_str(t) ==
    CASE t.k = "array" ->
           LET s == type_str(t.of) IN [s EXCEPT !.dims = Append(@, t.size.v)]
      [] t.k = "bcd" -> [base |-> "bcd", dims |-> <<t.size.v>>]
      [] t.k = "struct" -> t.name
      [] t.k = "far" -> Text("far32")
      [] OTHER -> Text(t.k)

-----------------------------------------------------------------------------
(* Struct layout. *)

RECURSIVE type_size(_, _)
RECURSIVE StructLayout(_, _)
type_size(structs, t) ==
    CASE t.k = "u8" -> 1
      [] t.k \in {"u16", "seg"} -> 2
      [] t.k \in {"u32", "far"} -> 4
      [] t.k = "array" -> type_size(structs, t.of) * t.size.v
      [] t.k = "bcd" -> t.size.v
      [] t.k = "struct" ->
           LET si == Find(structs, t.name) IN
           IF si = 0 THEN 0 ELSE (StructLayout(structs, structs[si]).bit_pos + 7) \div 8
      [] OTHER -> 0

\* Bit position of every field, and the one after the last.
StructLayout(structs, s) ==
    FoldLeft(LAMBDA acc, f :
        IF f.is_bits
        THEN [at |-> Append(acc.at, acc.bit_pos), bit_pos |-> acc.bit_pos + f.bits.v]
        ELSE LET packed == (acc.bit_pos + 7) \div 8
                 byte_pos == IF s.aligned /\ type_needs_word_alignment(f.type)
                             THEN packed + (packed % 2) ELSE packed
             IN [at |-> Append(acc.at, 8 * byte_pos),
                 bit_pos |-> 8 * (byte_pos + type_size(structs, f.type))],
        [at |-> << >>, bit_pos |-> 0], s.fields)

\* How a field named in an access is reached.
struct_field_layout(structs, name, field) ==
    LET s == structs[Find(structs, name)]
        i == Find(s.fields, field)
        pos == StructLayout(structs, s).at[i]
        f == s.fields[i]
    IN [byte_offset |-> pos \div 8, bit_offset |-> pos % 8,
        bits |-> f.bits.v,
        storage |-> IF f.is_bits THEN (IF f.bits.v <= 8 THEN "u8" ELSE "u16") ELSE f.type.k]

-----------------------------------------------------------------------------
(* Calling conventions and what the files say about them. *)

Parent(r) == CASE r \in {"AL", "AH"} -> "AX" [] r \in {"CL", "CH"} -> "CX"
               [] r \in {"DL", "DH"} -> "DX" [] r \in {"BL", "BH"} -> "BX"
               [] OTHER -> r
AllRegs == {"AX", "CX", "DX", "BX", "BP", "SI", "DI", "ES", "CS", "SS", "DS", "FLAGS"}

effective_param_place(p) ==
    CASE p.pin # None \/ p.seg_pin # None -> "register"
      [] p.place # "default" -> p.place
      [] p.type.k = "far" -> "stack"
      [] OTHER -> "default"

effective_return_place(r) ==
    CASE r.pin # None -> "register"
      [] r.place # "default" -> r.place
      [] r.type.k = "far" -> "stack"
      [] OTHER -> "default"

\* The general registers a result is pinned to; segment registers are not looked at.
ResultRegs(d) ==
    {Parent(d.rets[i].pin) : i \in {j \in 1 .. Len(d.rets) : d.rets[j].pin # None}}
        \ {"ES", "CS", "SS", "DS"}

\* The list of a .preserves line, a clobbers() clause inverted.
emit_preserves(d) ==
    CASE d.contract = "clobbers" -> (AllRegs \ {Parent(r) : r \in d.regs}) \ ResultRegs(d)
      [] d.contract = "preserves" -> d.regs
      [] OTHER -> {}

\* One parameter line; the text after the name may mention a referenced type.
Line(p, place, type, pin, ref) ==
    [name |-> p.name, place |-> place, type |-> type, pin |-> pin, ref |-> ref]
FarLines(p) ==
    <<Line(p, effective_param_place(p), Text("u16"), p.pin, None),
      Line(p, effective_param_place(p), Text("seg"), p.seg_pin, None)>>

\* .eparam lines of a descriptor.
ExternLine(p) == Line(p, effective_param_place(p), type_str(p.type), p.pin, None)
emit_extern_params_far(d) == [i \in 1 .. Len(d.params) |-> ExternLine(d.params[i])]
emit_extern_params_place(d) ==
    FlattenSeq([i \in 1 .. Len(d.params) |->
        LET p == d.params[i] IN
        IF p.type.k = "far"
        THEN <<Line(p, p.place, Text("u16"), p.pin, None),
               Line(p, p.place, Text("seg"), p.seg_pin, None)>>
        ELSE <<ExternLine(p)>>])
emit_extern_params(d) ==
    FlattenSeq([i \in 1 .. Len(d.params) |->
        LET p == d.params[i] IN
        IF p.type.k = "far" THEN FarLines(p) ELSE <<ExternLine(p)>>])

\* .param lines of a compiled function: an aggregate is passed by reference.
FnParams(d) ==
    FlattenSeq([i \in 1 .. Len(d.params) |->
        LET p == d.params[i] IN
        IF p.type.k = "far" THEN FarLines(p)
        ELSE IF type_is_aggregate(p.type) /\ ~p.value
        THEN <<Line(p, effective_param_place(p), Text("u16"), p.pin, type_str(p.type).base)>>
        ELSE <<ExternLine(p)>>])

emit_extern_returns(d) ==
    [i \in 1 .. Len(d.rets) |->
        [type |-> type_str(d.rets[i].type), place |-> effective_return_place(d.rets[i]),
         pin |-> d.rets[i].pin]]

\* What a declaration writes to the IR and to the interface.
emit_extern_descriptor(op, d, params) ==
    [op |-> op, name |-> d.name, far |-> d.far, ds |-> d.ds,
     preserves |-> emit_preserves(d), params |-> params, rets |-> emit_extern_returns(d)]
NifBlock(op, d) ==
    [op |-> op, name |-> d.name,
     params |-> [i \in 1 .. Len(d.params) |-> type_str(d.params[i].type)],
     rets |-> [i \in 1 .. Len(d.rets) |-> type_str(d.rets[i].type)]]

-----------------------------------------------------------------------------
(* Compiling one declaration: the new tables and files. *)

Types(list) == [i \in 1 .. Len(list) |-> list[i].type]

register_function_returns(name, types, rets) ==
    [name |-> name, types |-> types, rets |-> rets, from |-> mod,
     nparams_ir |-> Len(types) + Cardinality({i \in 1 .. Len(types) : types[i].k = "far"})]

ResolveList(consts, list) ==
    [i \in 1 .. Len(list) |-> [list[i] EXCEPT !.type = resolve_type_constants(consts, @)]]
Resolve(consts, d) ==
    [d EXCEPT !.params = ResolveList(consts, @), !.rets = ResolveList(consts, @)]
AnyUnresolved(consts, d) ==
    \/ \E i \in 1 .. Len(d.params) : Unresolved(consts, d.params[i].type)
    \/ \E i \in 1 .. Len(d.rets) : Unresolved(consts, d.rets[i].type)

validate_ds_policy(d) == d.ds # "out of range"
validate_clobbers(d) == ~(d.contract = "clobbers" /\ d.regs \cap {"CS", "SS"} # {})

FnRejected(c, d) ==
    \/ AnyUnresolved(c.constants, d) \/ ~validate_ds_policy(d) \/ ~validate_clobbers(d)
    \/ (d.pub \/ d.api) /\ d.far /\ d.ds = "unspec"
    \/ d.api /\ d.contract # "clobbers"
    \/ d.bare /\ d.ds \in {"symbol", "literal"}
    \/ d.interrupt /\ (d.pub \/ d.api \/ d.far \/ d.params # << >> \/ d.rets # << >>)

compile_fn(c, d0) ==
    LET d == Resolve(c.constants, d0)
        nir == <<emit_extern_descriptor("fn", d, FnParams(d))>>
        nif == IF d.pub THEN <<NifBlock("fn", d)>> ELSE << >>
    IN [c EXCEPT
        !.errors = @ \/ FnRejected(c, d0),
        !.functions = IF d.interrupt THEN @
                      ELSE Append(@, register_function_returns(d.name, Types(d.params), Types(d.rets))),
        !.nir = @ \o (IF d.api THEN <<emit_extern_descriptor("extern", d, emit_extern_params(d))>>
                      ELSE << >>) \o nir,
        !.nif = @ \o (IF d.api THEN <<NifBlock("extern", d)>> ELSE << >>) \o nif]

compile_extern_fn(c, d0) ==
    LET d == Resolve(c.constants, d0)
        described == [c EXCEPT
            !.errors = \/ @ \/ AnyUnresolved(c.constants, d0)
                       \/ ~validate_ds_policy(d) \/ ~validate_clobbers(d)
                       \/ d.pub /\ d.far /\ d.ds = "unspec"
                       \/ d.contract # "clobbers",
            !.functions = Append(@, register_function_returns(d.name, Types(d.params), Types(d.rets))),
            !.nir = Append(@, emit_extern_descriptor("extern", d, emit_extern_params(d))),
            !.nif = Append(@, NifBlock("extern", d))]
    IN IF d.body THEN compile_fn(described, d) ELSE described

compile_struct(c, d) ==
    LET fields == [i \in 1 .. Len(d.fields) |->
            [d.fields[i] EXCEPT !.type = resolve_type_constants(c.constants, @),
                                !.bits = Lit(require_const_expr(c.constants, @))]]
    IN [c EXCEPT
        !.errors = @ \/ \E i \in 1 .. Len(d.fields) :
                           \/ Unresolved(c.constants, d.fields[i].type)
                           \/ NotConstant(c.constants, d.fields[i].bits),
        !.structs = Append(@, [name |-> Text(d.name), aligned |-> d.aligned,
                               fields |-> fields, from |-> mod]),
        !.nif = IF d.pub
                THEN Append(@, [op |-> "struct", name |-> Text(d.name), aligned |-> d.aligned,
                                fields |-> [i \in 1 .. Len(fields) |->
                                    [fields[i] EXCEPT !.type = type_str(@)]]])
                ELSE @]

compile_const(c, d) ==
    LET value == require_const_expr(c.constants, d.value) IN
    [c EXCEPT
        !.errors = @ \/ NotConstant(c.constants, d.value),
        !.constants = Append(@, [name |-> d.name, value |-> value]),
        !.nif = IF d.pub THEN Append(@, [op |-> "const", name |-> d.name, value |-> value])
                ELSE @]

(* Globals.  elems lists the initializer: an integer, a function's address *)
(* near or far, or a far literal; a string is that many bytes.             *)

Sum(s) == FoldLeft(LAMBDA a, b : a + b, 0, s)

ElementBytes(c, size, e) ==
    CASE e.k = "near" /\ Find(c.functions, e.name) > 0 -> IF size = 2 THEN 2 ELSE 0
      [] e.k = "far.ref" /\ Find(c.functions, e.name) > 0 -> 4
      [] e.k = "far" -> 4
      [] e.k = "int" -> IF size \in {1, 2, 4} THEN size ELSE 2
      [] OTHER -> 0
ElementRejected(c, elem, size, e) ==
    \/ e.k \in {"near", "far.ref"} /\ Find(c.functions, e.name) = 0
    \/ e.k = "near" /\ size # 2
    \/ e.k \in {"far.ref", "far"} /\ elem.k # "far"
FillBytes(elem, size) == IF elem.k = "far" THEN 4 ELSE IF size = 1 THEN 1 ELSE 2

compile_global(c, d) ==
    LET resolved == resolve_type_constants(c.constants, d.type)
        type == IF resolved.k = "array" /\ resolved.size.v = 0 /\ d.init # "none"
                THEN [resolved EXCEPT !.size = Lit(Len(d.elems))] ELSE resolved
        added == [c EXCEPT
            !.errors = @ \/ Unresolved(c.constants, d.type),
            !.globals = Append(@, [name |-> d.name, type |-> type, from |-> mod]),
            !.nif = IF d.pub THEN Append(@, [op |-> "global", name |-> d.name, type |-> type_str(type)])
                    ELSE @]
        storage == [op |-> "global", name |-> d.name, type |-> type_str(type)]
        data(bytes) == [op |-> "data", name |-> d.name, type |-> type_str(type), bytes |-> bytes]
    IN IF d.init = "none" \/ (d.init = "string" /\ type.k # "array")
       THEN [added EXCEPT !.nir = Append(@, storage)]
       ELSE IF type.k # "array" \/ Len(d.elems) > type.size.v
       THEN [added EXCEPT !.errors = TRUE]
       ELSE LET elem == type.of
                size == type_size(c.structs, elem)
                fill == type.size.v - Len(d.elems)
            IN IF d.init = "string"
               THEN [added EXCEPT !.nir = Append(@, data(type.size.v))]
               ELSE [added EXCEPT
                  !.errors = @ \/ \E i \in 1 .. Len(d.elems) :
                                     ElementRejected(c, elem, size, d.elems[i]),
                  !.nir = Append(@, data(fill * FillBytes(elem, size)
                             + Sum([i \in 1 .. Len(d.elems) |->
                                       ElementBytes(c, size, d.elems[i])])))]

-----------------------------------------------------------------------------
(* Importing one block of another module's interface. *)

ScalarText == {"u8", "u16", "u32", "seg", "bool", "far", "far32"}
nif_parse_type(s) ==
    CASE s.dims = << >> /\ s.base \in ScalarText ->
           T(IF s.base = "far32" THEN "far" ELSE s.base)
      [] s.dims # << >> /\ s.base \in {"u8", "u16"} -> Array(T(s.base), Lit(s.dims[1]))
      [] s.dims # << >> /\ s.base = "bcd" -> Array(Bcd(0), Lit(s.dims[1]))
      [] s.dims # << >> /\ s.base \in {"far", "far32"} -> Array(T("far"), Lit(s.dims[1]))
      [] OTHER -> [k |-> "struct", name |-> s]

\* nif_read_word() into a buffer of 32 characters.
Cut(s) == IF s.base \in LongNames THEN [s EXCEPT !.base = "cut"] ELSE s

ImportFn_words(b) ==
    [register_function_returns(b.name,
        [i \in 1 .. Len(b.params) |-> nif_parse_type(Cut(b.params[i]))],
        [i \in 1 .. Len(b.rets) |-> nif_parse_type(b.rets[i])]) EXCEPT !.nparams_ir = Len(b.params)]
ImportFn(b) ==
    register_function_returns(b.name,
        [i \in 1 .. Len(b.params) |-> nif_parse_type(Cut(b.params[i]))],
        [i \in 1 .. Len(b.rets) |-> nif_parse_type(b.rets[i])])

ImportStruct_packed(b) ==
    [name |-> b.name, aligned |-> FALSE,
     fields |-> [i \in 1 .. Len(b.fields) |-> [b.fields[i] EXCEPT !.type = nif_parse_type(@)]]]
ImportStruct(b) ==
    [name |-> b.name, aligned |-> b.aligned,
     fields |-> [i \in 1 .. Len(b.fields) |-> [b.fields[i] EXCEPT !.type = nif_parse_type(@)]]]

import_nif(c, from, b) ==
    CASE b.op \in {"fn", "extern"} ->
           [c EXCEPT !.functions = Append(@, [ImportFn(b) EXCEPT !.from = from])]
      [] b.op = "struct" ->
           [c EXCEPT !.structs = Append(@, ImportStruct(b) @@ [from |-> from])]
      [] b.op = "global" ->
           [c EXCEPT !.globals = Append(@, [name |-> b.name, type |-> nif_parse_type(b.type),
                                            from |-> from])]
      [] b.op = "const" ->
           [c EXCEPT !.constants = Append(@, [name |-> b.name, value |-> b.value])]

-----------------------------------------------------------------------------
(* compile(): one step per declaration and per imported block. *)

NoTables == [functions |-> << >>, structs |-> << >>, constants |-> << >>,
             globals |-> << >>, nif |-> << >>, nir |-> << >>, errors |-> FALSE]

Decl == prog[mod][next]
Declares(kinds) ==
    /\ phase = "compile" /\ import.blocks = << >> /\ next <= Len(prog[mod])
    /\ Decl.k \in kinds
    /\ next' = next + 1
    /\ UNCHANGED <<prog, phase, mod, files, known, B>>
NoImport == [from |-> 0, blocks |-> << >>]

CompileFn == Declares({"fn"}) /\ C' = compile_fn(C, Decl) /\ UNCHANGED import
CompileExternFn == Declares({"extern"}) /\ C' = compile_extern_fn(C, Decl) /\ UNCHANGED import
CompileStruct == Declares({"struct"}) /\ C' = compile_struct(C, Decl) /\ UNCHANGED import
CompileGlobal == Declares({"global"}) /\ C' = compile_global(C, Decl) /\ UNCHANGED import
CompileConst == Declares({"const"}) /\ C' = compile_const(C, Decl) /\ UNCHANGED import
CompileAt ==
    /\ Declares({"at", "endat"})
    /\ C' = [C EXCEPT !.nir = Append(@, [op |-> Decl.k])]
    /\ UNCHANGED import

\* use: the interface of a module compiled before, or an error.
Use ==
    /\ Declares({"use"})
    /\ IF Decl.path \in DOMAIN files
       THEN /\ import' = [from |-> Decl.path, blocks |-> files[Decl.path].nif]
            /\ C' = [C EXCEPT !.nir = Append(@, [op |-> "use"])]
       ELSE /\ C' = [C EXCEPT !.nir = Append(@, [op |-> "use"]), !.errors = TRUE]
            /\ UNCHANGED import

ImportBlock ==
    /\ phase = "compile" /\ import.blocks # << >>
    /\ C' = import_nif(C, import.from, Head(import.blocks))
    /\ import' = [import EXCEPT !.blocks = Tail(@)]
    /\ UNCHANGED <<prog, phase, mod, next, files, known, B>>

EndModule ==
    /\ phase = "compile" /\ import.blocks = << >> /\ next > Len(prog[mod])
    /\ files' = Append(files, [nif |-> C.nif, nir |-> C.nir])
    /\ known' = Append(known, [functions |-> C.functions, structs |-> C.structs,
                               globals |-> C.globals])
    /\ C' = NoTables /\ next' = 1 /\ import' = NoImport
    /\ phase' = CASE C.errors -> "failed" [] mod = Len(prog) -> "bind" [] OTHER -> "compile"
    /\ mod' = IF mod = Len(prog) THEN 1 ELSE mod + 1
    /\ UNCHANGED <<prog, B>>

-----------------------------------------------------------------------------
(* The binder reading the IR: parse_nir(), one step per block. *)

\* The words on the line decide; texts are the names among them that are searched.
parse_abi_place(p, texts) ==
    IF p.pin # None THEN "register"
    ELSE IF p.place = "stack" \/ texts \cap StackNames # {} THEN "stack"
    ELSE IF texts \cap RegisterNames # {} THEN "register" ELSE p.place

\* A function's line is searched behind the parameter's name, a descriptor's
\* from its start, name and type included.
ReadParams(b) ==
    [i \in 1 .. Len(b.params) |->
        LET p == b.params[i] IN
        [place |-> parse_abi_place(p, IF b.op = "extern" THEN {p.name, p.type.base} ELSE {p.ref}),
         pin |-> p.pin, is_seg |-> p.type = Text("seg")]]
abi_type_words(s) == IF s = Text("far32") THEN 2 ELSE 1
ReadReturns(b) ==
    [i \in 1 .. Len(b.rets) |->
        [place |-> b.rets[i].place, pin |-> b.rets[i].pin,
         words |-> abi_type_words(b.rets[i].type)]]
ReadCallable(b) ==
    [name |-> b.name, module |-> mod, far |-> b.far, ds |-> b.ds, preserves |-> b.preserves,
     params |-> ReadParams(b), rets |-> ReadReturns(b)]

\* Bytes set aside for a .global line.
GlobalBytes_words(s) == 2
GlobalBytes(s) ==
    IF s.dims = << >>
    THEN CASE s.base = "u8" -> 1 [] s.base \in {"u16", "seg"} -> 2
           [] s.base \in {"u32", "far"} -> 4 [] OTHER -> 2
    ELSE s.dims[1] * CASE s.base = "u16" -> 2 [] s.base \in {"u32", "far", "far32"} -> 4
                       [] OTHER -> 1

parse_nir(t, b) ==
    CASE b.op = "fn" -> [t EXCEPT !.functions = Append(@, ReadCallable(b)),
                                  !.order = Append(@, "fn")]
      [] b.op = "extern" -> [t EXCEPT !.externs = Append(@, ReadCallable(b))]
      [] b.op = "data" ->
           [t EXCEPT !.storage = Append(@, [name |-> b.name, module |-> mod, bytes |-> b.bytes]),
                     !.order = Append(@, "data")]
      [] b.op = "global" ->
           [t EXCEPT !.storage = Append(@, [name |-> b.name, module |-> mod,
                                            bytes |-> GlobalBytes(b.type)]),
                     !.order = Append(@, "global")]
      [] b.op \in {"use", "at", "endat"} -> [t EXCEPT !.order = Append(@, b.op)]

ReadBlock ==
    /\ phase = "bind" /\ next <= Len(files[mod].nir)
    /\ B' = parse_nir(B, files[mod].nir[next])
    /\ next' = next + 1
    /\ UNCHANGED <<prog, phase, mod, import, C, files, known>>

NextFile ==
    /\ phase = "bind" /\ next > Len(files[mod].nir)
    /\ next' = 1
    /\ phase' = IF mod = Len(files) THEN "done" ELSE "bind"
    /\ mod' = IF mod = Len(files) THEN mod ELSE mod + 1
    /\ UNCHANGED <<prog, import, C, files, known, B>>

-----------------------------------------------------------------------------
Init ==
    /\ \E F \in Programs : prog \in F
    /\ phase = "compile" /\ mod = 1 /\ next = 1
    /\ import = NoImport /\ C = NoTables /\ files = << >> /\ known = << >>
    /\ B = [functions |-> << >>, externs |-> << >>, storage |-> << >>, order |-> << >>]

Next ==
    \/ CompileFn \/ CompileExternFn \/ CompileStruct \/ CompileGlobal \/ CompileConst
    \/ CompileAt \/ Use \/ ImportBlock \/ EndModule \/ ReadBlock \/ NextFile

Spec == Init /\ [][Next]_vars

-----------------------------------------------------------------------------
Modules == 1 .. Len(known)
Elems(s) == {s[i] : i \in 1 .. Len(s)}

\* The modules, the position in them and the files stay within the program;
\* an interface is only read from a module that was compiled before.
TypeOK ==
    /\ phase \in {"compile", "bind", "done", "failed"}
    /\ mod \in 1 .. Len(prog) /\ next \in Nat \ {0}
    /\ import.from \in 0 .. Len(files)
    /\ Len(files) = Len(known) /\ Len(files) <= Len(prog)
    /\ phase \in {"bind", "done"} => Len(files) = Len(prog)

\* The words a call passes for a signature: a far argument is split in two.
Words(s) ==
    FlattenSeq([i \in 1 .. Len(s.types) |->
        IF s.types[i].k = "far" THEN <<"off", "seg">> ELSE <<"word">>])

\* A call compiled in any module, against its own declaration or an imported
\* one, passes exactly the words the binder expects of the function, the
\* segment of a far pointer where the function has its segment parameter, and
\* expects the results the function returns.
ArgumentsLineUp ==
    phase = "done" =>
        \A m \in Modules : \A s \in Elems(known[m].functions) :
            \E f \in Elems(B.functions) \cup Elems(B.externs) :
                /\ f.name = s.name /\ f.module = s.from
                /\ s.nparams_ir = Len(f.params) /\ Len(Words(s)) = Len(f.params)
                /\ \A j \in 1 .. Len(f.params) : Words(s)[j] = "seg" => f.params[j].is_seg
                /\ Len(s.rets) = Len(f.rets)
                /\ \A j \in 1 .. Len(s.rets) : s.rets[j].k = "far" <=> f.rets[j].words = 2

\* The descriptor an indirect call goes by and the function it reaches have the
\* same convention, as long as no parameter name or type contains "stack" or
\* "register".
Odd(d) == \E i \in 1 .. Len(d.params) :
    {d.params[i].name, type_str(d.params[i].type).base}
        \cap (StackNames \cup RegisterNames) # {}
DescriptorsAgree ==
    phase = "done" =>
        \A f \in Elems(B.functions), e \in Elems(B.externs) :
            (f.name = e.name /\ f.module = e.module) =>
                \/ \E d \in Elems(prog[f.module]) :
                       d.k \in {"fn", "extern"} /\ d.name = f.name /\ Odd(d)
                \/ /\ \A i \in 1 .. Len(f.params) :
                          f.params[i].place = e.params[i].place /\ f.params[i].pin = e.params[i].pin
                   /\ Len(f.params) = Len(e.params)
                   /\ f.rets = e.rets /\ f.preserves = e.preserves
                   /\ f.far = e.far /\ f.ds = e.ds

\* Types that survive the interface: their text is read back as the same type,
\* and the struct they name is the same one on both sides.
RECURSIVE Portable(_, _, _)
Portable(m, x, t) ==
    IF t.k = "struct"
    THEN LET i == Find(known[m].structs, t.name)
             j == Find(known[x].structs, t.name)
         IN /\ i > 0 /\ j > 0
            /\ known[m].structs[i].from = known[x].structs[j].from
            /\ \A n \in 1 .. Len(known[x].structs[j].fields) :
                   LET f == known[x].structs[j].fields[n] IN
                   f.is_bits \/ Portable(m, x, f.type)
    ELSE nif_parse_type(type_str(t)) = t

\* A struct or global means the same bytes in the module that declares it and
\* in every module that imports it.
LayoutsAgree ==
    \A m \in Modules :
        /\ \A i \in 1 .. Len(known[m].structs) :
              LET s == known[m].structs[i]  x == s.from IN
              (x # m /\ Find(known[m].structs, s.name) = i
                     /\ Portable(m, x, [k |-> "struct", name |-> s.name])) =>
                  /\ type_size(known[m].structs, [k |-> "struct", name |-> s.name])
                       = type_size(known[x].structs, [k |-> "struct", name |-> s.name])
                  /\ \A f \in {g.name : g \in Elems(s.fields)} \ {None} :
                        struct_field_layout(known[m].structs, s.name, f)
                          = struct_field_layout(known[x].structs, s.name, f)
        /\ \A g \in Elems(known[m].globals) : \A h \in Elems(known[g.from].globals) :
              (h.name = g.name /\ h.from = g.from /\ Portable(m, g.from, h.type)) =>
                  type_size(known[m].structs, g.type) = type_size(known[g.from].structs, h.type)

\* The types whose text the binder knows, strings in u8 arrays and the short
\* initializers compile_global() fills with whole elements.
Sized(t, d) ==
    \/ t.k \in {"u8", "u16", "u32", "seg", "bcd"}
    \/ t.k = "array" /\ t.of.k = "u8"
    \/ t.k = "array" /\ t.of.k \in {"u16", "far"} /\ d.init # "string"
    \/ t.k = "array" /\ t.of.k = "u32" /\ d.init # "string"
       /\ (d.init = "list" => Len(d.elems) = t.size.v)

\* An object of such a type gets the bytes it takes in the module declaring it.
KnownTypesSized ==
    phase = "done" =>
        \A s \in Elems(B.storage) : \A g \in Elems(known[s.module].globals) :
            (g.name = s.name /\ g.from = s.module) =>
                \/ \E d \in Elems(prog[s.module]) :
                      d.k = "global" /\ d.name = g.name /\ ~Sized(g.type, d)
                \/ s.bytes >= type_size(known[s.module].structs, g.type)

\* Declaring module, importing modules and binder agree on the bytes of structs
\* and globals.
ObjectsAgree == LayoutsAgree /\ KnownTypesSized
=============================================================================
