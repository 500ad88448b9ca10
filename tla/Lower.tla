-------------------------------- MODULE Lower --------------------------------
(***************************************************************************)
(* Statement lowering in the compiler: emit_stmt() walks a function body   *)
(* and appends IR for every statement, allocating virtual registers and    *)
(* labels as it goes.  The IR is then executed next to the source program, *)
(* statement by statement, and the two must agree.                         *)
(*                                                                         *)
(* A body is a flat sequence of statements; a block is closed by "end".    *)
(* x and y are u16 locals, p is a far32 local, g a u16 and h a far32       *)
(* global.  The value a statement computes is the statement's own place in *)
(* the body: which assignment a variable was last given by is what the     *)
(* properties tell apart.                                                  *)
(***************************************************************************)
EXTENDS Integers, Sequences, FiniteSets, SequencesExt

CONSTANTS Families,    \* sets of statements; a body is made of one of them
          MaxStmts     \* bound on the statements of a body

None == "-"
Flag == {"CF", "OF"}
Global == {"g", "h"}
IsFar(v) == v \in {"p", "h"}

(* Statements: k kind, v variable, e form of the expression or second      *)
(* target, c condition of a flag-check case.                               *)
Opener == {"if", "while", "for", "case"}
Loop == {"while", "for"}
Assigns == {"set", "mset", "setflag", "toggle"}
End == [k |-> "end", v |-> None, e |-> None]

ASSUME MaxStmtsAssumption == MaxStmts \in Nat \ {0}
ASSUME FamiliesAssumption ==
    \A F \in Families : \A s \in F : {"k", "v", "e"} \subseteq DOMAIN s

VARIABLES
    phase,       \* "parse", "compile", "run", "done", "rejected"
    prog,        \* the function body
    open,        \* kinds of the blocks the parser has open
    C,           \* compiler_t
    m,           \* the machine executing the IR
    src          \* the source program's own execution

vars == <<phase, prog, open, C, m, src>>

-----------------------------------------------------------------------------
(* The body as a syntax tree. *)

Pos == 1 .. Len(prog)
Depth(i) == Cardinality({j \in 1 .. i : prog[j].k \in Opener})
            - Cardinality({j \in 1 .. i : prog[j].k = "end"})
Match(i) == CHOOSE j \in Pos :
    /\ j > i /\ Depth(j) = Depth(i) - 1
    /\ \A n \in i + 1 .. j - 1 : Depth(n) >= Depth(i)
Encloses(j, i) == prog[j].k \in Opener /\ j < i /\ i < Match(j)
Innermost(i, kinds) ==
    LET S == {j \in Pos : Encloses(j, i) /\ prog[j].k \in kinds} IN
    IF S = {} THEN 0 ELSE Max(S)
ElseOf(i) == {j \in i .. Match(i) : prog[j].k = "else" /\ Depth(j) = Depth(i)}
LabelAt == CHOOSE i \in Pos : prog[i].k = "label"

(* The flag-check cases attached to the assignment at i end before here.   *)
RECURSIVE AfterCases(_)
AfterCases(i) ==
    IF i + 1 \notin Pos THEN i + 1
    ELSE CASE prog[i + 1].k = "case" -> AfterCases(Match(i + 1))
           [] prog[i + 1].k = "trap" -> AfterCases(i + 1)
           [] OTHER -> i + 1

(* scan_addr_taken_stmt() visits every statement but the bodies of flag    *)
(* checks.                                                                 *)
AddrTaken ==
    {prog[i].v : i \in {j \in Pos : /\ prog[j].k = "addr"
                                    /\ Innermost(j, {"case"}) = 0}}

-----------------------------------------------------------------------------
(* The parser: any body whose blocks nest. *)

LastOf(s) == s[Len(s)]
InBlock(kinds) == \E i \in 1 .. Len(open) : open[i] \in kinds
SeenInBlock(v) ==
    \E i \in 1 .. Len(prog) :
        /\ prog[i].k = "decl" /\ prog[i].v = v
        /\ Depth(i) = Len(open)
        /\ \A n \in i .. Len(prog) : Depth(n) >= Len(open)
NStmts == Cardinality({i \in Pos : prog[i].k # "end"})

MayFollow(s) ==
    LET prev == IF prog = << >> THEN End ELSE LastOf(prog)
        closed == IF prev.k = "end" /\ prog # << >>
                  THEN CHOOSE j \in Pos : /\ prog[j].k \in Opener
                                          /\ Match(j) = Len(prog)
                  ELSE 0
    IN CASE s.k \in {"case", "trap"} ->
               \/ prev.k \in Assigns \cup {"trap"}
               \/ closed # 0 /\ prog[closed].k = "case"
         [] s.k = "else" ->
               /\ open # << >> /\ LastOf(open) = "if"
               /\ ~ \E j \in Pos : /\ prog[j].k = "else" /\ Depth(j) = Len(open)
                                   /\ \A n \in j .. Len(prog) :
                                          Depth(n) >= Len(open)
         [] s.k = "decl" -> ~ SeenInBlock(s.v)
         [] s.k = "use" /\ s.v = "CX" -> InBlock({"for"})
         [] s.k = "label" -> open = << >> /\ \A i \in Pos : prog[i].k # "label"
         [] OTHER -> TRUE

Parse ==
    /\ phase = "parse" /\ NStmts < MaxStmts
    /\ \E s \in UNION {F \in Families : ToSet(prog) \subseteq F \cup {End}} :
        /\ MayFollow(s)
        /\ prog' = Append(prog, s)
        /\ open' = IF s.k \in Opener THEN Append(open, s.k) ELSE open
    /\ UNCHANGED <<phase, C, m, src>>

ParseEnd ==
    /\ phase = "parse" /\ open # << >>
    /\ prog' = Append(prog, End)
    /\ open' = SubSeq(open, 1, Len(open) - 1)
    /\ UNCHANGED <<phase, C, m, src>>

(* compile_fn(): a fresh register counter, no loop, the function's scope   *)
(* inside the file's.  File-scope symbols have been numbered by sym_add(), *)
(* too.                                                                    *)
Symbol(v, r, seg, stack) ==
    [name |-> v, vreg |-> r, seg |-> seg, stack |-> stack]
FileScope == << Symbol("g", 0, -1, FALSE), Symbol("h", 1, -1, FALSE) >>

CompileFn ==
    /\ phase = "parse" /\ open = << >> /\ prog # << >>
    /\ (\E i \in Pos : prog[i].k = "goto") => \E i \in Pos : prog[i].k = "label"
    /\ phase' = "compile"
    /\ C' = [pos |-> 1, code |-> << >>, next_vreg |-> 0, next_label |-> 0,
             scopes |-> << FileScope, << >> >>, frames |-> << >>,
             break |-> -1, continue |-> -1, loop_depth |-> 0, errors |-> 0]
    /\ UNCHANGED <<prog, open, m, src>>

-----------------------------------------------------------------------------
(* Symbols. *)

push_scope(c) == [c EXCEPT !.scopes = Append(@, << >>)]
pop_scope(c) == [c EXCEPT !.scopes = SubSeq(@, 1, Len(@) - 1)]

(* The first symbol of that name in the innermost scope that has one.      *)
Bound(c, v) == {<<s, i>> \in (1 .. Len(c.scopes)) \X (1 .. Len(c.code) + 2) :
                    i <= Len(c.scopes[s]) /\ c.scopes[s][i].name = v}
sym_lookup(c, v) ==
    LET found == CHOOSE b \in Bound(c, v) :
                     \A o \in Bound(c, v) :
                         o[1] < b[1] \/ (o[1] = b[1] /\ o[2] >= b[2])
    IN c.scopes[found[1]][found[2]]
Defined(c, v) == Bound(c, v) # {}
IsGlobal(v) == v \in Global

sym_add(c, sym) ==
    [c EXCEPT !.scopes = [@ EXCEPT ![Len(@)] = Append(@, sym)]]
Emit(c, ins) == [c EXCEPT !.code = @ \o ins]
Alloc(c, n) == [c EXCEPT !.next_vreg = @ + n]
Labels(c, n) == [c EXCEPT !.next_label = @ + n]
cerr(c) == [c EXCEPT !.errors = 1]

(* Instructions. *)
I(op, d, a, b) == [op |-> op, d |-> d, a |-> a, b |-> b]
Line(i) == I("line", i, 0, 0)
Label(l) == I("label", l, 0, 0)
Jmp(l) == I("jmp", l, 0, 0)
Jz(l) == I("jz", l, 0, 0)
Jf(f, on, l) == [op |-> "jf", f |-> f, on |-> on, l |-> l]
Call(op, args) == [op |-> op, args |-> args]

-----------------------------------------------------------------------------
(* Expressions: [c compiler after, r register, seg segment register]. *)

(* emit_expr_typed() on an identifier.  A global is loaded afresh, a far32 *)
(* global by its address; a stack local through its frame address.         *)
emit_ident(c, v) ==
    LET sym == sym_lookup(c, v)
        n == c.next_vreg
    IN CASE IsGlobal(v) ->
              [c |-> Alloc(Emit(c, << I(IF IsFar(v) THEN "addrof" ELSE "loadmem",
                                        n, sym.vreg, 0) >>), 1),
               r |-> n, seg |-> -1]
         [] sym.seg >= 0 -> [c |-> c, r |-> sym.vreg, seg |-> sym.seg]
         [] sym.stack /\ IsFar(v) ->
              [c |-> Alloc(Emit(c, << I("lea", n, sym.vreg, 0) >>), 1),
               r |-> n, seg |-> -1]
         [] sym.stack ->
              [c |-> Alloc(Emit(c, << I("lea", n, sym.vreg, 0),
                                      I("load", n + 1, n, 0) >>), 2),
               r |-> n + 1, seg |-> -1]
         [] OTHER -> [c |-> c, r |-> sym.vreg, seg |-> -1]

(* The right side of the assignment at i: a literal, an expression that    *)
(* sets the flags, or a far literal or @name, a pair of registers.         *)
emit_value(c, i, e) ==
    LET n == c.next_vreg IN
    CASE e = "lit" -> [c |-> Alloc(Emit(c, << I("movi", n, i, 0) >>), 1),
                       r |-> n, seg |-> -1]
      [] e = "expr" -> [c |-> Alloc(Emit(c, << I("alu", n, i, 0) >>), 1),
                        r |-> n, seg |-> -1]
      [] e = "far" -> [c |-> Alloc(Emit(c, << I("farlit", n + 2, n + 1, i) >>), 3),
                       r |-> n + 2, seg |-> n + 1]

(* Far arguments are split into offset and segment, except where the       *)
(* callee's signature is not known (yet).                                  *)
split_far(c, r, seg) ==
    LET n == c.next_vreg IN
    IF seg >= 0 THEN [c |-> c, args |-> << r, seg >>]
    ELSE [c |-> Alloc(Emit(c, << I("far.off", n, r, 0), I("far.seg", n + 1, r, 0) >>), 2),
          args |-> << n, n + 1 >>]

Args(c, v, known) ==
    LET val == emit_ident(c, v) IN
    IF IsFar(v) /\ known THEN split_far(val.c, val.r, val.seg)
    ELSE [c |-> val.c, args |-> << val.r >>]

(* &v: the frame address of a stack local, otherwise a copy of the value. *)
emit_addr(c, v) ==
    LET sym == sym_lookup(c, v)
        n == c.next_vreg
        val == emit_ident(c, v)
    IN IF sym.stack
       THEN [c |-> Alloc(Emit(c, << I("lea", n, sym.vreg, 0) >>), 1), r |-> n]
       ELSE [c |-> Alloc(Emit(val.c, << I("mov", val.c.next_vreg, val.r, 0) >>), 1),
             r |-> val.c.next_vreg]

-----------------------------------------------------------------------------
(* Statements.  Start(k): emit_stmt() reaches a statement of that kind and *)
(* writes its line.                                                        *)

At(kinds) == /\ phase = "compile" /\ C.pos \in Pos
             /\ prog[C.pos].k \in kinds
S == prog[C.pos]
Begin == Emit(C, << Line(C.pos) >>)
Compiled(c, next) == /\ C' = [c EXCEPT !.pos = next]
                     /\ UNCHANGED <<phase, prog, open, m, src>>

(* STMT_VARDECL.  A far32 local gets its segment register from its         *)
(* initialiser.                                                            *)
CompileDecl ==
    /\ At({"decl"})
    /\ LET stack == S.v \in AddrTaken
           r == C.next_vreg
           c0 == Alloc(Begin, 1)
           val == emit_value(c0, C.pos, S.e)
           n == val.c.next_vreg
           seg == IF S.e = "far" /\ ~ stack THEN n ELSE -1
       IN Compiled(
            CASE S.e = None -> sym_add(c0, Symbol(S.v, r, -1, stack))
              [] S.e # None /\ stack /\ IsFar(S.v) -> cerr(c0)
              [] S.e # None /\ stack /\ ~ IsFar(S.v) ->
                   sym_add(Alloc(Emit(val.c, << I("lea", n, r, 0),
                                                I("store", n, val.r, 0) >>), 1),
                           Symbol(S.v, r, -1, stack))
              [] S.e = "far" /\ ~ stack ->
                   sym_add(Alloc(Emit(val.c, << I("mov", r, val.r, 0),
                                                I("mov", n, val.seg, 0) >>), 1),
                           Symbol(S.v, r, seg, stack))
              [] OTHER -> sym_add(Emit(val.c, << I("mov", r, val.r, 0) >>),
                                  Symbol(S.v, r, -1, stack)),
            C.pos + 1)

(* Store val into the variable: the frame slot of a stack local, the       *)
(* memory of a scalar global, otherwise the symbol's register.             *)
assign(c, v, r) ==
    LET sym == sym_lookup(c, v)
        n == c.next_vreg
    IN CASE sym.stack -> Alloc(Emit(c, << I("lea", n, sym.vreg, 0),
                                          I("store", n, r, 0) >>), 1)
         [] IsGlobal(v) /\ ~ IsFar(v) ->
              Emit(c, << I("storemem", sym.vreg, r, 0) >>)
         [] OTHER -> Emit(c, << I("mov", sym.vreg, r, 0) >>)

(* emit_assign_simple(), the targets of a multi-return assignment.         *)
emit_assign_simple(c, v, r) ==
    LET sym == sym_lookup(c, v) IN
    IF ~ Defined(c, v) THEN cerr(c)
    ELSE IF IsGlobal(v) /\ ~ IsFar(v)
    THEN Emit(c, << I("storemem", sym.vreg, r, 0) >>)
    ELSE Emit(c, << I("mov", sym.vreg, r, 0) >>)

(* STMT_ASSIGN with an integer literal returns before the flag checks.     *)
CompileSetLiteral ==
    /\ At({"set"}) /\ S.e = "lit"
    /\ IF ~ Defined(C, S.v) THEN Compiled(cerr(Begin), C.pos + 1)
       ELSE LET sym == sym_lookup(C, S.v)
                val == emit_value(Begin, C.pos, "lit")
            IN Compiled(IF sym.stack \/ IsGlobal(S.v) THEN assign(val.c, S.v, val.r)
                        ELSE Emit(Begin, << I("movi", sym.vreg, C.pos, 0) >>),
                        AfterCases(C.pos))

CompileSet ==
    /\ At({"set"}) /\ S.e # "lit"
    /\ LET val == emit_value(Begin, C.pos, S.e) IN
       Compiled(IF Defined(C, S.v) THEN assign(val.c, S.v, val.r) ELSE cerr(val.c),
                C.pos + 1)

(* emit_multi_call_assign(): S.v and S.e are the two targets.              *)
CompileMultiSet ==
    /\ At({"mset"})
    /\ LET n == C.next_vreg
           called == Alloc(Emit(Begin, << I("mcall", n, n + 1, C.pos) >>), 2)
       IN Compiled(emit_assign_simple(emit_assign_simple(called, S.v, n), S.e, n + 1),
                   AfterCases(C.pos))

(* Flags: a literal assignment again returns before the flag checks.       *)
CompileFlag ==
    /\ At({"setflag", "toggle"})
    /\ Compiled(Emit(Begin, << [op |-> S.k, f |-> S.v] >>),
                IF S.k = "setflag" THEN AfterCases(C.pos) ELSE C.pos + 1)

(* STMT_EXPR: a call with v as its argument, of a known function or one    *)
(* declared later; an indirect call of v; a call with &v.                  *)
CompileCall ==
    /\ At({"use", "addr"})
    /\ LET val == emit_ident(Begin, S.v)
           n == val.c.next_vreg
       IN Compiled(
            CASE ~ Defined(C, S.v) -> cerr(Begin)
              [] Defined(C, S.v) /\ S.k = "addr" ->
                   LET a == emit_addr(Begin, S.v) IN
                   Emit(a.c, << Call("callp", << a.r >>) >>)
              [] Defined(C, S.v) /\ S.k = "use" /\ S.e = "icall" ->
                   Alloc(Emit(val.c, << IF val.seg >= 0
                                        THEN Call("call", << val.r, val.seg >>)
                                        ELSE Call("callm", << val.r >>) >>), 1)
              [] Defined(C, S.v) /\ S.k = "use" /\ S.e = "ncall" ->
                   Alloc(Emit(val.c, << Call("call", << val.r >>) >>), 1)
              [] OTHER ->
                   LET a == Args(Begin, S.v, S.e = "call") IN
                   Alloc(Emit(a.c, << Call("call", a.args) >>), 1),
            C.pos + 1)

(* STMT_TAILCALL: the arguments of a direct tail call are not split, those *)
(* of an indirect one are.                                                 *)
CompileTailcall ==
    /\ At({"tail"})
    /\ IF ~ Defined(C, S.v) THEN Compiled(cerr(Begin), C.pos + 1)
       ELSE LET a == Args(Begin, S.v, S.e = "ncall") IN
            Compiled(Emit(a.c, << Call("tailcall", a.args) >>), C.pos + 1)

(* STMT_RETURN, checked against the number of results of the function.     *)
NReturns == IF \E i \in Pos : prog[i].k = "return" /\ prog[i].v # None
            THEN 1 ELSE 0

CompileReturn ==
    /\ At({"return"})
    /\ Compiled(
         CASE S.v = None ->
                LET c == Emit(Begin, << Call("ret", << >>) >>) IN
                IF NReturns > 0 THEN cerr(c) ELSE c
           [] S.v # None /\ ~ Defined(C, S.v) -> cerr(Begin)
           [] OTHER -> LET val == emit_ident(Begin, S.v) IN
                       Emit(val.c, << Call("ret", << val.r >>) >>),
         C.pos + 1)

(* STMT_BREAK, STMT_CONTINUE, STMT_GOTO, STMT_LABEL, STMT_ASM.  The labels *)
(* of the source are kept apart from the numbered ones.                    *)
UserLabel == 1000

CompileJump ==
    /\ At({"break", "continue", "goto"})
    /\ Compiled(
         CASE S.k = "goto" -> Emit(Begin, << Jmp(UserLabel) >>)
           [] S.k # "goto" /\ C.loop_depth = 0 -> cerr(Begin)
           [] OTHER -> Emit(Begin, << Jmp(IF S.k = "break" THEN C.break
                                          ELSE C.continue) >>),
         C.pos + 1)

CompileLabel == At({"label"}) /\ Compiled(Emit(Begin, << Label(UserLabel) >>), C.pos + 1)
CompileAsm == At({"asm"}) /\ Compiled(Emit(Begin, << I("asm", 0, 0, 0) >>), C.pos + 1)

-----------------------------------------------------------------------------
(* Blocks.  A frame holds what emit_stmt() still has to do when the block  *)
(* it has recursed into is finished.                                       *)

Frame(k, top, end, cx) ==
    [k |-> k, top |-> top, end |-> end, cx |-> cx,
     break |-> C.break, continue |-> C.continue]
Push(c, f) == [c EXCEPT !.frames = Append(@, f)]
Top == C.frames[Len(C.frames)]
Pop(c) == [c EXCEPT !.frames = SubSeq(@, 1, Len(@) - 1)]

CompileIf ==
    /\ At({"if"})
    /\ LET l == C.next_label IN
       Compiled(push_scope(Push(Emit(Labels(Begin, 2), << Jz(l) >>),
                                Frame("if", l, l + 1, -1))), C.pos + 1)

CompileElse ==
    /\ At({"else"})
    /\ Compiled(push_scope([Emit(pop_scope(C), << Jmp(Top.end), Label(Top.top) >>)
                              EXCEPT !.frames[Len(C.frames)].k = "else"]), C.pos + 1)

\* Faulty variant: continue leaves the loop.
CompileWhile_leave ==
    /\ At({"while"})
    /\ LET l == C.next_label
           c == Emit(Labels(Begin, 2), << Label(l), Jz(l + 1) >>)
       IN Compiled(push_scope(Push([c EXCEPT !.break = l + 1, !.continue = l + 1,
                                             !.loop_depth = @ + 1],
                                   Frame("while", l, l + 1, -1))), C.pos + 1)

(* STMT_WHILE: break goes to the end, continue to the condition.           *)
CompileWhile ==
    /\ At({"while"})
    /\ LET l == C.next_label
           c == Emit(Labels(Begin, 2), << Label(l), Jz(l + 1) >>)
       IN Compiled(push_scope(Push([c EXCEPT !.break = l + 1, !.continue = l,
                                             !.loop_depth = @ + 1],
                                   Frame("while", l, l + 1, -1))), C.pos + 1)

(* STMT_FOR: CX is a symbol of the body's scope; continue goes to the top. *)
CompileFor ==
    /\ At({"for"})
    /\ LET l == C.next_label
           cx == C.next_vreg
           c == Emit(Alloc(Labels(Begin, 2), 1), << I("movc", cx, 0, 0), Label(l) >>)
       IN Compiled(sym_add(push_scope(Push([c EXCEPT !.break = l + 1, !.continue = l,
                                                     !.loop_depth = @ + 1],
                                           Frame("for", l, l + 1, cx))),
                           Symbol("CX", cx, -1, FALSE)), C.pos + 1)

(* emit_flag_checks(): skip the body when the condition does not hold.     *)
(* Only plain flags are recognised as operands.                            *)
Plain(atom) == ~ atom.neg

emit_flag_case(c, cond) ==
    LET skip == c.next_label
        l == cond.l
        r == cond.r
        If(a, ins) == IF Plain(a) THEN << ins >> ELSE << >>
    IN CASE cond.op = "flag" /\ ~ cond.neg ->
              Labels(Emit(c, << Jf(l.f, l.neg, skip) >>), 1)
         [] cond.neg -> Labels(c, 1)
         [] cond.op = "or" /\ ~ cond.neg ->
              Labels(Emit(c, If(l, Jf(l.f, TRUE, skip + 1))
                             \o If(r, Jf(r.f, TRUE, skip + 1))
                             \o << Jmp(skip), Label(skip + 1) >>), 2)
         [] cond.op = "and" /\ ~ cond.neg ->
              Labels(Emit(c, If(l, Jf(l.f, FALSE, skip))
                             \o If(r, Jf(r.f, FALSE, skip))), 1)
         [] cond.op = "xor" /\ ~ cond.neg ->
              Labels(Emit(c, If(l, Jf(l.f, TRUE, skip + 1))
                             \o If(r, Jf(r.f, FALSE, skip))
                             \o << Jmp(skip + 1), Label(skip + 1) >>
                             \o If(r, Jf(r.f, TRUE, skip))), 3)

CompileCase ==
    /\ At({"case"})
    /\ Compiled(push_scope(Push(emit_flag_case(C, S.c),
                                Frame("case", -1, C.next_label, -1))), C.pos + 1)

CompileTrap ==
    /\ At({"trap"})
    /\ Compiled(Emit(emit_flag_case(C, S.c),
                     << I("trap", 0, 0, 0), Label(C.next_label) >>), C.pos + 1)

\* Faulty variant: the end of a conditional places the else label again.
CompileEnd_again ==
    /\ At({"end"})
    /\ LET c == pop_scope(Pop(C))
           loop(ins) == [Emit(c, ins) EXCEPT !.loop_depth = @ - 1,
                            !.break = Top.break, !.continue = Top.continue]
       IN Compiled(
            CASE Top.k \in {"if", "else"} -> Emit(c, << Label(Top.top) >>)
              [] Top.k = "case" -> Emit(c, << Label(Top.end) >>)
              [] Top.k = "while" -> loop(<< Jmp(Top.top), Label(Top.end) >>)
              [] Top.k = "for" -> loop(<< I("loop", Top.top, Top.cx, 0),
                                          Label(Top.end) >>),
            C.pos + 1)

(* The end of a block: what follows the recursive emit_stmts() call.       *)
CompileEnd ==
    /\ At({"end"})
    /\ LET c == pop_scope(Pop(C))
           loop(ins) == [Emit(c, ins) EXCEPT !.loop_depth = @ - 1,
                            !.break = Top.break, !.continue = Top.continue]
       IN Compiled(
            CASE Top.k = "if" -> Emit(c, << Label(Top.top) >>)
              [] Top.k \in {"else", "case"} -> Emit(c, << Label(Top.end) >>)
              [] Top.k = "while" -> loop(<< Jmp(Top.top), Label(Top.end) >>)
              [] Top.k = "for" -> loop(<< I("loop", Top.top, Top.cx, 0),
                                          Label(Top.end) >>),
            C.pos + 1)

-----------------------------------------------------------------------------
(* Running.  Values: <<tag, n>> with n the statement that computed it.     *)

Undef == <<"undef", 0>>
Word(n) == <<"word", n>>
Off(n) == <<"off", n>>
SegOf(n) == <<"seg", n>>
Second == 100      \* added for the second value of a multi-return call
LoopStart == 2     \* for (CX in 2..0)

Slot(r) == <<"slot", r>>
Glob(i) == <<"glob", i>>
IsAddr(a) == a[1] \in {"slot", "glob"}
Junk == [lo |-> Undef, hi |-> Undef]

Vregs == 0 .. C.next_vreg + 1

(* The source program: pos the statement it is at; at what it waits for:   *)
(* the statement's first instruction, a condition, a computed value, a     *)
(* call, a loop step, a trap, the end.                                     *)
Holds(cond, fl) ==
    LET l == fl[cond.l.f] # cond.l.neg
        r == fl[cond.r.f] # cond.r.neg
        b == CASE cond.op = "flag" -> l [] cond.op = "or" -> l \/ r
               [] cond.op = "and" -> l /\ r [] cond.op = "xor" -> l # r
    IN b # cond.neg

RECURSIVE Settle(_, _)
Settle(s, i) ==
    IF i \notin Pos THEN [s EXCEPT !.pos = i, !.at = "end"]
    ELSE LET t == prog[i]
             opener == CHOOSE j \in Pos : prog[j].k \in Opener /\ Match(j) = i
         IN CASE t.k = "else" -> Settle(s, Match(Innermost(i, {"if"})) + 1)
              [] t.k = "case" -> Settle(s, IF Holds(t.c, s.flags) THEN i + 1
                                           ELSE Match(i) + 1)
              [] t.k = "trap" -> IF Holds(t.c, s.flags)
                                 THEN [s EXCEPT !.pos = i, !.at = "trap"]
                                 ELSE Settle(s, i + 1)
              [] t.k = "end" /\ prog[opener].k = "while" ->
                   [s EXCEPT !.pos = opener, !.at = "cond"]
              [] t.k = "end" /\ prog[opener].k = "for" ->
                   [s EXCEPT !.pos = i, !.at = "loop"]
              [] t.k = "end" /\ prog[opener].k \in {"if", "case"} ->
                   Settle(s, i + 1)
              [] OTHER -> [s EXCEPT !.pos = i, !.at = "line"]

(* The declaration a name at i stands for, 0 for a global: inner blocks    *)
(* shadow outer ones.                                                      *)
Visible(i, v) ==
    {j \in Pos : /\ prog[j].k = "decl" /\ prog[j].v = v /\ j < i
                 /\ \A n \in j .. i : Depth(n) >= Depth(j)
                 /\ ~ \E n \in j .. i : prog[n].k = "else" /\ Depth(n) = Depth(j)}
DeclOf(i, v) == IF Visible(i, v) = {} THEN 0 ELSE Max(Visible(i, v))
Give(s, i, v, n) ==
    IF DeclOf(i, v) = 0 THEN [s EXCEPT !.glob[v] = n]
    ELSE [s EXCEPT !.env[DeclOf(i, v)] = n]
ValueAt(s, i, v) ==
    IF DeclOf(i, v) = 0 THEN s.glob[v] ELSE s.env[DeclOf(i, v)]
Cx(s, i) == <<"cnt", s.cnt[Innermost(i, {"for"})]>>
Expected(s, i, v) ==
    LET n == ValueAt(s, i, v) IN
    CASE v = None -> << >>
      [] v = "CX" -> << Cx(s, i) >>
      [] v # "CX" /\ IsFar(v) -> << Off(n), SegOf(n) >>
      [] OTHER -> << Word(n) >>
Unknown(s, i, v) == v \notin {None, "CX"} /\ ValueAt(s, i, v) = -1

(* What the statement at i does, once begun.                               *)
Perform(s, i) ==
    LET t == prog[i]
        next(s1) == Settle(s1, i + 1)
        loop == Innermost(i, Loop)
    IN CASE t.k = "decl" -> LET s1 == [s EXCEPT !.env[i] =
                                         IF t.e = None THEN -1 ELSE i]
                            IN IF t.e = "expr" THEN [s1 EXCEPT !.at = "value"]
                               ELSE next(s1)
         [] t.k = "set" -> LET s1 == Give(s, i, t.v, i) IN
                           IF t.e = "expr" THEN [s1 EXCEPT !.at = "value"]
                           ELSE next(s1)
         [] t.k = "mset" -> next(Give(Give(s, i, t.v, i), i, t.e, i + Second))
         [] t.k = "setflag" -> next([s EXCEPT !.flags[t.v] = TRUE])
         [] t.k = "toggle" -> next([s EXCEPT !.flags[t.v] = ~ @])
         [] t.k \in {"use", "addr", "tail", "return"} -> [s EXCEPT !.at = "call"]
         [] t.k \in {"if", "while"} -> [s EXCEPT !.at = "cond"]
         [] t.k = "for" -> next([s EXCEPT !.cnt[i] = LoopStart])
         [] t.k = "break" -> Settle(s, Match(loop) + 1)
         [] t.k = "continue" /\ prog[loop].k = "while" ->
              [s EXCEPT !.pos = loop, !.at = "cond"]
         [] t.k = "continue" /\ prog[loop].k = "for" ->
              [s EXCEPT !.pos = Match(loop), !.at = "loop"]
         [] t.k = "goto" -> Settle(s, LabelAt + 1)
         [] t.k = "label" -> next(s)
         [] t.k = "asm" -> [s EXCEPT !.at = "asm"]

Branch(s, b) ==
    LET i == s.pos
        skip == IF prog[i].k = "if" /\ ElseOf(i) # {} THEN Max(ElseOf(i)) + 1
                ELSE Match(i) + 1
    IN Settle(s, IF b THEN i + 1 ELSE skip)

LoopStep(s) ==
    LET i == s.pos
        f == CHOOSE j \in Pos : prog[j].k = "for" /\ Match(j) = i
        s1 == [s EXCEPT !.cnt[f] = @ - 1]
    IN Settle(s1, IF s1.cnt[f] = 0 THEN i + 1 ELSE f + 1)

Diverged(s) == [s EXCEPT !.at = "diverged"]
Follow(ok, s) == src' = IF ok THEN s ELSE Diverged(src)

FinishCompile ==
    /\ phase = "compile" /\ C.pos = Len(prog) + 1
    /\ phase' = IF C.errors > 0 THEN "rejected" ELSE "run"
    /\ m' = [pc |-> 1, vals |-> [r \in Vregs |-> Undef],
             mem |-> [a \in ({"slot"} \X Vregs) \cup ({"glob"} \X {0, 1}) |->
                        IF a = Glob(0) THEN [lo |-> Word(0), hi |-> Undef]
                        ELSE IF a = Glob(1) THEN [lo |-> Off(0), hi |-> SegOf(0)]
                        ELSE Junk],
             flags |-> [f \in Flag |-> FALSE]]
    /\ src' = Settle([pos |-> 1, at |-> "line", env |-> [i \in Pos |-> -1],
                      glob |-> [v \in Global |-> 0], cnt |-> [i \in Pos |-> 0],
                      flags |-> [f \in Flag |-> FALSE]], 1)
    /\ UNCHANGED <<prog, open, C>>

-----------------------------------------------------------------------------
(* The IR machine. *)

Running == phase = "run" /\ m.pc <= Len(C.code) /\ src.at # "diverged"
Ins == C.code[m.pc]
Op(ops) == Running /\ Ins.op \in ops
Val(r) == m.vals[r]
Mem(a) == IF IsAddr(a) THEN m.mem[a] ELSE Junk
Poke(a, v) == IF IsAddr(a) THEN [m.mem EXCEPT ![a].lo = v] ELSE m.mem
Target(l) == CHOOSE i \in 1 .. Len(C.code) :
                 C.code[i].op = "label" /\ C.code[i].d = l
Machine(m1) == m' = m1 /\ UNCHANGED <<phase, prog, open, C>>
Step(m1) == Machine([m1 EXCEPT !.pc = @ + 1])
Goto(l) == Machine([m EXCEPT !.pc = Target(l)])

(* Moves, loads and stores.                                                *)
ExecData ==
    /\ Op({"movi", "movc", "mov", "lea", "addrof", "load", "store", "loadmem",
           "storemem", "farlit", "far.off", "far.seg", "mcall", "label"})
    /\ LET i == Ins
           set(v) == [m EXCEPT !.vals[i.d] = v]
       IN Step(CASE i.op = "movi" -> set(Word(i.a))
                 [] i.op = "movc" -> set(<<"cnt", LoopStart>>)
                 [] i.op = "mov" -> set(Val(i.a))
                 [] i.op = "lea" -> set(Slot(i.a))
                 [] i.op = "addrof" -> set(Glob(i.a))
                 [] i.op \in {"load", "far.off"} -> set(Mem(Val(i.a)).lo)
                 [] i.op = "far.seg" -> set(Mem(Val(i.a)).hi)
                 [] i.op = "loadmem" -> set(Mem(Glob(i.a)).lo)
                 [] i.op = "store" -> [m EXCEPT !.mem = Poke(Val(i.d), Val(i.a))]
                 [] i.op = "storemem" -> [m EXCEPT !.mem = Poke(Glob(i.d), Val(i.a))]
                 [] i.op = "farlit" -> [m EXCEPT !.vals[i.d] = Off(i.b),
                                                 !.vals[i.a] = SegOf(i.b)]
                 [] i.op = "mcall" -> [m EXCEPT !.vals[i.d] = Word(i.b),
                                                !.vals[i.a] = Word(i.b + Second)]
                 [] i.op = "label" -> m)
    /\ UNCHANGED src

ExecFlags ==
    /\ Op({"setflag", "toggle"})
    /\ Step([m EXCEPT !.flags[Ins.f] = IF Ins.op = "setflag" THEN TRUE ELSE ~ @])
    /\ UNCHANGED src

(* The instruction an expression ends in sets the flags.                   *)
ExecAlu ==
    /\ Op({"alu"})
    /\ \E fl \in [Flag -> BOOLEAN] :
        /\ Step([m EXCEPT !.vals[Ins.d] = Word(Ins.a), !.flags = fl])
        /\ Follow(src.at = "value" /\ src.pos = Ins.a,
                  Settle([src EXCEPT !.flags = fl], src.pos + 1))

ExecJump ==
    /\ Op({"jmp", "jf"})
    /\ IF Ins.op = "jmp" THEN Goto(Ins.d)
       ELSE IF m.flags[Ins.f] = Ins.on THEN Goto(Ins.l) ELSE Step(m)
    /\ UNCHANGED src

ExecLine ==
    /\ Op({"line"}) /\ Step(m)
    /\ IF src.at = "line" /\ src.pos = Ins.d THEN src' = Perform(src, Ins.d)
       ELSE src' = Diverged(src)

ExecCond ==
    /\ Op({"jz"})
    /\ \E b \in BOOLEAN :
        /\ IF b THEN Step(m) ELSE Goto(Ins.d)
        /\ IF src.at = "cond" THEN src' = Branch(src, b)
           ELSE src' = Diverged(src)

ExecLoop ==
    /\ Op({"loop"})
    /\ LET n == Val(Ins.a)[2] - 1
           m1 == [m EXCEPT !.vals[Ins.a] = <<"cnt", n>>]
       IN IF n # 0 THEN Machine([m1 EXCEPT !.pc = Target(Ins.d)])
          ELSE Step(m1)
    /\ IF src.at = "loop" THEN src' = LoopStep(src) ELSE src' = Diverged(src)

ExecAsm ==
    /\ Op({"asm", "trap"}) /\ Step(m)
    /\ IF src.at = Ins.op THEN src' = Settle(src, src.pos + 1)
       ELSE src' = Diverged(src)

(* A call, indirect call or return hands over values; a call given &v      *)
(* writes through the pointer.                                             *)
Given == IF Ins.op = "callm"
         THEN << Mem(Val(Ins.args[1])).lo, Mem(Val(Ins.args[1])).hi >>
         ELSE [i \in DOMAIN Ins.args |-> Val(Ins.args[i])]

ExecCall ==
    /\ Op({"call", "callm"}) /\ Step(m)
    /\ IF src.at = "call"
       THEN Follow(\/ Unknown(src, src.pos, prog[src.pos].v)
                   \/ Given = Expected(src, src.pos, prog[src.pos].v),
                   Settle(src, src.pos + 1))
       ELSE src' = Diverged(src)

ExecCallPointer ==
    /\ Op({"callp"})
    /\ LET i == src.pos
           a == Val(Ins.args[1])
           far == IsFar(prog[i].v)
       IN /\ Step(IF IsAddr(a)
                  THEN [m EXCEPT !.mem[a] = [lo |-> IF far THEN Off(i) ELSE Word(i),
                                             hi |-> IF far THEN SegOf(i) ELSE @.hi]]
                  ELSE m)
          /\ Follow(src.at = "call", Settle(Give(src, i, prog[i].v, i), i + 1))

ExecReturn ==
    /\ Op({"ret", "tailcall"})
    /\ Machine([m EXCEPT !.pc = Len(C.code) + 1])
    /\ IF src.at = "call"
       THEN Follow(\/ Unknown(src, src.pos, prog[src.pos].v)
                   \/ Given = Expected(src, src.pos, prog[src.pos].v),
                   [src EXCEPT !.at = "end"])
       ELSE src' = Diverged(src)

(* The last instruction has been executed; the binder adds the epilogue.   *)
Finish ==
    /\ phase = "run" /\ m.pc > Len(C.code) /\ src.at # "diverged"
    /\ phase' = "done"
    /\ src' = IF src.at = "end" THEN src ELSE Diverged(src)
    /\ UNCHANGED <<prog, open, C, m>>

-----------------------------------------------------------------------------
Init ==
    /\ phase = "parse" /\ prog = << >> /\ open = << >>
    /\ C = << >> /\ m = << >> /\ src = [at |-> "none"]

Compile ==
    \/ CompileDecl \/ CompileSetLiteral \/ CompileSet \/ CompileMultiSet
    \/ CompileFlag \/ CompileCall \/ CompileTailcall \/ CompileReturn
    \/ CompileJump \/ CompileLabel \/ CompileAsm \/ CompileIf \/ CompileElse
    \/ CompileWhile \/ CompileFor \/ CompileCase \/ CompileTrap \/ CompileEnd

Execute ==
    \/ ExecData \/ ExecFlags \/ ExecAlu \/ ExecJump \/ ExecLine \/ ExecCond
    \/ ExecLoop \/ ExecAsm \/ ExecCall \/ ExecCallPointer \/ ExecReturn

Next ==
    \/ Parse \/ ParseEnd \/ CompileFn
    \/ Compile \/ FinishCompile
    \/ Execute \/ Finish

Spec == Init /\ [][Next]_vars

-----------------------------------------------------------------------------
(* Properties. *)

(* The compiler's state, the machine and the source program stay in their  *)
(* domains: scopes and pending blocks match the nesting reached, labels    *)
(* and registers are below their counters, and only accepted bodies run.   *)
TypeOK ==
    /\ phase \in {"parse", "compile", "run", "done", "rejected"}
    /\ phase = "parse" => Len(open) <= NStmts
    /\ phase \in {"compile", "run", "done"} =>
        /\ C.pos \in 1 .. Len(prog) + 1
        /\ Len(C.scopes) = Len(C.frames) + 2
        /\ C.errors \in {0, 1}
    /\ phase \in {"run", "done"} =>
        /\ C.errors = 0 /\ m.pc \in 1 .. Len(C.code) + 1
        /\ DOMAIN m.flags = Flag

(* Executing the IR of any accepted body visits the statements of the body *)
(* in the order SPEC.md gives them and hands every call, indirect call and *)
(* return the values the source variables hold.                            *)
LoweringFollowsSource == src.at # "diverged"

(* The constructs emit_stmt() lowers differently from SPEC.md: continue in *)
(* a for loop, flag conditions other than one flag or two plain flags      *)
(* joined by | or &, flag checks on assignments of literals and of several *)
(* results, assigning far32 variables, several results stored to an        *)
(* address-taken local, the address of a global or of a local taken only   *)
(* in a flag check, and far arguments where they are not split.            *)
ContinueInFor(i) ==
    prog[i].k = "continue" /\ Innermost(i, Loop) # 0
    /\ prog[Innermost(i, Loop)].k = "for"
CompoundCondition(i) ==
    /\ prog[i].k \in {"case", "trap"}
    /\ LET c == prog[i].c IN
       \/ c.op = "xor" \/ c.neg
       \/ c.op \in {"or", "and"} /\ (c.l.neg \/ c.r.neg)
DroppedChecks(i) ==
    /\ \/ prog[i].k \in {"mset", "setflag"}
       \/ prog[i].k = "set" /\ prog[i].e = "lit"
    /\ AfterCases(i) # i + 1
FarAssigned(i) ==
    \/ prog[i].k = "set" /\ IsFar(prog[i].v)
    \/ prog[i].k = "mset" /\ \E v \in {prog[i].v, prog[i].e} :
                               IsFar(v) \/ (v \in AddrTaken /\ DeclOf(i, v) # 0)
AddressLost(i) == prog[i].k = "addr" /\ (\/ prog[i].v \notin AddrTaken
                                         \/ DeclOf(i, prog[i].v) = 0)
FarNotSplit(i) == /\ IsFar(prog[i].v)
                  /\ \/ prog[i].k = "use" /\ prog[i].e = "later"
                     \/ prog[i].k = "tail" /\ prog[i].e = "call"
Deviates ==
    \E i \in Pos : \/ ContinueInFor(i) \/ CompoundCondition(i)
                   \/ DroppedChecks(i) \/ FarAssigned(i)
                   \/ AddressLost(i) \/ FarNotSplit(i)

(* Apart from those constructs, the IR of every accepted body does what    *)
(* the body says, whatever way conditions and flags go and however loops,  *)
(* checks, shadowing declarations and jumps are nested.                    *)
FollowsSource == LoweringFollowsSource \/ Deviates

(* Every label jumped to is placed exactly once, also where flag checks,   *)
(* loops and conditionals nest and in code that is never reached.          *)
LabelsPlacedOnce ==
    phase = "run" /\ m.pc = 1 =>
        \A i \in 1 .. Len(C.code) :
            LET ins == C.code[i]
                l == IF ins.op = "jf" THEN ins.l ELSE ins.d
            IN ins.op \in {"jmp", "jz", "jf", "loop"} =>
                Cardinality({j \in 1 .. Len(C.code) :
                    C.code[j].op = "label" /\ C.code[j].d = l}) = 1
=============================================================================
