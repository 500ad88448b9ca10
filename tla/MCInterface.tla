---------------------------- MODULE MCInterface ----------------------------
(* Programs of up to three modules for the interface between them. *)
EXTENDS Interface

Names == [long |-> {"VeryLong"}, stack |-> {"stack_top", "stackframe"},
          register |-> {"register_file"}]
TheLongNames == Names.long
TheStackNames == Names.stack
TheRegisterNames == Names.register

Param(n, t, place, pin, seg, value) ==
    [name |-> n, type |-> t, place |-> place, pin |-> pin, seg_pin |-> seg, value |-> value]
Plain(n, t) == Param(n, t, "default", None, None, FALSE)
Ret(t, place, pin) == [type |-> t, place |-> place, pin |-> pin]

Fn(params, rets) ==
    [k |-> "fn", name |-> "f", pub |-> TRUE, far |-> FALSE, api |-> FALSE,
     interrupt |-> FALSE, bare |-> FALSE, ds |-> "unspec", contract |-> "none",
     regs |-> {}, params |-> params, rets |-> rets, body |-> TRUE]
Field(n, t) == [name |-> n, is_bits |-> FALSE, bits |-> Lit(0), type |-> t]
Bits(n, b) == [name |-> n, is_bits |-> TRUE, bits |-> b, type |-> T("u8")]
St(n, pub, aligned, fields) ==
    [k |-> "struct", name |-> n, pub |-> pub, aligned |-> aligned, fields |-> fields]
Global(n, t, init, elems) ==
    [k |-> "global", name |-> n, pub |-> TRUE, type |-> t, init |-> init, elems |-> elems]
Const(n, e) == [k |-> "const", name |-> n, pub |-> TRUE, value |-> e]
UseOf(m) == [k |-> "use", path |-> m]
Ident(n) == [k |-> "ident", name |-> n]
Seqs(S, n) == UNION {[1 .. i -> S] : i \in 0 .. n}

\* Signatures: all pairs of parameters and results of every kind and place.
Params ==
    {Plain(n, t) : n \in {"a", "stack_top"},
                   t \in {T("u8"), T("u16"), T("seg"), T("far"), Array(T("u8"), Lit(2)),
                          Struct("S"), Struct("stackframe"), Struct("VeryLong")}}
    \cup {Plain("register_file", T("u16"))}
    \cup {Param("a", T("far"), place, None, None, FALSE) : place \in {"stack", "register"}}
    \cup {Param("a", T("far"), "default", "BX", "ES", FALSE),
          Param("a", T("u16"), "default", "SI", None, FALSE),
          Param("a", T("u16"), "stack", None, None, FALSE),
          Param("a", T("seg"), "default", "ES", None, FALSE),
          Param("a", Array(T("far"), Lit(2)), "default", None, None, FALSE),
          Param("a", Struct("S"), "default", None, None, TRUE)}
Rets == {Ret(T("u16"), "default", None), Ret(T("u8"), "default", "AL"),
         Ret(T("far"), "default", None), Ret(T("far"), "register", None),
         Ret(T("u16"), "stack", None)}
Shape ==
    {Fn(ps, << >>) : ps \in Seqs(Params, 2)}
    \cup {Fn(<<Plain("a", T("far"))>>, rs) : rs \in Seqs(Rets, 2)}
Exported == {[f EXCEPT !.api = TRUE, !.contract = "clobbers", !.regs = {"AL", "BX", "DI"}] : f \in Shape}
Signatures == {<<<<f>>, <<UseOf(1)>>>> : f \in Exported}

\* Visibility and contracts of one function, accepted or rejected.
Conventions ==
    {[Fn(<<Plain("a", T("far"))>>, rs) EXCEPT
        !.k = k, !.pub = pub, !.api = api, !.far = far, !.ds = ds,
        !.contract = c, !.regs = regs, !.body = body, !.interrupt = isr, !.bare = isr] :
        rs \in {<< >>, <<Ret(T("u8"), "default", "AL")>>, <<Ret(T("seg"), "default", "ES")>>},
        k \in {"fn", "extern"}, pub \in BOOLEAN, api \in BOOLEAN, far \in BOOLEAN,
        ds \in {"unspec", "caller", "literal", "out of range"},
        c \in {"none", "preserves", "clobbers"}, regs \in {{}, {"BX", "FLAGS"}, {"SS"}},
        body \in BOOLEAN, isr \in BOOLEAN}
Contracts ==
    {<<<<f>>, <<UseOf(1)>>>> :
        f \in {g \in Conventions : (g.k = "extern" => ~g.api /\ ~g.interrupt)
                                   /\ (g.k = "fn" => g.body)}}
    \cup {<<<<[Fn(<< >>, << >>) EXCEPT !.pub = FALSE, !.interrupt = TRUE]>>, <<UseOf(3)>>>>}

\* Structs: fields of every kind, packed or aligned, nested, with bit fields
\* and with sizes from constants of the same or of an imported module.
N == Const("N", [k |-> "add", l |-> Lit(1), r |-> Lit(2)])
Fields ==
    {Field("a", t) : t \in {T("u8"), T("u16"), T("far"), Array(T("u8"), Lit(3)),
                            Array(T("u16"), Ident("N")), Struct("S"),
                            Array(T("u32"), Lit(2)), Bcd(3)}}
    \cup {Bits("b", Lit(3)), Bits("b", Lit(9)), Bits(None, Ident("N"))}
Inner == {St("S", pub, al, fs) : pub \in BOOLEAN, al \in BOOLEAN,
              fs \in {<<Field("x", T("u8"))>>, <<Field("x", T("u8")), Field("y", T("u16"))>>}}
Outer == {St("R", TRUE, al, fs) : al \in BOOLEAN, fs \in [1 .. 2 -> Fields]}
Layouts ==
    {<<<<N, s>>, <<UseOf(1), r>>, us>> :
        s \in Inner, r \in Outer,
        us \in {<<UseOf(2)>>, <<UseOf(1), UseOf(2)>>,
                <<St("S", FALSE, FALSE, <<Field("x", T("u32"))>>), UseOf(2), UseOf(1)>>}}

\* Globals with and without initializers.
Element == {[k |-> "int"], [k |-> "far"], [k |-> "near", name |-> "f"],
            [k |-> "far.ref", name |-> "f"], [k |-> "near", name |-> "g"]}
Globals ==
    {<<<<St("S", TRUE, FALSE, <<Field("x", T("u16")), Field("y", T("u8"))>>),
         Fn(<< >>, << >>), [k |-> "at"], Global("v", t, init, es), [k |-> "endat"]>>,
       <<UseOf(1)>>>> :
        t \in {T("u8"), T("u16"), T("u32"), T("seg"), T("far"), Bcd(3), Struct("S")}
              \cup {Array(T(e), Lit(n)) : e \in {"u8", "u16", "u32", "seg", "far"}, n \in {0, 2, 3}}
              \cup {Array(Struct("S"), Lit(2)), Array(T("u8"), [k |-> "div", l |-> Lit(6), r |-> Lit(2)]),
                    Array(T("u8"), [k |-> "mul", l |-> Lit(1), r |-> Ident("M")])},
        init \in {"none", "list", "string"}, es \in Seqs(Element, 2)}

AllPrograms == {Signatures, Contracts, Layouts, Globals}
=============================================================================
