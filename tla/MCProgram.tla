----------------------------- MODULE MCProgram ------------------------------
(***************************************************************************)
(* Programs for the binder's main(): call graphs for the order and the     *)
(* clobber sets, interfaces for the parameter registers, layouts for the   *)
(* placement.                                                              *)
(***************************************************************************)
EXTENDS Program

Only(f, S) == [g \in Fn |-> IF g = f THEN S ELSE {}]
Nothing == [c \in Fn \cup Ext |-> {}]
Empty(S) == [x \in S |-> << >>]
Same(S, y) == [x \in S |-> y]

NoLayout == [items |-> Empty(Mod), root |-> 1]
NoAbi ==
    [params |-> Empty(Fn), pins |-> Same(Fn, Same(Vreg, NONE)), movs |-> Empty(Fn),
     segs |-> Same(Fn, {}), edges |-> << >>, rets |-> Empty(Fn \cup Ext),
     takes |-> Empty(Ext), far |-> {}, pwords |-> Empty(Fn \cup Ext),
     rwords |-> Empty(Fn \cup Ext)]
NoProg ==
    [own |-> Same(Fn, {}), calls |-> Same(Fn, {}), tails |-> Same(Fn, {}),
     preserves |-> Nothing, ds |-> {}]

\* Every call graph over Fn, self calls apart; any functions touch BX, at most
\* one calls the extern, touches DS, has a DS policy or declares
\* preserves(BX).
Mixed ==
    {[own |-> [f \in Fn |-> (IF f \in bx THEN {"BX"} ELSE {}) \cup Only(d, {"DS"})[f]],
      calls |-> [f \in Fn |-> g[f] \cup Only(e, {9})[f]],
      tails |-> Same(Fn, {}),
      preserves |-> [c \in Fn \cup Ext |->
                       IF c = 9 THEN {"DS"} ELSE Only(p, {"BX"})[c]],
      ds |-> {s} \ {0}] :
        g \in {h \in [Fn -> SUBSET Fn] : \A f \in Fn : f \notin h[f]},
        bx \in SUBSET Fn, d \in {0, 3}, e \in {0, 2}, p \in {0, 3}, s \in {0, 2}}

\* Chains in both source orders, branches, a diamond and recursion, with one
\* function that pins a register, moves a parameter or has a seg parameter.
Calls ==
    {<<{2}, {3}, {}>>, <<{}, {1}, {2}>>, <<{2, 3}, {}, {}>>, <<{2, 3}, {3}, {9}>>,
     <<{9}, {1}, {1, 2}>>, <<{2}, {1, 3}, {}>>}
Widths == {<<FALSE, FALSE>>, <<FALSE, TRUE>>, <<TRUE, FALSE>>}
Pins == {<< >>, <<"SI">>, <<NONE, "BX", "DI">>, <<NONE, NONE, "CX">>, <<"AL", NONE>>,
         <<"CX", "AL">>, <<"SI", "SI">>}
Passed == {<<1, 2>>, <<2, 1>>, <<3, 1>>}
EdgesOf(cs, args) ==
    LET all == SetToSeq({<<f, c>> \in Fn \X (Fn \cup Ext) : c \in cs[f]}) IN
    [k \in DOMAIN all |->
        [caller |-> all[k][1], callee |-> all[k][2],
         args |-> IF all[k] = <<1, 3>> THEN <<4, 2>> ELSE args,
         rets |-> IF all[k][1] = 2 THEN <<2>> ELSE << >>]]
Fits(w, pin) ==
    \A k \in DOMAIN pin : pin[k] # NONE =>
        (pin[k] \in ByteRegs) = (k <= 2 /\ w[k])
Interfaces ==
    {[prog |-> [NoProg EXCEPT !.calls = x[1]], layout |-> NoLayout,
      abi |->
        [params |-> Same(Fn, [k \in 1 .. 2 |-> [v |-> k, byte |-> x[2][k]]]),
         pins |-> [f \in Fn |-> [v \in Vreg |->
                      IF f = o /\ v \in DOMAIN x[3] THEN x[3][v] ELSE NONE]],
         movs |-> [f \in Fn |-> IF f = o THEN << <<3, 1>> >> ELSE << >>],
         segs |-> [f \in Fn |-> IF f = o THEN sg ELSE {}],
         edges |-> EdgesOf(x[1], a), rets |-> Same(Fn \cup Ext, <<"AX">>),
         takes |-> Same(Ext, <<"BX">>), far |-> {2},
         pwords |-> [c \in Fn \cup Ext |-> IF c = 3 THEN <<st, 0>> ELSE <<0, 0>>],
         rwords |-> Same(Fn \cup Ext, <<0>>)]] :
        x \in {y \in Calls \X Widths \X Pins : Fits(y[2], y[3])},
        o \in Fn, a \in Passed, sg \in {{}, {1}}, st \in 0 .. 1}

\* More parameters than registers.
Crowded ==
    {[prog |-> NoProg, layout |-> NoLayout,
      abi |-> [NoAbi EXCEPT !.params[1] = [k \in Vreg |-> [v |-> k, byte |-> b]],
                            !.pwords[1] = [k \in Vreg |-> 0]]] : b \in BOOLEAN}

\* A root module, one it uses with any declarations, and one below.
It(kind, seg, ref) == [kind |-> kind, seg |-> seg, ref |-> ref]
Module(m, shape) ==
    [k \in DOMAIN shape |->
        IF shape[k].kind \in {"fn", "data", "glob"}
        THEN [shape[k] EXCEPT !.ref = 10 * m + k] ELSE shape[k]]
Fun == It("fn", UNKNOWN, 0)
Roots ==
    {<<It("use", UNKNOWN, 2), Fun, It("data", 1, 0)>>,
     <<It("at", 1, 0), It("use", UNKNOWN, 2), It("data", UNKNOWN, 0), It("endat", UNKNOWN, 0), Fun>>,
     <<It("at", 1, 0), Fun, It("use", UNKNOWN, 3), It("use", UNKNOWN, 2), Fun>>}
Shapes ==
    {Fun, It("fn", 2, 0), It("data", UNKNOWN, 0), It("data", 2, 0), It("glob", UNKNOWN, 0),
     It("glob", 1, 0), It("at", 2, 0), It("endat", UNKNOWN, 0), It("use", UNKNOWN, 3)}
Blocks == {Fun, It("at", 2, 0), It("data", 1, 0), It("endat", UNKNOWN, 0), It("use", UNKNOWN, 3)}
Middles == [1 .. 1 -> Shapes] \cup [1 .. 2 -> Shapes] \cup [1 .. 3 -> Blocks]
Leaves == {<<It("at", 2, 0), Fun>>, <<It("use", UNKNOWN, 1), It("glob", 2, 0), It("at", 1, 0), Fun>>}
Layouts ==
    {[items |-> <<Module(1, r), Module(2, m), Module(3, l)>>, root |-> 1] :
        r \in Roots, m \in Middles, l \in Leaves}

MCInputs ==
    {{[prog |-> p, abi |-> NoAbi, layout |-> NoLayout] : p \in Mixed},
     Interfaces, Crowded,
     {[prog |-> NoProg, abi |-> NoAbi, layout |-> l] : l \in Layouts}}
MCRef == {10 * m + k : m \in 1 .. 3, k \in 1 .. 5}
=============================================================================
