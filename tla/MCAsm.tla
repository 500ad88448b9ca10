------------------------------- MODULE MCAsm -------------------------------
(***************************************************************************)
(* Sources for the assembler, with gaps that put branches on both sides of *)
(* the -128 .. 127 limit.                                                  *)
(***************************************************************************)
EXTENDS Asm

CONSTANTS Gaps,     \* lengths of the stretches between branches and labels
          BranchOps \* kinds of references in the enumerated sources

L(op, l) == [op |-> op, lab |-> l, n |-> 0]
N(op, k) == [op |-> op, lab |-> "a", n |-> k]

\* Two labels and two references in every order, any gap between them.
Item == [op : BranchOps, lab : {"a", "b"}, n : {0}]
            \cup {L("label", "a"), L("label", "b")}
TwoLabels(x) ==
    \A l \in {"a", "b"} : Cardinality({k \in 1 .. 4 : x[k] = L("label", l)}) = 1
Mixed ==
    {<<x[1], N("bytes", g[1]), x[2], N("bytes", g[2]), x[3],
       N("bytes", g[3]), x[4]>> :
        x \in {y \in [1 .. 4 -> Item] : TwoLabels(y)}, g \in [1 .. 3 -> Gaps]}

\* Forward branches that overlap, each just in reach of its label until the
\* next one is relaxed: a run relaxes one of them.  A trailing jump back
\* starts the re-runs.
T == <<"t1", "t2", "t3", "t4", "t5", "t6">>
Cascade(m) ==
    [k \in 1 .. m |-> L("jcc", T[k])]
    \o <<N("bytes", 129 - 2 * m)>>
    \o [k \in 1 .. 2 * (m - 1) |->
           IF k % 2 = 1 THEN L("label", T[(k + 1) \div 2]) ELSE N("bytes", 2)]
    \o <<N("bytes", 1), L("label", T[m]), N("bytes", 200), L("jmp", T[1])>>

\* Code placed by org, in two segments, and code at the end of the image.
Placed ==
    {<<L("far", "b"), N("seg", s), N("org", o), L("call", "b"),
       L("label", "a"), N("bytes", g), L("jmp", "a"), N("endorg", 0),
       L("label", "b"), L("mem", "a"), L("alu", "b"), L("jcc", "a"),
       N("endorg", 0)>> :
        s \in {0, 4096}, o \in {16, 300, 1048570}, g \in {1, 130}}
    \cup {<<[op |-> "equ", lab |-> "a", n |-> o], L("mem", "a"), L("alu", "a"),
            L("call", "b"), L("loop", "b")>> : o \in {0, 5, 128}}
    \cup {<<N("org", 16), L("label", "a"), N("bytes", g), L("jmp", "a")>> :
             g \in {1, 130}}

\* Operands whose length depends on a label further down.
Displaced ==
    {<<L(op, "a"), N("bytes", g), L("label", "a")>> :
        op \in {"mem", "alu"}, g \in Gaps}

Sources == Mixed \cup Displaced \cup Placed \cup {Cascade(m) : m \in 2 .. 6}
=============================================================================
