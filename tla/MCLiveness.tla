----------------------------- MODULE MCLiveness -----------------------------
(* Functions for the liveness analysis. *)
EXTENDS Liveness

Ins(op, d, S, rs, n) ==
    [op |-> op, dst |-> d, srcs |-> S, rets |-> rs, name |-> n]
Def(d)     == Ins("op", d, {}, << >>, "none")
Use(S)     == Ins("op", NoVreg, S, << >>, "none")
OpOf(d, S) == Ins("op", d, S, << >>, "none")
Copy(d, s) == Ins("copy", d, {s}, << >>, "none")
Port(d, s) == Ins("port", d, {s}, << >>, "none")
Store(d, s) == Ins("store", d, {s}, << >>, "none")
Mcall(d, r, S) == Ins("mcall", d, S, <<r>>, "none")
At(l)      == Ins("label", NoVreg, {}, << >>, l)
Jz(l, v)   == Ins("branch", NoVreg, {v}, << >>, l)
Jmp(l)     == Ins("jmp", NoVreg, {}, << >>, l)
Asm        == Ins("barrier", NoVreg, {}, << >>, "none")
Return(S)  == Ins("retval", NoVreg, S, << >>, "none")
Ret        == Ins("exit", NoVreg, {}, << >>, "none")

\* Straight-line instructions over the vregs 0, 1 and 2; none reads what it
\* defines.
Fill ==
    {Def(0), Def(1), Use({0}), Use({1, 2}), OpOf(2, {0, 1}), Copy(1, 0),
     Copy(0, 2), Port(0, 1), Store(1, 2), Mcall(0, 1, {2})}

\* What may stand in the middle block.
Middle == {Def(0), Use({1, 2}), OpOf(2, {0, 1}), Copy(1, 0), Mcall(0, 1, {2})}

Fn(is, ps) == [insns |-> is, params |-> ps, planned |-> FALSE]

\* Control skeletons: straight code, a diamond, nested loops, a loop through
\* the entry, blocks in backward order, a loop with two entries, dead code.
Skeleton(x, y, z) ==
    <<<<x, y, z>>,
      <<x, Jz("A", 0), y, Jmp("B"), At("A"), z, At("B"), Use({1})>>,
      <<x, At("A"), At("B"), y, Jz("B", 2), z, Jz("A", 1), Ret>>,
      <<At("A"), x, Jz("B", 1), y, Jmp("A"), At("B"), z, Ret>>,
      <<Jmp("C"), At("A"), x, Ret, At("B"), y, Jmp("A"), At("C"), z, Jmp("B")>>,
      <<x, Jz("B", 0), At("A"), y, At("B"), z, Jz("A", 1), Ret>>,
      <<x, Ret, y, At("A"), z, Jz("A", 2)>>>>

Skeletons ==
    {Fn(Skeleton(x, y, z)[k], ps) :
        x \in Fill, y \in Middle, z \in Fill, k \in 1 .. 7, ps \in {{}, {0, 2}}}

\* A vreg updated in place, with a temporary that lives in between.
Updates ==
    {{Fn(<<Def(1), OpOf(2, {0}), Use({2}), OpOf(1, {1}), Use({1})>>, {0})}}
=============================================================================
