---------------------------- MODULE MCStackCache ----------------------------
(***************************************************************************)
(* Functions for the liveness analysis and the stack-cache plan: every     *)
(* order of the definitions and uses of two vregs in straight code, a      *)
(* diamond, loops and blocks laid out backwards.                           *)
(***************************************************************************)
EXTENDS StackCache, MCLiveness

OneSibling == {<<0, 1>>}

Fill4 ==
    LET E == {<<Def(2), Def(3), Use({2}), Use({3})>>,
              <<Def(2), Def(3), Use({2, 3}), Use({3})>>,
              <<Def(2), OpOf(3, {2}), Use({3}), Def(0)>>,
              <<Def(2), Copy(3, 2), Use({3}), Use({0})>>,
              <<Def(0), Def(1), Use({0}), Use({1})>>,
              <<Def(0), Def(1), Use({0, 1}), Def(2)>>,
              <<Def(0), Def(1), Use({0, 1}), Use({2})>>,
              <<Def(2), Mcall(3, 0, {2}), Use({3}), Use({0})>>,
              <<Def(2), Mcall(3, 0, {1}), Use({2}), Use({0, 3})>>,
              <<Def(2), Asm, Use({2}), Def(3)>>,
              <<Def(2), Def(3), Return({2}), Use({3})>>}
    IN  UNION {{[k \in 1 .. 4 |-> e[p[k]]] :
                  p \in {q \in [1 .. 4 -> 1 .. 4] : IsInjective(q)}} : e \in E}

Skeleton4(w, x, y, z) ==
    <<<<w, x, y, z>>,
      <<w, Jz("A", 1), x, Jmp("B"), At("A"), y, At("B"), z>>,
      <<w, x, Jz("A", 1), y, At("A"), z, Ret>>,
      <<w, At("A"), x, y, Jz("A", 1), z, Ret>>,
      <<w, x, At("A"), y, Jz("A", 0), z>>,
      <<w, Jmp("C"), At("A"), x, Ret, At("B"), y, Jmp("A"), At("C"), z, Jmp("B")>>,
      <<w, Jmp("B"), At("A"), x, Jmp("C"), At("B"), y, Jmp("A"), At("C"), z>>,
      <<w, x, Jz("A", 1), y, Ret, At("A"), z, Ret>>>>

InOrder(s) == \A v \in 0 .. 3 : \A i, j \in DOMAIN s :
    v \in Defs(s[i]) /\ v \in Uses(s[j]) /\ s[i].op # "jmp" => i < j

CacheFns ==
    {[insns |-> Skeleton4(f[1], f[2], f[3], f[4])[k], params |-> {}, planned |-> TRUE] :
        f \in {g \in Fill4 : InOrder(g)}, k \in 1 .. 8}

\* A value defined in a block laid out last lives through the code of two
\* siblings, once in front of them and once behind.
Across ==
    {[insns |-> <<Jmp("C"), At("A"), Def(0), Def(1), Use({0}), Use({1}), Use({3}), Ret,
                  At("C"), Def(3), Jmp("A")>>, params |-> {}, planned |-> TRUE],
     [insns |-> <<Def(3), Jz("A", 3), At("A"), Def(0), Def(1), Use({0}), Use({1}),
                  Use({3}), Ret>>, params |-> {}, planned |-> TRUE]}
AllFns == {Skeletons, CacheFns, Across}

=============================================================================
