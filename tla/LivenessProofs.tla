--------------------------- MODULE LivenessProofs ---------------------------
(***************************************************************************)
(* Proofs about the analysis of Liveness, as the continuing specification  *)
(* of StackCache runs it: the live sets at the edges of the blocks are     *)
(* those that paths define, the range of a vreg covers its reads, and the  *)
(* interference graph joins what is live together.                         *)
(*                                                                         *)
(* The blocks are described first (BlocksOK), then liveness before an      *)
(* instruction as the least set with the closure properties of a backward  *)
(* data flow (AboveLeast, TrueFlow). The invariant then speaks of the live *)
(* sets of blocks only.                                                    *)
(***************************************************************************)
EXTENDS StackCache, ProofFacts

-----------------------------------------------------------------------------
(* Enumerating a finite set of numbers in order. *)

\* The elements of a finite set of numbers, as Starts lists the leaders.
InOrderOf(S) ==
    [k \in 1 .. Cardinality(S) |->
        CHOOSE i \in S : Cardinality({j \in S : j <= i}) = k]

\* The list grows and has every element.
Enumeration(S, e, N) ==
    /\ N \in Nat /\ DOMAIN e = 1 .. N
    /\ \A k \in 1 .. N : e[k] \in S
    /\ \A i \in S : \E k \in 1 .. N : e[k] = i
    /\ \A k, l \in 1 .. N : k < l => e[k] < e[l]

\* The list of InOrderOf is in order and complete.
LEMMA Enumerates ==
    ASSUME NEW S, S \subseteq Nat, IsFiniteSet(S), NEW e, e = InOrderOf(S),
           NEW N, N = Cardinality(S)
    PROVE  Enumeration(S, e, N)
<1> DEFINE UpTo(i) == {j \in S : j <= i}
           UnderIt(i) == {j \in S : j < i}
<1>1. N \in Nat
  BY FS_CardinalityType
<1>2. PICK f : f = [s \in S |-> s]
  OBVIOUS
<1>3. PICK rank : rank = RankOf(S, f)
  OBVIOUS
<1>4. /\ f \in [S -> Nat] /\ \A x, y \in S : f[x] = f[y] => x = y
      /\ \A x \in S : f[x] = x
  BY <1>2
<1>5. /\ \A x, y \in S : rank[x] = rank[y] => x = y
      /\ {rank[s] : s \in S} = 0 .. Cardinality(S) - 1
  BY ONLY <1>3, <1>4, IsFiniteSet(S), Ranks
<1>6. \A i \in S : rank[i] = Cardinality(UnderIt(i))
  <2>1. ASSUME NEW i \in S PROVE rank[i] = Cardinality(UnderIt(i))
    <3>1. rank[i] = Cardinality({t \in S : f[t] < f[i]})
      BY <1>3 DEF RankOf
    <3>2. {t \in S : f[t] < f[i]} = UnderIt(i)
      BY <1>4
    <3>3. QED
      BY <3>1, <3>2
  <2>2. QED
    BY <2>1
<1>7. \A i \in S : Cardinality(UpTo(i)) = rank[i] + 1 /\ rank[i] \in 0 .. N - 1
  <2>1. ASSUME NEW i \in S PROVE Cardinality(UpTo(i)) = rank[i] + 1
    <3>1. UpTo(i) = UnderIt(i) \cup {i} /\ i \notin UnderIt(i)
      <4>1. \A j \in S : (j <= i <=> j < i \/ j = i) /\ (j < i => j # i)
        OBVIOUS
      <4>2. \A j : j \in UpTo(i) <=> j \in UnderIt(i) \cup {i}
        BY <4>1
      <4>3. i \notin UnderIt(i)
        BY <4>1
      <4> HIDE DEF UpTo, UnderIt
      <4>4. QED
        BY <4>2, <4>3
    <3>2. IsFiniteSet(UnderIt(i))
      <4>1. UnderIt(i) \subseteq S
        OBVIOUS
      <4>2. QED
        BY ONLY <4>1, IsFiniteSet(S), FS_Subset
    <3>3. Cardinality(UnderIt(i) \cup {i}) = Cardinality(UnderIt(i)) + 1
      <4> HIDE DEF UnderIt
      <4>1. QED
        BY ONLY <3>1, <3>2, FS_AddElement
    <3>4. QED
      BY <1>6, <3>1, <3>3
  <2>2. QED
    BY <1>5, <2>1
<1>8. \A k \in 1 .. N : \E i \in S : Cardinality(UpTo(i)) = k
  <2>1. ASSUME NEW k \in 1 .. N PROVE \E i \in S : Cardinality(UpTo(i)) = k
    <3>1. k - 1 \in 0 .. N - 1 /\ k = k - 1 + 1
      BY <1>1
    <3>2. PICK i \in S : rank[i] = k - 1
      BY <1>5, <3>1
    <3>3. QED
      BY <1>7, <3>1, <3>2
  <2>2. QED
    BY <2>1
<1>9. DOMAIN e = 1 .. N /\ \A k \in 1 .. N : e[k] \in S /\ Cardinality(UpTo(e[k])) = k
  <2>1. /\ DOMAIN e = 1 .. N
        /\ \A k \in 1 .. N : e[k] = CHOOSE i \in S : Cardinality(UpTo(i)) = k
    BY DEF InOrderOf
  <2> HIDE DEF UpTo
  <2>2. QED
    BY <1>8, <2>1
<1>10. \A i \in S : \E k \in 1 .. N : e[k] = i
  <2>1. ASSUME NEW i \in S PROVE \E k \in 1 .. N : e[k] = i
    <3>1. PICK k : k = Cardinality(UpTo(i)) /\ k \in 1 .. N
      BY <1>1, <1>7
    <3>2. e[k] \in S /\ Cardinality(UpTo(e[k])) = Cardinality(UpTo(i))
      BY <1>9, <3>1
    <3> HIDE DEF UpTo
    <3>3. rank[e[k]] = rank[i]
      <4>1. rank[e[k]] + 1 = rank[i] + 1
        BY <1>7, <3>2
      <4>2. rank[e[k]] \in Int /\ rank[i] \in Int
        <5>1. rank[e[k]] \in 0 .. N - 1 /\ rank[i] \in 0 .. N - 1
          BY <1>7, <3>2
        <5>2. QED
          BY ONLY <1>1, <5>1
      <4>3. QED
        BY ONLY <4>1, <4>2
    <3>4. QED
      BY <1>5, <3>1, <3>2, <3>3
  <2>2. QED
    BY <2>1
<1>11. \A k, l \in 1 .. N : k < l => e[k] < e[l]
  <2>1. ASSUME NEW k \in 1 .. N, NEW l \in 1 .. N, k < l, ~(e[k] < e[l]) PROVE FALSE
    <3>1. e[k] \in Nat /\ e[l] \in Nat
      BY <1>9
    <3>2. UpTo(e[l]) \subseteq UpTo(e[k])
      <4>1. \A j \in S : j \in Nat /\ (j <= e[l] => j <= e[k])
        BY <2>1, <3>1
      <4>2. QED
        BY <4>1
    <3>3. IsFiniteSet(UpTo(e[k]))
      <4>1. UpTo(e[k]) \subseteq S
        OBVIOUS
      <4>2. QED
        BY ONLY <4>1, IsFiniteSet(S), FS_Subset
    <3>4. Cardinality(UpTo(e[l])) <= Cardinality(UpTo(e[k]))
      <4> HIDE DEF UpTo
      <4>1. QED
        BY ONLY <3>2, <3>3, FS_Subset
    <3>5. QED
      BY <1>9, <2>1, <3>4
  <2>2. QED
    BY <2>1
<1>12. QED
  BY <1>1, <1>9, <1>10, <1>11 DEF Enumeration

-----------------------------------------------------------------------------
(* The function and its blocks. *)

\* What FunctionsAssumption says of the function at hand, apart from its labels.
FnOK ==
    /\ insns \in Seq(Insn) /\ Len(insns) \in Nat \ {0} /\ Pos = 1 .. Len(insns)
    /\ fn.params \subseteq Vreg

\* A function the binder is given is well typed.
LEMMA FnIs ==
    ASSUME \E F \in Functions : fn \in F
    PROVE  FnOK
<1>1. /\ insns \in Seq(Insn) /\ insns # << >> /\ fn.params \subseteq Vreg
  BY FunctionsAssumption DEF insns
<1>2. QED
  BY <1>1 DEF FnOK, Pos

\* What an instruction defines and reads are vregs.
LEMMA InsnsAre ==
    ASSUME FnOK, NEW i \in Pos
    PROVE  /\ insns[i] \in Insn
           /\ Defs(insns[i]) \subseteq Vreg /\ Uses(insns[i]) \subseteq Vreg
           /\ RangeUses(insns[i]) \subseteq Vreg \cup {NoVreg}
<1>1. insns[i] \in Insn
  BY DEF FnOK
<1>2. /\ insns[i].dst \in Vreg \cup {NoVreg} /\ insns[i].srcs \subseteq Vreg
      /\ insns[i].rets \in Seq(Vreg)
  BY <1>1 DEF Insn
<1>3. ToSet(insns[i].rets) \subseteq Vreg
  BY <1>2 DEF ToSet
<1>4. QED
  BY <1>1, <1>2, <1>3 DEF Defs, Uses, insn_defines_dst, insn_reads_dst, RangeUses

\* From i to j, v is read before anything defines it; it is defined.
UsedFrom(v, i, j) ==
    \E l \in i .. j : /\ v \in Uses(insns[l])
                      /\ \A m \in i .. l - 1 : v \notin Defs(insns[m])
DefinedIn(v, i, j) == \E l \in i .. j : v \in Defs(insns[l])

DataOK(k) ==
    /\ blocks[k].defs \subseteq Vreg /\ blocks[k].uses \subseteq Vreg
    /\ \A v : v \in blocks[k].defs <=> DefinedIn(v, blocks[k].start, blocks[k].end - 1)
    /\ \A v : v \in blocks[k].uses <=> UsedFrom(v, blocks[k].start, blocks[k].end - 1)
ControlOK(k) ==
    /\ \A i \in blocks[k].start .. blocks[k].end - 2 : Follows(i) = {i + 1}
    /\ Follows(blocks[k].end - 1) = {blocks[s].start : s \in blocks[k].succs}

\* What the blocks are: each position is in one, control leaves a block only
\* at its end, for the starts of other blocks, and defs and uses are right.
BlocksOK ==
    /\ NBlocks \in Nat \ {0} /\ Block = 1 .. NBlocks
    /\ blocks[1].start = 1
    /\ \A k \in Block :
          /\ blocks[k].start \in Pos /\ blocks[k].end \in 2 .. Len(insns) + 1
          /\ blocks[k].start < blocks[k].end
          /\ blocks[k].start = 1 => k = 1
          /\ blocks[k].succs \subseteq Block
    /\ \A k \in Block : DataOK(k)
    /\ \A k \in Block : ControlOK(k)
    /\ \A i \in Pos : \E k \in Block : blocks[k].start <= i /\ i < blocks[k].end

\* The first instruction is a leader, and there are finitely many.
LEMMA LeadersAre ==
    ASSUME FnOK
    PROVE  Leaders \subseteq Pos /\ 1 \in Leaders /\ IsFiniteSet(Leaders)
<1>1. Leaders \subseteq Pos /\ 1 \in Leaders
  BY DEF FnOK, Leaders
<1>2. IsFiniteSet(Pos)
  BY FS_Interval DEF FnOK
<1>3. QED
  BY ONLY <1>1, <1>2, FS_Subset

\* The starts of the blocks: a growing list of all leaders, from position 1 on.
StartsAt(st, N) ==
    /\ N \in Nat \ {0} /\ DOMAIN st = 1 .. N /\ Len(st) = N
    /\ \A k \in 1 .. N : st[k] \in Leaders /\ st[k] \in Pos
    /\ st[1] = 1
    /\ \A i \in Leaders : \E k \in 1 .. N : st[k] = i
    /\ \A k, l \in 1 .. N : k < l => st[k] < st[l]

\* build_cfg() begins a block at every leader, in order.
LEMMA StartsAre ==
    ASSUME FnOK
    PROVE  \E N : StartsAt(Starts, N)
<1>1. PICK S, e, N : S = Leaders /\ e = Starts /\ N = Cardinality(S)
  OBVIOUS
<1>2. e = InOrderOf(S)
  BY <1>1 DEF Starts, InOrderOf
<1>3. S \subseteq Nat /\ S \subseteq Pos /\ 1 \in S /\ IsFiniteSet(S)
  BY <1>1, LeadersAre DEF FnOK
<1>4. /\ N \in Nat /\ DOMAIN e = 1 .. N
      /\ \A k \in 1 .. N : e[k] \in S
      /\ \A i \in S : \E k \in 1 .. N : e[k] = i
      /\ \A k, l \in 1 .. N : k < l => e[k] < e[l]
  <2>1. S \subseteq Nat /\ IsFiniteSet(S) /\ N = Cardinality(S)
    BY <1>1, <1>3
  <2>2. Enumeration(S, e, N)
    BY ONLY <1>2, <2>1, Enumerates
  <2>3. QED
    BY <2>2 DEF Enumeration
<1>5. N \in Nat \ {0} /\ 1 \in 1 .. N
  BY <1>3, <1>4
<1>6. e[1] = 1
  <2>1. PICK k \in 1 .. N : e[k] = 1
    BY <1>3, <1>4
  <2>2. 1 < k => e[1] < 1
    BY <1>4, <1>5, <2>1
  <2>3. e[1] \in S /\ e[1] \in Nat /\ e[1] >= 1
    <3>1. e[1] \in Pos
      BY <1>3, <1>4, <1>5
    <3>2. \A i \in Pos : i \in Nat /\ i >= 1
      BY DEF FnOK
    <3>3. QED
      BY <1>4, <1>5, <3>1, <3>2
  <2>4. k = 1 \/ 1 < k
    BY <1>4
  <2>5. QED
    BY ONLY <2>1, <2>2, <2>3, <2>4
<1>7. e \in Seq(S) /\ Len(e) = N
  <2>1. e = [k \in 1 .. N |-> e[k]]
    BY <1>1, <1>2, <1>4 DEF InOrderOf
  <2>2. e \in [1 .. N -> S]
    BY <1>4, <2>1
  <2>3. QED
    BY <1>4, <2>2
<1>8. QED
  BY <1>1, <1>3, <1>4, <1>5, <1>6, <1>7 DEF StartsAt

\* Between two starts there is no leader.
EndAt(st, k) == IF k = Len(st) THEN Len(insns) + 1 ELSE st[k + 1]

\* A block is not empty and has no leader but its first instruction.
LEMMA EndsAre ==
    ASSUME FnOK, NEW st, NEW N, StartsAt(st, N), NEW k \in 1 .. N
    PROVE  /\ EndAt(st, k) \in 2 .. Len(insns) + 1 /\ st[k] < EndAt(st, k)
           /\ st[k] \in Nat /\ EndAt(st, k) - 1 \in Pos
           /\ st[k] = 1 => k = 1
           /\ \A i \in Pos : st[k] < i /\ i < EndAt(st, k) => i \notin Leaders
<1>1. /\ N \in Nat \ {0} /\ DOMAIN st = 1 .. N /\ Len(st) = N
      /\ \A l \in 1 .. N : st[l] \in Leaders /\ st[l] \in Pos
      /\ st[1] = 1
      /\ \A i \in Leaders : \E l \in 1 .. N : st[l] = i
      /\ \A l, m \in 1 .. N : l < m => st[l] < st[m]
  BY DEF StartsAt
<1>2. Len(insns) \in Nat \ {0} /\ Pos = 1 .. Len(insns)
  BY DEF FnOK
<1>3. st[k] \in 1 .. Len(insns) /\ k \in Nat /\ k <= N
  BY <1>1, <1>2
<1>4. st[k] = 1 => k = 1
  <2>1. 1 \in 1 .. N /\ (1 < k => st[1] < st[k]) /\ k >= 1
    BY <1>1
  <2>2. QED
    BY <1>1, <1>3, <2>1
<1>5. CASE k = N
  <2>1. EndAt(st, k) = Len(insns) + 1
    BY <1>1, <1>5 DEF EndAt
  <2>2. ASSUME NEW i \in Leaders, st[k] < i PROVE FALSE
    <3>1. PICK l \in 1 .. N : st[l] = i
      BY <1>1
    <3>2. l = k \/ l < k
      BY <1>1, <1>5
    <3>3. l < k => st[l] < st[k]
      BY <1>1
    <3>4. st[l] \in Nat
      BY <1>1, <1>2
    <3>5. QED
      BY ONLY <1>3, <2>2, <3>1, <3>2, <3>3, <3>4
  <2>3. QED
    BY <1>2, <1>3, <1>4, <2>1, <2>2
<1>6. CASE k # N
  <2>1. k + 1 \in 1 .. N /\ k < k + 1
    BY <1>1, <1>3, <1>6
  <2>2. EndAt(st, k) = st[k + 1]
    BY <1>1, <1>6 DEF EndAt
  <2>3. st[k + 1] \in 1 .. Len(insns) /\ st[k] < st[k + 1]
    BY <1>1, <1>2, <2>1
  <2>4. ASSUME NEW i \in Leaders, st[k] < i, i < st[k + 1] PROVE FALSE
    <3>1. PICK l \in 1 .. N : st[l] = i
      BY <1>1
    <3>2. l = k \/ l < k \/ l = k + 1 \/ k + 1 < l
      BY <1>3
    <3>3. (l < k => st[l] < st[k]) /\ (k + 1 < l => st[k + 1] < st[l])
      BY <1>1, <2>1
    <3>4. st[l] \in Nat
      BY <1>1, <1>2
    <3>5. QED
      BY ONLY <1>3, <2>3, <2>4, <3>1, <3>2, <3>3, <3>4
  <2>5. EndAt(st, k) \in 2 .. Len(insns) + 1 /\ EndAt(st, k) - 1 \in 1 .. Len(insns)
    BY ONLY <1>2, <1>3, <2>2, <2>3
  <2>6. QED
    BY <1>2, <1>3, <1>4, <2>2, <2>3, <2>4, <2>5
<1>7. QED
  BY <1>5, <1>6

\* Every position is between a start and the next.
LEMMA StartsCover ==
    ASSUME FnOK, NEW st, NEW N, StartsAt(st, N), NEW i \in Pos
    PROVE  \E k \in 1 .. N : st[k] <= i /\ i < EndAt(st, k)
<1>1. /\ N \in Nat \ {0} /\ DOMAIN st = 1 .. N /\ Len(st) = N
      /\ \A l \in 1 .. N : st[l] \in Pos
      /\ st[1] = 1
  BY DEF StartsAt
<1>2. Len(insns) \in Nat \ {0} /\ Pos = 1 .. Len(insns) /\ i \in Nat /\ i >= 1
  BY DEF FnOK
<1> DEFINE Left == {N - k : k \in {l \in 1 .. N : st[l] <= i}}
<1>3. Left \subseteq Nat /\ Left # {}
  <2>1. 1 \in 1 .. N /\ st[1] <= i
    BY <1>1, <1>2
  <2>2. \A k \in 1 .. N : N - k \in Nat
    BY <1>1
  <2>3. QED
    BY <2>1, <2>2
<1>4. PICK n \in Left : \A m \in Left : n <= m
  <2> HIDE DEF Left
  <2>1. QED
    BY ONLY <1>3, SmallestElement
<1>5. PICK k \in 1 .. N : n = N - k /\ st[k] <= i
  OBVIOUS
<1>6. CASE k = N
  <2>1. EndAt(st, k) = Len(insns) + 1
    BY <1>1, <1>6 DEF EndAt
  <2>2. QED
    BY <1>2, <1>5, <2>1
<1>7. CASE k # N
  <2>1. k + 1 \in 1 .. N /\ ~(n <= N - (k + 1))
    BY <1>1, <1>5, <1>7
  <2>2. N - (k + 1) \notin Left
    BY <1>4, <2>1
  <2>3. ~(st[k + 1] <= i) /\ st[k + 1] \in Nat
    BY <1>1, <1>2, <2>1, <2>2
  <2>4. EndAt(st, k) = st[k + 1]
    BY <1>1, <1>7 DEF EndAt
  <2>5. QED
    BY <1>2, <1>5, <2>3, <2>4
<1>8. QED
  BY <1>6, <1>7

\* Within a block an instruction is followed by the next.
LEMMA FollowsInside ==
    ASSUME FnOK, NEW i \in Pos, i + 1 \in Pos, i + 1 \notin Leaders
    PROVE  Follows(i) = {i + 1}
<1>1. PICK n \in Pos : n = i + 1 /\ n > 1 /\ n - 1 = i /\ n \notin Leaders
  BY DEF FnOK
<1>2. insns[i].op \notin {"branch", "jmp", "exit"}
  <2>1. insns[n - 1].op \notin {"branch", "jmp", "exit"}
    BY <1>1 DEF Leaders
  <2>2. QED
    BY <1>1, <2>1
<1>3. Follows(i) = {i + 1} \cap Pos
  BY <1>2 DEF Follows
<1>4. QED
  BY <1>3

\* At its end control goes to the starts of its successors.
LEMMA FollowsAtEnd ==
    ASSUME FnOK, NEW st, NEW N, StartsAt(st, N), NEW k \in 1 .. N, NEW j, j = EndAt(st, k) - 1
    PROVE  /\ SuccsOf(st, k, j) \subseteq 1 .. N
           /\ Follows(j) = {st[s] : s \in SuccsOf(st, k, j)}
<1> DEFINE name == insns[j].name
           Here(l) == insns[l].op = "label" /\ insns[l].name = name
           at == {l \in 1 .. N : Here(st[l])}
           target == {l \in at : \A m \in at : l <= m}
           at2 == {l \in Pos : Here(l)}
           to == {l \in at2 : \A m \in at2 : l <= m}
           nextB == {k + 1} \cap (1 .. N)
           nextI == {j + 1} \cap Pos
<1>1. /\ N \in Nat \ {0} /\ DOMAIN st = 1 .. N /\ Len(st) = N
      /\ \A l \in 1 .. N : st[l] \in Leaders /\ st[l] \in Pos
      /\ \A i \in Leaders : \E l \in 1 .. N : st[l] = i
      /\ \A l, m \in 1 .. N : l < m => st[l] < st[m]
  BY DEF StartsAt
<1>2. Len(insns) \in Nat \ {0} /\ Pos = 1 .. Len(insns)
  BY DEF FnOK
<1>3. j + 1 = EndAt(st, k) /\ EndAt(st, k) \in 2 .. Len(insns) + 1
  BY EndsAre
<1>4. nextI = {st[s] : s \in nextB}
  <2>1. CASE k = N
    <3>1. j + 1 = Len(insns) + 1
      BY <1>1, <1>3, <2>1 DEF EndAt
    <3>2. QED
      BY <1>1, <1>2, <2>1, <3>1
  <2>2. CASE k # N
    <3>1. j + 1 = st[k + 1]
      BY <1>1, <1>3, <2>2 DEF EndAt
    <3>2. k + 1 \in 1 .. N
      BY <1>1, <2>2
    <3>3. QED
      BY <1>1, <3>1, <3>2
  <2>3. QED
    BY <2>1, <2>2
<1>5. \A l \in at2 : \E m \in at : st[m] = l
  <2>1. at2 \subseteq Leaders
    BY DEF Leaders
  <2>2. QED
    BY <1>1, <2>1
<1>6. \A l \in at : st[l] \in at2
  BY <1>1
<1>7. \A l, m \in 1 .. N : st[l] <= st[m] <=> l <= m
  <2>1. SUFFICES ASSUME NEW l \in 1 .. N, NEW m \in 1 .. N
                 PROVE  st[l] <= st[m] <=> l <= m
    OBVIOUS
  <2>2. st[l] \in Nat /\ st[m] \in Nat /\ l \in Nat /\ m \in Nat
    BY <1>1, <1>2
  <2>3. (l < m => st[l] < st[m]) /\ (m < l => st[m] < st[l])
    BY <1>1
  <2>4. l < m \/ m < l \/ l = m
    BY <2>2
  <2>5. QED
    BY ONLY <2>2, <2>3, <2>4
<1>8. to = {st[s] : s \in target}
  <2>1. at \subseteq 1 .. N
    OBVIOUS
  <2> HIDE DEF at, at2
  <2>2. ASSUME NEW i \in to PROVE \E s \in target : st[s] = i
    <3>1. PICK s \in at : st[s] = i
      BY <1>5
    <3>2. \A m \in at : st[s] <= st[m]
      BY <1>6, <3>1
    <3>3. \A m \in at : s <= m
      BY <1>7, <2>1, <3>2
    <3>4. QED
      BY <3>1, <3>3
  <2>3. ASSUME NEW s \in target PROVE st[s] \in to
    <3>1. \A m \in at : st[s] <= st[m]
      BY <1>7, <2>1
    <3>2. \A i \in at2 : st[s] <= i
      BY <1>5, <3>1
    <3>3. QED
      BY <1>6, <3>2
  <2>4. QED
    BY <2>2, <2>3
<1>9. Follows(j) = CASE insns[j].op = "branch" -> nextI \cup to
                     [] insns[j].op = "jmp"    -> to
                     [] insns[j].op = "exit"   -> {}
                     [] OTHER                  -> nextI
  BY DEF Follows
<1>10. SuccsOf(st, k, j) = CASE insns[j].op = "branch" -> nextB \cup target
                             [] insns[j].op = "jmp"    -> target
                             [] insns[j].op = "exit"   -> {}
                             [] OTHER                  -> nextB
  BY <1>1 DEF SuccsOf
<1>11. nextB \subseteq 1 .. N /\ target \subseteq 1 .. N
  OBVIOUS
<1> HIDE DEF nextI, to, nextB, target
<1>12. CASE insns[j].op = "branch"
  <2>1. Follows(j) = nextI \cup to /\ SuccsOf(st, k, j) = nextB \cup target
    BY <1>9, <1>10, <1>12
  <2>2. QED
    BY <1>4, <1>8, <1>11, <2>1
<1>13. CASE insns[j].op = "jmp"
  <2>1. Follows(j) = to /\ SuccsOf(st, k, j) = target
    BY <1>9, <1>10, <1>13
  <2>2. QED
    BY <1>8, <1>11, <2>1
<1>14. CASE insns[j].op = "exit"
  <2>1. Follows(j) = {} /\ SuccsOf(st, k, j) = {}
    BY <1>9, <1>10, <1>14
  <2>2. QED
    BY <2>1
<1>15. CASE insns[j].op \notin {"branch", "jmp", "exit"}
  <2>1. Follows(j) = nextI /\ SuccsOf(st, k, j) = nextB
    BY <1>9, <1>10, <1>15
  <2>2. QED
    BY <1>4, <1>11, <2>1
<1>16. QED
  BY <1>12, <1>13, <1>14, <1>15

\* What build_cfg() makes of a function.
LEMMA BlocksAre ==
    ASSUME FnOK, blocks = Blocks
    PROVE  BlocksOK
<1>1. PICK st, N : st = Starts /\ StartsAt(st, N)
  BY StartsAre
<1>2. /\ N \in Nat \ {0} /\ DOMAIN st = 1 .. N /\ Len(st) = N /\ st[1] = 1
      /\ \A l \in 1 .. N : st[l] \in Pos
  BY <1>1 DEF StartsAt
<1>3. Len(insns) \in Nat \ {0} /\ Pos = 1 .. Len(insns)
  BY DEF FnOK
<1>4. blocks = [k \in 1 .. N |-> BlockOf(st, k)]
  BY <1>1, <1>2 DEF Blocks
<1>5. NBlocks = N /\ Block = 1 .. NBlocks
  <2>1. PICK S : S = {BlockOf(st, k) : k \in 1 .. N}
    OBVIOUS
  <2>2. blocks \in Seq(S) /\ Len(blocks) = N
    BY <1>2, <1>4, <2>1
  <2>3. QED
    BY <1>4, <2>2 DEF NBlocks, Block
<1>6. \A k \in 1 .. N :
         /\ blocks[k].start = st[k] /\ blocks[k].end = EndAt(st, k)
         /\ blocks[k].succs = SuccsOf(st, k, EndAt(st, k) - 1)
         /\ blocks[k].defs = BlockDefs(st[k], EndAt(st, k) - 1)
         /\ blocks[k].uses = BlockUses(st[k], EndAt(st, k) - 1)
  BY <1>4 DEF BlockOf, EndAt
<1>7. ASSUME NEW k \in Block
      PROVE  /\ blocks[k].start \in Pos /\ blocks[k].end \in 2 .. Len(insns) + 1
             /\ blocks[k].start < blocks[k].end
             /\ blocks[k].start = 1 => k = 1
             /\ blocks[k].succs \subseteq Block
             /\ \A i \in blocks[k].start .. blocks[k].end - 2 : Follows(i) = {i + 1}
             /\ Follows(blocks[k].end - 1) = {blocks[s].start : s \in blocks[k].succs}
  <2>1. k \in 1 .. N
    BY <1>5
  <2>2. /\ EndAt(st, k) \in 2 .. Len(insns) + 1 /\ st[k] < EndAt(st, k)
        /\ st[k] = 1 => k = 1
        /\ \A i \in Pos : st[k] < i /\ i < EndAt(st, k) => i \notin Leaders
    BY <1>1, <2>1, EndsAre
  <2>3. PICK j : j = EndAt(st, k) - 1
    OBVIOUS
  <2>4. /\ SuccsOf(st, k, j) \subseteq 1 .. N
        /\ Follows(j) = {st[s] : s \in SuccsOf(st, k, j)}
    BY <1>1, <2>1, <2>3, FollowsAtEnd
  <2>5. blocks[k].succs = SuccsOf(st, k, j)
    BY <1>6, <2>1, <2>3
  <2>6. Follows(blocks[k].end - 1) = {blocks[s].start : s \in blocks[k].succs}
    <3>1. {st[s] : s \in SuccsOf(st, k, j)} = {blocks[s].start : s \in SuccsOf(st, k, j)}
      BY <1>6, <2>4
    <3>2. QED
      BY <1>6, <2>1, <2>3, <2>4, <2>5, <3>1
  <2>7. ASSUME NEW i \in st[k] .. EndAt(st, k) - 2 PROVE Follows(i) = {i + 1}
    <3>1. i \in Pos /\ i + 1 \in Pos /\ st[k] < i + 1 /\ i + 1 < EndAt(st, k)
      BY <1>2, <1>3, <2>1, <2>2
    <3>2. QED
      BY <2>2, <3>1, FollowsInside
  <2>8. QED
    BY <1>2, <1>5, <1>6, <2>1, <2>2, <2>4, <2>5, <2>6, <2>7
<1>8. ASSUME NEW k \in Block
      PROVE  /\ blocks[k].defs \subseteq Vreg /\ blocks[k].uses \subseteq Vreg
             /\ \A v : v \in blocks[k].defs <=> DefinedIn(v, blocks[k].start, blocks[k].end - 1)
             /\ \A v : v \in blocks[k].uses <=> UsedFrom(v, blocks[k].start, blocks[k].end - 1)
  <2>1. PICK s, e : s = blocks[k].start /\ e = blocks[k].end - 1
    OBVIOUS
  <2>2. blocks[k].defs = BlockDefs(s, e) /\ blocks[k].uses = BlockUses(s, e)
    BY <1>5, <1>6, <2>1
  <2>3. s .. e \subseteq Pos
    BY <1>3, <1>7, <2>1
  <2>4. \A l \in s .. e : Defs(insns[l]) \subseteq Vreg /\ Uses(insns[l]) \subseteq Vreg
    BY <2>3, InsnsAre
  <2>5. \A v : v \in BlockDefs(s, e) <=> DefinedIn(v, s, e)
    BY DEF BlockDefs, DefinedIn
  <2>6. \A v : v \in BlockUses(s, e) <=> UsedFrom(v, s, e)
    BY DEF BlockUses, BlockDefs, UsedFrom
  <2>7. BlockDefs(s, e) \subseteq Vreg /\ BlockUses(s, e) \subseteq Vreg
    BY <2>4, <2>5, <2>6 DEF DefinedIn, UsedFrom
  <2>8. QED
    BY <2>1, <2>2, <2>5, <2>6, <2>7
<1>9. \A i \in Pos : \E k \in Block : blocks[k].start <= i /\ i < blocks[k].end
  <2>1. ASSUME NEW i \in Pos PROVE \E k \in Block : blocks[k].start <= i /\ i < blocks[k].end
    <3>1. PICK k \in 1 .. N : st[k] <= i /\ i < EndAt(st, k)
      BY <1>1, StartsCover
    <3>2. QED
      BY <1>5, <1>6, <3>1
  <2>2. QED
    BY <2>1
<1>10. blocks[1].start = 1 /\ NBlocks \in Nat \ {0} /\ Block = 1 .. NBlocks
  BY <1>2, <1>5, <1>6
<1>11. QED
  BY <1>7, <1>8, <1>9, <1>10 DEF BlocksOK, DataOK, ControlOK

-----------------------------------------------------------------------------
(* Liveness by paths, as a least set. *)

\* With an instruction X has those that control comes from, unless they define v.
ClosedAbove(v, X) ==
    \A i \in Pos : v \notin Defs(insns[i]) /\ Follows(i) \cap X # {} => i \in X

\* Above(v, S) is the least such set that contains S.
LEMMA AboveLeast ==
    ASSUME FnOK, NEW v, NEW S \in SUBSET Pos
    PROVE  /\ Above(v, S) \in SUBSET Pos /\ S \subseteq Above(v, S)
           /\ ClosedAbove(v, Above(v, S))
           /\ \A X \in SUBSET Pos : S \subseteq X /\ ClosedAbove(v, X) => Above(v, S) \subseteq X
<1> DEFINE N == Len(insns)
           near(X) == X \cup {i \in Pos : v \notin Defs(insns[i]) /\ Follows(i) \cap X # {}}
           Eqn(g) == g = [n \in 0 .. N |-> IF n = 0 THEN S ELSE near(g[n - 1])]
<1>1. N \in Nat /\ Pos = 1 .. N /\ IsFiniteSet(Pos) /\ Cardinality(Pos) = N
  <2>1. N \in Nat /\ Pos = 1 .. N
    BY DEF FnOK
  <2>2. IsFiniteSet(1 .. N) /\ Cardinality(1 .. N) = N
    <3>1. PICK n : n = N /\ n \in Nat
      BY <2>1
    <3>2. /\ IsFiniteSet(1 .. n)
          /\ Cardinality(1 .. n) = IF 1 > n THEN 0 ELSE n - 1 + 1
      <4>1. 1 \in Int /\ n \in Int
        BY ONLY <3>1
      <4>2. QED
        BY ONLY <4>1, FS_Interval
    <3>3. (IF 1 > n THEN 0 ELSE n - 1 + 1) = n
      BY ONLY <3>1
    <3>4. QED
      BY <3>1, <3>2, <3>3
  <2>3. QED
    BY <2>1, <2>2
<1>2. PICK T, grow : T = SUBSET Pos /\ grow = [X \in T |-> near(X)]
  OBVIOUS
<1>3. /\ grow \in [T -> T] /\ S \in T
      /\ \A X \in T : grow[X] = near(X) /\ near(X) \in T /\ X \subseteq near(X)
  BY <1>2
<1>4. PICK R \in [Nat -> T] : R[0] = S /\ \A n \in Nat : R[n + 1] = grow[R[n]]
  <2>1. grow \in [T -> T] /\ S \in T
    BY <1>3
  <2>2. QED
    BY ONLY <2>1, Iterates
<1>5. \A n \in Nat : R[n] \in T /\ R[n + 1] = near(R[n]) /\ R[n] \subseteq R[n + 1]
  <2>1. SUFFICES ASSUME NEW n \in Nat
                 PROVE  R[n] \in T /\ R[n + 1] = near(R[n]) /\ R[n] \subseteq R[n + 1]
    OBVIOUS
  <2>2. R[n] \in T /\ R[n + 1] = grow[R[n]]
    BY <1>4
  <2> HIDE DEF near
  <2>3. QED
    BY <1>3, <2>2
<1>6. \A n \in 0 .. N : n # 0 => n - 1 \in 0 .. N /\ n - 1 \in Nat /\ n - 1 + 1 = n
  BY <1>1
<1>7. Eqn([n \in 0 .. N |-> R[n]])
  <2> DEFINE g == [n \in 0 .. N |-> R[n]]
  <2> HIDE DEF near
  <2>1. ASSUME NEW n \in 0 .. N, n # 0 PROVE g[n] = near(g[n - 1])
    <3>1. R[n] = near(R[n - 1])
      BY <1>5, <1>6, <2>1
    <3>2. QED
      BY <1>6, <2>1, <3>1
  <2>2. 0 \in 0 .. N => g[0] = S
    BY <1>4
  <2>3. g = [n \in 0 .. N |-> IF n = 0 THEN S ELSE near(g[n - 1])]
    BY <2>1, <2>2
  <2>4. QED
    BY <2>3
<1>8. PICK g : Eqn(g) /\ Above(v, S) = g[N]
  <2>1. Above(v, S) = (CHOOSE g : Eqn(g))[N]
    BY DEF Above
  <2> HIDE DEF Eqn
  <2>2. QED
    BY <1>7, <2>1
<1>9. \A n \in 0 .. N : g[n] = R[n]
  <2> DEFINE Bad == {n \in 0 .. N : g[n] # R[n]}
  <2>1. SUFFICES ASSUME Bad # {} PROVE FALSE
    OBVIOUS
  <2>2. PICK n \in Bad : \A m \in Bad : n <= m
    <3>1. Bad \subseteq Nat
      OBVIOUS
    <3>2. QED
      BY ONLY <2>1, <3>1, SmallestElement
  <2>3. n \in 0 .. N /\ g[n] # R[n]
    OBVIOUS
  <2> HIDE DEF near
  <2>4. g[n] = IF n = 0 THEN S ELSE near(g[n - 1])
    BY <1>8, <2>3
  <2>5. n # 0
    BY <1>4, <2>3, <2>4
  <2>6. g[n - 1] = R[n - 1]
    <3>1. n - 1 \in 0 .. N /\ ~(n <= n - 1)
      BY <1>6, <2>3, <2>5
    <3>2. QED
      BY <2>2, <3>1
  <2>7. R[n] = near(R[n - 1])
    BY <1>5, <1>6, <2>3, <2>5
  <2>8. QED
    BY <2>3, <2>4, <2>5, <2>6, <2>7
<1>10. Above(v, S) = R[N]
  BY <1>1, <1>8, <1>9
<1>11. R[N + 1] = R[N]
  <2>1. R \in [Nat -> SUBSET Pos] /\ grow \in [SUBSET Pos -> SUBSET Pos]
    BY <1>2, <1>3
  <2>2. \A n \in Nat : R[n + 1] = grow[R[n]] /\ R[n] \subseteq R[n + 1]
    BY <1>4, <1>5
  <2>3. PICK P : P = Pos
    OBVIOUS
  <2>4. R[Cardinality(P) + 1] = R[Cardinality(P)]
    <3>1. IsFiniteSet(P) /\ R \in [Nat -> SUBSET P] /\ grow \in [SUBSET P -> SUBSET P]
      BY <1>1, <2>1, <2>3
    <3>2. QED
      BY ONLY <2>2, <3>1, ChainRests
  <2>5. QED
    BY <1>1, <2>3, <2>4
<1>12. \A n \in Nat : S \subseteq R[n] /\ \A X \in SUBSET Pos : S \subseteq X /\ ClosedAbove(v, X) => R[n] \subseteq X
  <2> DEFINE Good(n) == /\ S \subseteq R[n]
                        /\ \A X \in SUBSET Pos : S \subseteq X /\ ClosedAbove(v, X) => R[n] \subseteq X
             Bad == {n \in Nat : ~Good(n)}
  <2>1. SUFFICES ASSUME Bad # {} PROVE FALSE
    OBVIOUS
  <2>2. PICK n \in Bad : \A m \in Bad : n <= m
    <3>1. Bad \subseteq Nat
      OBVIOUS
    <3>2. QED
      BY ONLY <2>1, <3>1, SmallestElement
  <2>3. n \in Nat /\ ~Good(n)
    OBVIOUS
  <2>4. n # 0
    BY <1>4, <2>3
  <2>5. PICK m \in Nat : n = m + 1
    <3>1. n - 1 \in Nat /\ n = n - 1 + 1
      BY ONLY <2>3, <2>4
    <3>2. QED
      BY <3>1
  <2>6. Good(m)
    BY <2>2, <2>5
  <2>7. R[n] = near(R[m]) /\ R[m] \subseteq R[n] /\ R[m] \in SUBSET Pos
    BY <1>2, <1>5, <2>5
  <2>8. ASSUME NEW X \in SUBSET Pos, S \subseteq X, ClosedAbove(v, X) PROVE near(R[m]) \subseteq X
    <3>1. R[m] \subseteq X
      BY <2>6, <2>8
    <3>2. QED
      BY <2>8, <3>1 DEF ClosedAbove
  <2>9. Good(n)
    <3>1. S \subseteq R[n]
      BY <2>6, <2>7
    <3> HIDE DEF near
    <3>2. QED
      BY <2>7, <2>8, <3>1
  <2>10. QED
    BY <2>3, <2>9
<1>13. near(R[N]) = R[N] /\ R[N] \in SUBSET Pos
  BY <1>1, <1>2, <1>5, <1>11
<1>14. ClosedAbove(v, R[N])
  BY <1>13 DEF ClosedAbove
<1>15. QED
  BY <1>1, <1>10, <1>12, <1>13, <1>14

\* What is above S and not in it comes from what is above S.
LEMMA AboveFrom ==
    ASSUME FnOK, NEW v, NEW S \in SUBSET Pos, NEW i \in Above(v, S)
    PROVE  i \in S \/ (v \notin Defs(insns[i]) /\ Follows(i) \cap Above(v, S) # {})
<1>1. PICK A : A = Above(v, S)
  OBVIOUS
<1>2. /\ A \in SUBSET Pos /\ S \subseteq A /\ ClosedAbove(v, A)
      /\ \A X \in SUBSET Pos : S \subseteq X /\ ClosedAbove(v, X) => A \subseteq X
  BY <1>1, AboveLeast
<1>3. PICK X : X = S \cup {j \in Pos : v \notin Defs(insns[j]) /\ Follows(j) \cap A # {}}
  OBVIOUS
<1>4. X \in SUBSET Pos /\ S \subseteq X /\ X \subseteq A
  BY <1>2, <1>3 DEF ClosedAbove
<1>5. ClosedAbove(v, X)
  BY <1>3, <1>4 DEF ClosedAbove
<1>6. i \in X
  BY <1>1, <1>2, <1>4, <1>5
<1>7. QED
  BY <1>1, <1>3, <1>6

\* L is a solution of the data flow for v over the instructions; with atEntry v
\* counts as read at the first.
LiveEqn(v, L, atEntry) ==
    /\ L \in SUBSET Pos
    /\ \A i \in Pos :
          i \in L <=> \/ v \in Uses(insns[i]) \/ (i = 1 /\ atEntry)
                      \/ v \notin Defs(insns[i]) /\ Follows(i) \cap L # {}

\* L is within each such solution.
LeastLive(v, L, atEntry) ==
    \A X \in SUBSET Pos :
       /\ \A i \in Pos : v \in Uses(insns[i]) \/ (i = 1 /\ atEntry) => i \in X
       /\ ClosedAbove(v, X)
       => L \subseteq X

\* Liveness by paths is the least solution of the equations of single
\* instructions.
LEMMA LiveAboveIs ==
    ASSUME FnOK, NEW v
    PROVE  LiveEqn(v, LiveAbove(v), FALSE) /\ LeastLive(v, LiveAbove(v), FALSE)
<1>1. PICK S : S = {i \in Pos : v \in Uses(insns[i])} /\ S \in SUBSET Pos
  OBVIOUS
<1>2. LiveAbove(v) = Above(v, S)
  BY <1>1 DEF LiveAbove
<1>3. PICK L : L = Above(v, S)
  OBVIOUS
<1>4. /\ L \in SUBSET Pos /\ S \subseteq L /\ ClosedAbove(v, L)
      /\ \A X \in SUBSET Pos : S \subseteq X /\ ClosedAbove(v, X) => L \subseteq X
  BY <1>1, <1>3, AboveLeast
<1>5. \A i \in L : i \in S \/ (v \notin Defs(insns[i]) /\ Follows(i) \cap L # {})
  BY <1>1, <1>3, AboveFrom
<1>6. LiveEqn(v, L, FALSE)
  BY <1>1, <1>4, <1>5 DEF LiveEqn, ClosedAbove
<1>7. LeastLive(v, L, FALSE)
  BY <1>1, <1>4 DEF LeastLive
<1>8. QED
  BY <1>2, <1>3, <1>6, <1>7

\* The same with the parameters read at the entry.
LEMMA LiveBeforeIs ==
    ASSUME FnOK, NEW v
    PROVE  /\ LiveEqn(v, LiveBefore(v), v \in fn.params)
           /\ LeastLive(v, LiveBefore(v), v \in fn.params)
<1>1. PICK A : A = LiveAbove(v)
  OBVIOUS
<1>2. LiveEqn(v, A, FALSE) /\ LeastLive(v, A, FALSE)
  BY <1>1, LiveAboveIs
<1>3. PICK S : S = A \cup (IF v \in fn.params THEN {1} ELSE {}) /\ S \in SUBSET Pos
  <2>1. A \in SUBSET Pos
    BY <1>2 DEF LiveEqn
  <2>2. 1 \in Pos
    BY DEF FnOK
  <2>3. QED
    BY <2>1, <2>2
<1>4. LiveBefore(v) = Above(v, S)
  BY <1>1, <1>3 DEF LiveBefore
<1>5. PICK L : L = Above(v, S)
  OBVIOUS
<1>6. /\ L \in SUBSET Pos /\ S \subseteq L /\ ClosedAbove(v, L)
      /\ \A X \in SUBSET Pos : S \subseteq X /\ ClosedAbove(v, X) => L \subseteq X
  BY <1>3, <1>5, AboveLeast
<1>7. \A i \in L : i \in S \/ (v \notin Defs(insns[i]) /\ Follows(i) \cap L # {})
  BY <1>3, <1>5, AboveFrom
<1>8. LiveEqn(v, L, v \in fn.params)
  <2>1. ASSUME NEW i \in Pos, i \in L
        PROVE  \/ v \in Uses(insns[i]) \/ (i = 1 /\ v \in fn.params)
               \/ v \notin Defs(insns[i]) /\ Follows(i) \cap L # {}
    <3>1. CASE i \in A
      <4>1. A \subseteq L
        BY <1>3, <1>6
      <4>2. v \in Uses(insns[i]) \/ (v \notin Defs(insns[i]) /\ Follows(i) \cap A # {})
        BY <1>2, <3>1 DEF LiveEqn
      <4>3. QED
        BY <4>1, <4>2
    <3>2. CASE i \in S /\ i \notin A
      BY <1>3, <3>2
    <3>3. QED
      BY <1>7, <2>1, <3>1, <3>2
  <2>2. ASSUME NEW i \in Pos, v \in Uses(insns[i]) PROVE i \in L
    <3>1. i \in A
      BY <1>2, <2>2 DEF LiveEqn
    <3>2. QED
      BY <1>3, <1>6, <3>1
  <2>3. v \in fn.params => 1 \in L
    BY <1>3, <1>6
  <2>4. \A i \in Pos : v \notin Defs(insns[i]) /\ Follows(i) \cap L # {} => i \in L
    BY <1>6 DEF ClosedAbove
  <2>5. QED
    BY <1>6, <2>1, <2>2, <2>3, <2>4 DEF LiveEqn
<1>9. LeastLive(v, L, v \in fn.params)
  <2>1. SUFFICES ASSUME NEW X \in SUBSET Pos, ClosedAbove(v, X),
                        \A i \in Pos : v \in Uses(insns[i]) \/ (i = 1 /\ v \in fn.params) => i \in X
                 PROVE  L \subseteq X
    BY DEF LeastLive
  <2>2. A \subseteq X
    BY <1>2, <2>1 DEF LeastLive
  <2>3. S \subseteq X
    <3>1. v \in fn.params => 1 \in X
      BY <2>1 DEF FnOK
    <3>2. QED
      BY <1>3, <2>2, <3>1
  <2>4. QED
    BY <1>6, <2>1, <2>3
<1>10. QED
  BY <1>4, <1>5, <1>8, <1>9

\* v is live above i, an instruction of block k, if the block reads it from
\* there on first, or does not define it and it is live at its end.
LEMMA ThroughFrom ==
    ASSUME FnOK, BlocksOK, NEW v, NEW L, NEW atEntry, LiveEqn(v, L, atEntry),
           NEW k \in Block, NEW i \in blocks[k].start .. blocks[k].end - 1
    PROVE  i \in L <=> \/ UsedFrom(v, i, blocks[k].end - 1) \/ (i = 1 /\ atEntry)
                       \/ /\ ~DefinedIn(v, i, blocks[k].end - 1)
                          /\ Follows(blocks[k].end - 1) \cap L # {}
<1>1. PICK e : e = blocks[k].end - 1
  OBVIOUS
<1>2. /\ Len(insns) \in Nat /\ Pos = 1 .. Len(insns) /\ i \in Pos /\ e \in Pos /\ i <= e
      /\ i .. e \subseteq Pos /\ \A j \in i .. e : j \in Nat
      /\ \A j \in i .. e - 1 : Follows(j) = {j + 1} /\ j + 1 \in i .. e
  <2>1. /\ blocks[k].start \in Pos /\ blocks[k].end \in 2 .. Len(insns) + 1
        /\ \A j \in blocks[k].start .. blocks[k].end - 2 : Follows(j) = {j + 1}
    BY DEF BlocksOK, DataOK, ControlOK
  <2>2. Len(insns) \in Nat /\ Pos = 1 .. Len(insns)
    BY DEF FnOK
  <2>3. /\ i \in Pos /\ e \in Pos /\ i <= e
        /\ i .. e \subseteq Pos /\ \A j \in i .. e : j \in Nat
        /\ \A j \in i .. e - 1 : j \in blocks[k].start .. blocks[k].end - 2 /\ j + 1 \in i .. e
    <3>1. PICK m, s, t : m = Len(insns) /\ s = blocks[k].start /\ t = blocks[k].end
      OBVIOUS
    <3>2. /\ m \in Nat /\ s \in Nat /\ t \in Nat /\ 1 <= s /\ s <= m /\ t <= m + 1
          /\ e = t - 1 /\ i \in s .. t - 1 /\ Pos = 1 .. m
      BY <1>1, <2>1, <2>2, <3>1
    <3>3. i \in Nat /\ 1 <= i /\ i <= e /\ e \in Nat /\ e <= m
      BY ONLY <3>2
    <3>4. /\ i \in Pos /\ e \in Pos /\ i .. e \subseteq Pos
          /\ \A j \in i .. e : j \in Nat
      BY ONLY <3>2, <3>3
    <3>5. \A j \in i .. e - 1 : j \in s .. t - 2 /\ j + 1 \in i .. e
      BY ONLY <3>2, <3>3
    <3>6. QED
      BY <3>1, <3>3, <3>4, <3>5
  <2>4. QED
    BY <2>1, <2>2, <2>3
<1>3. \A j \in i .. e :
         j \in L <=> \/ v \in Uses(insns[j]) \/ (j = 1 /\ atEntry)
                     \/ v \notin Defs(insns[j]) /\ Follows(j) \cap L # {}
  BY <1>2 DEF LiveEqn
\* What is live within the block is live above the instructions before.
<1>4. ASSUME NEW j \in i .. e, j \in L, \A l \in i .. j - 1 : v \notin Defs(insns[l])
      PROVE  i \in L
  <2> DEFINE Bad == {l \in i .. j : l \in L}
  <2>1. PICK n \in Bad : \A m \in Bad : n <= m
    <3>1. Bad \subseteq Nat /\ Bad # {}
      BY <1>2, <1>4
    <3> HIDE DEF Bad
    <3>2. QED
      BY ONLY <3>1, SmallestElement
  <2>2. n \in L /\ n \in i .. j /\ \A m \in i .. j : m \in L => n <= m
    BY <2>1
  <2>3. CASE n = i
    BY <2>2, <2>3
  <2>4. CASE n # i
    <3>1. PICK l : l = n - 1 /\ l + 1 = n /\ l \in i .. e - 1 /\ l \in i .. j - 1 /\ l \in i .. j /\ ~(n <= l)
      BY <1>2, <2>2, <2>4
    <3>2. Follows(l) = {n}
      BY <1>2, <3>1
    <3>3. v \notin Defs(insns[l])
      BY <1>4, <3>1
    <3>4. l \in L
      <4>1. l \in i .. e /\ Follows(l) \cap L # {}
        BY <1>2, <2>2, <3>1, <3>2
      <4>2. QED
        BY <1>3, <3>3, <4>1
    <3>5. QED
      BY <2>2, <3>1, <3>4
  <2>5. QED
    BY <2>3, <2>4
<1>5. UsedFrom(v, i, e) => i \in L
  <2>1. ASSUME NEW l \in i .. e, v \in Uses(insns[l]), \A m \in i .. l - 1 : v \notin Defs(insns[m])
        PROVE  i \in L
    BY <1>3, <1>4, <2>1
  <2>2. QED
    BY <2>1 DEF UsedFrom
<1>6. i = 1 /\ atEntry => i \in L
  BY <1>2, <1>3
<1>7. ~DefinedIn(v, i, e) /\ Follows(e) \cap L # {} => i \in L
  <2>1. ASSUME ~DefinedIn(v, i, e), Follows(e) \cap L # {} PROVE i \in L
    <3>1. e \in i .. e /\ \A l \in i .. e : v \notin Defs(insns[l])
      BY <1>2, <2>1 DEF DefinedIn
    <3>2. e \in L /\ \A l \in i .. e - 1 : v \notin Defs(insns[l])
      BY <1>2, <1>3, <2>1, <3>1
    <3>3. QED
      BY <1>4, <3>1, <3>2
  <2>2. QED
    BY <2>1
\* And what is live at its start stays so to its end.
<1>8. ASSUME i \in L, ~UsedFrom(v, i, e), ~(i = 1 /\ atEntry)
      PROVE  ~DefinedIn(v, i, e) /\ Follows(e) \cap L # {}
  <2> DEFINE Kept(j) == j \in L /\ \A l \in i .. j - 1 : v \notin Defs(insns[l])
             Bad == {j \in i .. e : ~Kept(j)}
  <2>1. ASSUME NEW j \in i .. e, Kept(j)
        PROVE  v \notin Defs(insns[j]) /\ Follows(j) \cap L # {}
    <3>1. v \notin Uses(insns[j])
      BY <1>8, <2>1 DEF UsedFrom
    <3>2. ~(j = 1 /\ atEntry)
      BY <1>2, <1>8
    <3>3. QED
      BY <1>3, <2>1, <3>1, <3>2
  <2>2. Bad = {}
    <3>1. SUFFICES ASSUME Bad # {} PROVE FALSE
      OBVIOUS
    <3>2. PICK n \in Bad : \A m \in Bad : n <= m
      <4>1. Bad \subseteq Nat
        BY <1>2
      <4> HIDE DEF Bad
      <4>2. QED
        BY ONLY <3>1, <4>1, SmallestElement
    <3>3. n \in i .. e /\ ~Kept(n)
      BY <3>2
    <3>4. n # i
      <4>1. Kept(i)
        BY <1>2, <1>8
      <4>2. QED
        BY <3>3, <4>1
    <3>5. PICK j : j = n - 1 /\ j + 1 = n /\ j \in i .. e - 1 /\ j \in i .. e /\ ~(n <= j)
      BY <1>2, <3>3, <3>4
    <3>6. Kept(j)
      BY <3>2, <3>5
    <3>7. v \notin Defs(insns[j]) /\ n \in L
      <4>1. Follows(j) = {n}
        BY <1>2, <3>5
      <4>2. QED
        BY <2>1, <3>5, <3>6, <4>1
    <3>8. \A l \in i .. n - 1 : l \in i .. j - 1 \/ l = j
      BY <1>2, <3>3, <3>5
    <3>9. QED
      BY <3>3, <3>6, <3>7, <3>8
  <2>3. Kept(e) /\ e \in i .. e
    BY <1>2, <2>2
  <2>4. \A l \in i .. e : l \in i .. e - 1 \/ l = e
    BY <1>2
  <2>5. QED
    BY <2>1, <2>3, <2>4 DEF DefinedIn
<1>9. QED
  BY <1>1, <1>5, <1>6, <1>7, <1>8

-----------------------------------------------------------------------------
(* Liveness at the edges of the blocks. *)

TrueIn(k)  == {v \in Vreg : blocks[k].start \in LiveBefore(v)}
TrueOut(k) == {v \in Vreg : Follows(blocks[k].end - 1) \cap LiveBefore(v) # {}}

BlockIs(k) ==
    /\ blocks[k].start \in Pos /\ blocks[k].end - 1 \in Pos
    /\ blocks[k].start \in blocks[k].start .. blocks[k].end - 1
    /\ blocks[k].end - 1 \in blocks[k].start .. blocks[k].end - 1
    /\ blocks[k].start = 1 <=> k = 1
    /\ blocks[k].succs \subseteq Block
    /\ blocks[k].defs \subseteq Vreg /\ blocks[k].uses \subseteq Vreg
    /\ \A v : v \in blocks[k].defs <=> DefinedIn(v, blocks[k].start, blocks[k].end - 1)
    /\ \A v : v \in blocks[k].uses <=> UsedFrom(v, blocks[k].start, blocks[k].end - 1)
    /\ Follows(blocks[k].end - 1) = {blocks[s].start : s \in blocks[k].succs}

\* The positions of a block.
LEMMA BlockFacts ==
    ASSUME FnOK, BlocksOK, NEW k \in Block
    PROVE  BlockIs(k)
<1>1. /\ blocks[k].start \in Pos /\ blocks[k].end \in 2 .. Len(insns) + 1
      /\ blocks[k].start < blocks[k].end
  BY DEF BlocksOK, DataOK, ControlOK
<1>2. Len(insns) \in Nat /\ Pos = 1 .. Len(insns)
  BY DEF FnOK
<1>3. /\ blocks[k].end - 1 \in Pos
      /\ blocks[k].start \in blocks[k].start .. blocks[k].end - 1
      /\ blocks[k].end - 1 \in blocks[k].start .. blocks[k].end - 1
  BY <1>1, <1>2
<1>4. blocks[k].start = 1 <=> k = 1
  BY DEF BlocksOK, DataOK, ControlOK
<1>5. /\ blocks[k].succs \subseteq Block
      /\ blocks[k].defs \subseteq Vreg /\ blocks[k].uses \subseteq Vreg
      /\ \A v : v \in blocks[k].defs <=> DefinedIn(v, blocks[k].start, blocks[k].end - 1)
      /\ \A v : v \in blocks[k].uses <=> UsedFrom(v, blocks[k].start, blocks[k].end - 1)
      /\ Follows(blocks[k].end - 1) = {blocks[s].start : s \in blocks[k].succs}
  BY DEF BlocksOK, DataOK, ControlOK
<1>6. QED
  BY <1>1, <1>3, <1>4, <1>5 DEF BlockIs

\* They solve the equations of the data flow between the blocks.
LEMMA TrueFlow ==
    ASSUME FnOK, BlocksOK, NEW k \in Block
    PROVE  /\ \A v : v \in TrueOut(k) <=> \E s \in blocks[k].succs : v \in TrueIn(s)
           /\ \A v : v \in TrueIn(k) <=> \/ v \in blocks[k].uses \/ (k = 1 /\ v \in fn.params)
                                         \/ v \in TrueOut(k) /\ v \notin blocks[k].defs
<1>1. BlockIs(k)
  BY BlockFacts
<1>2. \A v : v \in TrueOut(k) <=> \E s \in blocks[k].succs : v \in TrueIn(s)
  <2>1. Follows(blocks[k].end - 1) = {blocks[s].start : s \in blocks[k].succs}
    BY <1>1 DEF BlockIs
  <2>2. QED
    BY <2>1 DEF TrueIn, TrueOut
<1>3. ASSUME NEW v \in Vreg
      PROVE  v \in TrueIn(k) <=> \/ v \in blocks[k].uses \/ (k = 1 /\ v \in fn.params)
                                 \/ v \in TrueOut(k) /\ v \notin blocks[k].defs
  <2>1. PICK L, i, p : L = LiveBefore(v) /\ i = blocks[k].start /\ p = (v \in fn.params)
    OBVIOUS
  <2>2. LiveEqn(v, L, p)
    BY <2>1, LiveBeforeIs
  <2>3. i \in blocks[k].start .. blocks[k].end - 1
    BY <1>1, <2>1 DEF BlockIs
  <2>4. i \in L <=> \/ UsedFrom(v, i, blocks[k].end - 1) \/ (i = 1 /\ p)
                    \/ /\ ~DefinedIn(v, i, blocks[k].end - 1)
                       /\ Follows(blocks[k].end - 1) \cap L # {}
    BY <2>2, <2>3, ThroughFrom
  <2>5. /\ UsedFrom(v, i, blocks[k].end - 1) <=> v \in blocks[k].uses
        /\ DefinedIn(v, i, blocks[k].end - 1) <=> v \in blocks[k].defs
        /\ i = 1 <=> k = 1
    BY <1>1, <2>1 DEF BlockIs
  <2>6. /\ v \in TrueIn(k) <=> i \in L
        /\ v \in TrueOut(k) <=> Follows(blocks[k].end - 1) \cap L # {}
    BY <2>1 DEF TrueIn, TrueOut
  <2>7. QED
    BY <2>1, <2>4, <2>5, <2>6
<1>4. TrueIn(k) \subseteq Vreg /\ TrueOut(k) \subseteq Vreg
  BY DEF TrueIn, TrueOut
<1>5. blocks[k].uses \subseteq Vreg /\ fn.params \subseteq Vreg
  BY <1>1 DEF BlockIs, FnOK
<1>6. QED
  BY <1>2, <1>3, <1>4, <1>5

\* And they are the least solution: W has every block above which v is live if
\* it has those that one step of the flow makes of it.
FlowClosed(v, W) ==
    \A k \in Block :
       \/ v \in blocks[k].uses \/ (k = 1 /\ v \in fn.params)
       \/ v \notin blocks[k].defs /\ blocks[k].succs \cap W # {}
       => k \in W

\* Liveness at the edges of blocks is below every solution of the data flow.
LEMMA TrueLeast ==
    ASSUME FnOK, BlocksOK, NEW v \in Vreg, NEW W \in SUBSET Block, FlowClosed(v, W), NEW d \in Block
    PROVE  v \in TrueIn(d) => d \in W
<1> DEFINE Good(i, k) ==
               \/ UsedFrom(v, i, blocks[k].end - 1) \/ (i = 1 /\ v \in fn.params)
               \/ ~DefinedIn(v, i, blocks[k].end - 1) /\ blocks[k].succs \cap W # {}
           Holds(i, k) == blocks[k].start <= i /\ i < blocks[k].end
           X == {i \in Pos : \A k \in Block : Holds(i, k) => Good(i, k)}
<1>1. Len(insns) \in Nat /\ Pos = 1 .. Len(insns)
  BY DEF FnOK
<1>2. \A k \in Block : /\ BlockIs(k) /\ blocks[k].end \in 2 .. Len(insns) + 1
                       /\ \A i \in blocks[k].start .. blocks[k].end - 2 : Follows(i) = {i + 1}
  BY BlockFacts DEF BlocksOK, DataOK, ControlOK
\* The start of a block is in X only if the block is in W.
<1>3. \A s \in Block : blocks[s].start \in X => s \in W
  <2>1. SUFFICES ASSUME NEW s \in Block, blocks[s].start \in X PROVE s \in W
    OBVIOUS
  <2>2. BlockIs(s)
    BY <1>2
  <2>3. Holds(blocks[s].start, s)
    BY <1>1, <1>2, <2>2 DEF BlockIs
  <2>4. Good(blocks[s].start, s)
    BY <2>1, <2>3
  <2>5. \/ v \in blocks[s].uses \/ (s = 1 /\ v \in fn.params)
        \/ v \notin blocks[s].defs /\ blocks[s].succs \cap W # {}
    BY <2>2, <2>4 DEF BlockIs
  <2>6. QED
    BY <2>5 DEF FlowClosed
<1>4. \A i \in Pos : v \in Uses(insns[i]) \/ (i = 1 /\ v \in fn.params) => i \in X
  <2>1. ASSUME NEW i \in Pos, v \in Uses(insns[i]), NEW k \in Block, Holds(i, k)
        PROVE  UsedFrom(v, i, blocks[k].end - 1)
    <3>1. i \in i .. blocks[k].end - 1 /\ i .. i - 1 = {}
      BY <1>1, <1>2, <2>1
    <3>2. QED
      BY <2>1, <3>1 DEF UsedFrom
  <2>2. QED
    BY <2>1
<1>5. ClosedAbove(v, X)
  <2>1. SUFFICES ASSUME NEW i \in Pos, v \notin Defs(insns[i]), Follows(i) \cap X # {},
                        NEW k \in Block, Holds(i, k)
                 PROVE  Good(i, k)
    BY DEF ClosedAbove
  <2>2. BlockIs(k)
    BY <1>2
  <2>3. CASE i = blocks[k].end - 1
    <3>1. PICK s \in blocks[k].succs : blocks[s].start \in X
      <4>1. Follows(i) = {blocks[s].start : s \in blocks[k].succs}
        BY <2>2, <2>3 DEF BlockIs
      <4> HIDE DEF X
      <4>2. QED
        BY <2>1, <4>1
    <3>2. s \in W
      BY <1>3, <2>2, <3>1 DEF BlockIs
    <3>3. \A l \in i .. blocks[k].end - 1 : l = i
      BY <1>1, <2>3
    <3>4. ~DefinedIn(v, i, blocks[k].end - 1)
      BY <2>1, <3>3 DEF DefinedIn
    <3>5. QED
      BY <3>1, <3>2, <3>4
  <2>4. CASE i # blocks[k].end - 1
    <3>1. PICK e : e = blocks[k].end - 1 /\ e \in Nat /\ i \in Nat /\ i < e
      BY <1>1, <1>2, <2>1, <2>4
    <3>2. i \in blocks[k].start .. blocks[k].end - 2 /\ Holds(i + 1, k)
      BY <1>1, <1>2, <2>1, <2>2, <3>1 DEF BlockIs
    <3>3. Follows(i) = {i + 1}
      BY <1>2, <3>2
    <3>4. Good(i + 1, k) /\ i + 1 # 1
      <4>1. i + 1 \in X
        <5> HIDE DEF X
        <5>1. QED
          BY <2>1, <3>3
      <4>2. QED
        BY <1>1, <3>2, <4>1
    <3>5. \A l \in i .. e : l = i \/ l \in i + 1 .. e
      BY <3>1
    <3>6. UsedFrom(v, i + 1, e) => UsedFrom(v, i, e)
      <4>1. ASSUME NEW l \in i + 1 .. e, v \in Uses(insns[l]),
                   \A m \in i + 1 .. l - 1 : v \notin Defs(insns[m])
            PROVE  UsedFrom(v, i, e)
        <5>1. l \in i .. e /\ \A m \in i .. l - 1 : m = i \/ m \in i + 1 .. l - 1
          BY <3>1
        <5>2. QED
          BY <2>1, <4>1, <5>1 DEF UsedFrom
      <4>2. QED
        BY <4>1 DEF UsedFrom
    <3>7. DefinedIn(v, i, e) => DefinedIn(v, i + 1, e)
      BY <2>1, <3>5 DEF DefinedIn
    <3>8. QED
      BY <3>1, <3>4, <3>6, <3>7
  <2>5. QED
    BY <2>3, <2>4
<1>6. LiveBefore(v) \subseteq X
  <2>1. LeastLive(v, LiveBefore(v), v \in fn.params)
    BY LiveBeforeIs
  <2>2. X \in SUBSET Pos
    OBVIOUS
  <2> HIDE DEF X
  <2>3. QED
    BY <1>4, <1>5, <2>1, <2>2 DEF LeastLive
<1>7. QED
  <2> HIDE DEF X
  <2>1. QED
    BY <1>3, <1>6 DEF TrueIn

\* The blocks above which v is live as far as n steps of the flow tell.
FlowStep(v, W) ==
    {k \in Block : \/ v \in blocks[k].uses \/ (k = 1 /\ v \in fn.params)
                   \/ v \notin blocks[k].defs /\ blocks[k].succs \cap W # {}}
Levels(v, R) ==
    /\ R \in [Nat -> SUBSET Block] /\ R[0] = {}
    /\ \A n \in Nat : R[n + 1] = FlowStep(v, R[n])
Level(v) == CHOOSE R : Levels(v, R)

\* They grow, and after as many steps as there are blocks nothing is missing.
LevelOK(v) ==
    /\ Level(v)[0] = {}
    /\ \A n \in Nat : /\ Level(v)[n] \subseteq Block
                      /\ Level(v)[n] \subseteq Level(v)[n + 1]
                      /\ Level(v)[n + 1] = FlowStep(v, Level(v)[n])
    /\ \A n \in Nat : n >= NBlocks => \A k \in Block : v \in TrueIn(k) => k \in Level(v)[n]

\* After NBlocks steps the flow is complete: the levels grow, and a step that
\* adds nothing is the last one that could.
LEMMA LevelsAre ==
    ASSUME FnOK, BlocksOK, NEW v \in Vreg
    PROVE  LevelOK(v)
<1>1. NBlocks \in Nat /\ Block = 1 .. NBlocks
  BY DEF BlocksOK, DataOK, ControlOK
<1>2. PICK B, N : B = Block /\ N = NBlocks
  OBVIOUS
<1>3. N \in Nat /\ B = 1 .. N /\ IsFiniteSet(B) /\ Cardinality(B) = N
  <2>1. N \in Nat /\ B = 1 .. N
    BY <1>1, <1>2
  <2>2. /\ IsFiniteSet(1 .. N)
        /\ Cardinality(1 .. N) = IF 1 > N THEN 0 ELSE N - 1 + 1
    <3>1. 1 \in Int /\ N \in Int
      BY ONLY <2>1
    <3>2. QED
      BY ONLY <3>1, FS_Interval
  <2>3. (IF 1 > N THEN 0 ELSE N - 1 + 1) = N
    BY ONLY <2>1
  <2>4. QED
    BY <2>1, <2>2, <2>3
<1>4. PICK T, more : T = SUBSET B /\ more = [W \in T |-> FlowStep(v, W)]
  OBVIOUS
<1>5. more \in [T -> T] /\ \A W \in T : more[W] = FlowStep(v, W) /\ FlowStep(v, W) \in T
  <2>1. \A W : FlowStep(v, W) \in T
    BY <1>2, <1>4 DEF FlowStep
  <2>2. QED
    BY <1>4, <2>1
<1>6. \E R : Levels(v, R)
  <2>1. PICK none, nx : /\ none = {} /\ none \in T
                        /\ nx = [y \in Nat \X T |-> more[y[2]]]
    BY <1>4
  <2>2. PICK R \in [Nat -> T] : R[0] = {} /\ \A n \in Nat : R[n + 1] = more[R[n]]
    <3>1. \A n \in Nat, x \in T : nx[<<n, x>>] = more[x] /\ nx[<<n, x>>] \in T
      BY <1>5, <2>1
    <3>2. none \in T /\ \A n \in Nat, x \in T : nx[<<n, x>>] \in T
      BY <2>1, <3>1
    <3>3. PICK f : Iteration(f, T, none, nx)
      BY ONLY <3>2, StepsIterate
    <3>4. f \in [Nat -> T] /\ f[0] = {} /\ \A n \in Nat : f[n + 1] = nx[<<n + 1, f[n]>>]
      BY <2>1, <3>3 DEF Iteration
    <3>5. \A n \in Nat : f[n + 1] = more[f[n]]
      <4>1. \A n \in Nat : n + 1 \in Nat /\ f[n] \in T
        BY <3>4
      <4>2. QED
        BY <3>1, <3>4, <4>1
    <3>6. QED
      BY <3>4, <3>5
  <2>3. \A n \in Nat : R[n + 1] = FlowStep(v, R[n])
    BY <1>5, <2>2
  <2>4. QED
    BY <1>2, <1>4, <2>1, <2>2, <2>3 DEF Levels
<1>7. PICK R : R = Level(v) /\ Levels(v, R)
  BY <1>6 DEF Level
<1>8. /\ R \in [Nat -> T] /\ R[0] = {}
      /\ \A n \in Nat : R[n] \in T /\ R[n + 1] = FlowStep(v, R[n]) /\ R[n + 1] = more[R[n]]
  <2>1. /\ R \in [Nat -> T] /\ R[0] = {}
        /\ \A n \in Nat : R[n + 1] = FlowStep(v, R[n])
    BY <1>2, <1>4, <1>7 DEF Levels
  <2>2. QED
    BY <1>5, <2>1
<1>9. \A W, Y : W \subseteq Y => FlowStep(v, W) \subseteq FlowStep(v, Y)
  BY DEF FlowStep
<1>10. \A n \in Nat : R[n] \subseteq R[n + 1]
  <2> DEFINE Bad == {n \in Nat : ~(R[n] \subseteq R[n + 1])}
  <2>1. SUFFICES ASSUME Bad # {} PROVE FALSE
    OBVIOUS
  <2>2. PICK n \in Bad : \A m \in Bad : n <= m
    <3>1. Bad \subseteq Nat
      OBVIOUS
    <3>2. QED
      BY ONLY <2>1, <3>1, SmallestElement
  <2>3. n # 0 /\ n \in Nat
    BY <1>8, <2>2
  <2>4. PICK m \in Nat : n = m + 1 /\ ~(n <= m)
    <3>1. n - 1 \in Nat /\ n = n - 1 + 1 /\ ~(n <= n - 1)
      BY ONLY <2>3
    <3>2. QED
      BY <3>1
  <2>5. R[m] \subseteq R[n]
    BY <2>2, <2>4
  <2>6. R[n] = FlowStep(v, R[m]) /\ R[n + 1] = FlowStep(v, R[n])
    BY <1>8, <2>3, <2>4
  <2>7. R[n] \subseteq R[n + 1]
    BY <1>9, <2>5, <2>6
  <2>8. QED
    BY <2>2, <2>7
<1>11. R[N + 1] = R[N]
  <2>1. R \in [Nat -> SUBSET B] /\ more \in [SUBSET B -> SUBSET B]
    BY <1>4, <1>5, <1>8
  <2>2. \A n \in Nat : R[n + 1] = more[R[n]] /\ R[n] \subseteq R[n + 1]
    BY <1>8, <1>10
  <2>3. R[Cardinality(B) + 1] = R[Cardinality(B)]
    <3>1. IsFiniteSet(B)
      BY <1>3
    <3>2. QED
      BY ONLY <2>1, <2>2, <3>1, ChainRests
  <2>4. QED
    BY <1>3, <2>3
<1>12. \A k \in Block : v \in TrueIn(k) => k \in R[N]
  <2>1. R[N] \in SUBSET Block /\ FlowStep(v, R[N]) = R[N]
    BY <1>2, <1>3, <1>4, <1>8, <1>11
  <2>2. FlowClosed(v, R[N])
    BY <2>1 DEF FlowClosed, FlowStep
  <2>3. QED
    BY <2>1, <2>2, TrueLeast
<1>13. \A n \in Nat : n >= N => R[N] \subseteq R[n]
  <2> DEFINE Bad == {n \in Nat : n >= N /\ ~(R[N] \subseteq R[n])}
  <2>1. SUFFICES ASSUME Bad # {} PROVE FALSE
    OBVIOUS
  <2>2. PICK n \in Bad : \A m \in Bad : n <= m
    <3>1. Bad \subseteq Nat
      OBVIOUS
    <3>2. QED
      BY ONLY <2>1, <3>1, SmallestElement
  <2>3. n # N /\ n \in Nat /\ n >= N
    BY <2>2
  <2>4. PICK m \in Nat : n = m + 1 /\ ~(n <= m) /\ m >= N
    <3>1. n - 1 \in Nat /\ n = n - 1 + 1 /\ ~(n <= n - 1) /\ n - 1 >= N
      BY ONLY <1>3, <2>3
    <3>2. QED
      BY <3>1
  <2>5. R[N] \subseteq R[m]
    BY <2>2, <2>4
  <2>6. QED
    BY <1>10, <2>2, <2>4, <2>5
<1>14. QED
  <2>1. \A n \in Nat : R[n] \subseteq Block
    BY <1>2, <1>4, <1>8
  <2>2. \A n \in Nat : n >= NBlocks => \A k \in Block : v \in TrueIn(k) => k \in R[n]
    BY <1>2, <1>12, <1>13
  <2>3. QED
    BY <1>7, <1>8, <1>10, <2>1, <2>2 DEF LevelOK

-----------------------------------------------------------------------------
(* The data flow. *)

Sweep == MaxIter - max_iter     \* the number of the sweep at hand

\* Block k agrees with the live sets of its successors.
FlowAtRest(in, out, k) ==
    /\ out[k] = UNION {in[s] : s \in blocks[k].succs}
    /\ in[k] = blocks[k].uses \cup (out[k] \ blocks[k].defs) \cup
               (IF k = 1 THEN fn.params ELSE {})

\* What the sweep has brought so far: block k has been visited if k > b.
SweepOK ==
    /\ b \in 0 .. NBlocks /\ max_iter \in 0 .. MaxIter - 1 /\ changed \in BOOLEAN
    /\ \A v \in Vreg : \A k \in Block :
          /\ k > b /\ k \in Level(v)[Sweep] => v \in live_in[k]
          /\ k <= b /\ k \in Level(v)[Sweep - 1] => v \in live_in[k]
          /\ k > b /\ blocks[k].succs \cap Level(v)[Sweep - 1] # {} => v \in live_out[k]
          /\ k <= b /\ Sweep >= 2 /\ blocks[k].succs \cap Level(v)[Sweep - 2] # {}
                => v \in live_out[k]
    /\ changed => Sweep <= NBlocks + 1
    /\ ~changed => \A k \in Block : k > b => FlowAtRest(live_in, live_out, k)

FlowOK ==
    /\ FnOK /\ BlocksOK
    /\ live_in \in [Block -> SUBSET Vreg] /\ live_out \in [Block -> SUBSET Vreg]
    /\ \A k \in Block : live_in[k] \subseteq TrueIn(k) /\ live_out[k] \subseteq TrueOut(k)
    /\ pc = "flow" => SweepOK
    /\ pc = "ranges" => ~changed
    /\ pc # "flow" => \A k \in Block : live_in[k] = TrueIn(k) /\ live_out[k] = TrueOut(k)

\* What follows from the function and its blocks stays.
LEMMA StaticKept ==
    ASSUME fn' = fn, blocks' = blocks
    PROVE  /\ insns' = insns /\ Pos' = Pos /\ Block' = Block /\ NBlocks' = NBlocks
           /\ MaxIter' = MaxIter /\ fn.params' = fn.params
           /\ \A i : Follows(i)' = Follows(i)
           /\ FnOK' = FnOK
           /\ \A v \in Vreg : LiveBefore(v)' = LiveBefore(v)
           /\ \A v \in Vreg : LiveAbove(v)' = LiveAbove(v)
<1>1. /\ insns' = insns /\ Pos' = Pos /\ Block' = Block /\ NBlocks' = NBlocks
      /\ MaxIter' = MaxIter /\ fn.params' = fn.params
  BY DEF insns, Pos, Block, NBlocks, MaxIter
<1>2. \A i : Follows(i)' = Follows(i)
  BY DEF insns, Pos, Follows
<1>3. FnOK' = FnOK
  BY DEF FnOK, insns, Pos
<1>4. \A v \in Vreg : LiveBefore(v)' = LiveBefore(v)
  BY DEF LiveBefore, LiveAbove, Above, Follows, Pos, insns
<1>5. \A v \in Vreg : LiveAbove(v)' = LiveAbove(v)
  BY DEF LiveAbove, Above, Follows, Pos, insns
<1>6. QED
  BY <1>1, <1>2, <1>3, <1>4, <1>5

\* Later steps leave the blocks alone,
LEMMA BlocksKept ==
    ASSUME fn' = fn, blocks' = blocks
    PROVE  BlocksOK => BlocksOK'
<1>1. /\ insns' = insns /\ Pos' = Pos /\ Block' = Block /\ NBlocks' = NBlocks
      /\ \A i : Follows(i)' = Follows(i)
  BY StaticKept
<1>2. \A v, i, j : DefinedIn(v, i, j)' = DefinedIn(v, i, j)
  BY <1>1 DEF DefinedIn
<1>3. \A v, i, j : UsedFrom(v, i, j)' = UsedFrom(v, i, j)
  BY <1>1 DEF UsedFrom
<1>4. \A k : DataOK(k)' = DataOK(k)
  BY <1>2, <1>3 DEF DataOK
<1>5. \A k : ControlOK(k)' = ControlOK(k)
  BY <1>1 DEF ControlOK
<1>6. QED
  BY <1>1, <1>4, <1>5 DEF BlocksOK

\* and what is live at their edges.
LEMMA LevelsKept ==
    ASSUME fn' = fn, blocks' = blocks
    PROVE  /\ \A k : TrueIn(k)' = TrueIn(k) /\ TrueOut(k)' = TrueOut(k)
           /\ \A v \in Vreg : Level(v)' = Level(v)
<1>1. /\ \A i : Follows(i)' = Follows(i)
      /\ \A v \in Vreg : LiveBefore(v)' = LiveBefore(v)
  BY StaticKept
<1>2. \A k : TrueIn(k)' = TrueIn(k) /\ TrueOut(k)' = TrueOut(k)
  BY <1>1 DEF TrueIn, TrueOut
<1>3. \A v \in Vreg : Level(v)' = Level(v)
  BY DEF Level, Levels, FlowStep, Block
<1>4. QED
  BY <1>2, <1>3

\* The data flow begins with the parameters.
LEMMA FlowInit ==
    ASSUME Init
    PROVE  FlowOK
<1>1. FnOK /\ BlocksOK
  BY FnIs, BlocksAre DEF Init
<1>2. NBlocks \in Nat \ {0} /\ Block = 1 .. NBlocks /\ fn.params \subseteq Vreg
  BY <1>1 DEF BlocksOK, FnOK
<1>3. /\ pc = "flow" /\ b = NBlocks /\ changed = FALSE /\ max_iter = MaxIter - 1
      /\ live_in = [k \in Block |-> IF k = 1 THEN fn.params ELSE {}]
      /\ live_out = [k \in Block |-> {}]
  BY DEF Init
<1>4. live_in \in [Block -> SUBSET Vreg] /\ live_out \in [Block -> SUBSET Vreg]
  BY <1>2, <1>3
<1>5. \A k \in Block : live_in[k] \subseteq TrueIn(k) /\ live_out[k] \subseteq TrueOut(k)
  <2>1. \A k \in Block : \A v : k = 1 /\ v \in fn.params => v \in TrueIn(k)
    BY <1>1, TrueFlow
  <2>2. QED
    BY <1>3, <2>1
<1>6. SweepOK
  <2>1. MaxIter = NBlocks * 4 + 10 /\ MaxIter \in Nat
    BY <1>2 DEF MaxIter
  <2>2. Sweep = 1 /\ max_iter \in 0 .. MaxIter - 1 /\ b \in 0 .. NBlocks
    BY <1>2, <1>3, <2>1 DEF Sweep
  <2>3. \A v \in Vreg : Level(v)[0] = {}
    BY <1>1, LevelsAre DEF LevelOK
  <2>4. \A k \in Block : ~(k > b)
    BY <1>2, <1>3
  <2>5. Sweep - 1 = 0 /\ ~(Sweep >= 2)
    BY <2>2
  <2>6. \A v \in Vreg : Level(v)[Sweep - 1] = {}
    BY <2>3, <2>5
  <2>7. QED
    BY <1>3, <2>2, <2>4, <2>5, <2>6 DEF SweepOK
<1>7. QED
  BY <1>1, <1>3, <1>4, <1>5, <1>6 DEF FlowOK

\* A block of a sweep adds what is live and nothing else.
LEMMA FlowBlockKeeps ==
    ASSUME FlowOK, FlowBlock
    PROVE  FlowOK'
<1>1. /\ FnOK /\ BlocksOK /\ SweepOK
      /\ live_in \in [Block -> SUBSET Vreg] /\ live_out \in [Block -> SUBSET Vreg]
      /\ \A k \in Block : live_in[k] \subseteq TrueIn(k) /\ live_out[k] \subseteq TrueOut(k)
  BY DEF FlowOK, FlowBlock
<1>2. /\ NBlocks \in Nat \ {0} /\ Block = 1 .. NBlocks /\ b \in Block /\ b \in Nat
      /\ b - 1 \in 0 .. NBlocks
  BY <1>1 DEF BlocksOK, SweepOK, FlowBlock
<1>3. PICK in, out :
          /\ out = UNION {live_in[s] : s \in blocks[b].succs}
          /\ in = blocks[b].uses \cup (out \ blocks[b].defs) \cup
                  (IF b = 1 THEN fn.params ELSE {})
          /\ live_out' = [live_out EXCEPT ![b] = out]
          /\ live_in' = [live_in EXCEPT ![b] = in]
          /\ changed' = (changed \/ in # live_in[b] \/ out # live_out[b])
  BY DEF FlowBlock
<1>4. /\ b' = b - 1 /\ fn' = fn /\ blocks' = blocks /\ pc' = "flow" /\ pc = "flow"
      /\ max_iter' = max_iter
  BY DEF FlowBlock
<1>5. /\ Block' = Block /\ NBlocks' = NBlocks /\ MaxIter' = MaxIter /\ Sweep' = Sweep
      /\ FnOK' /\ BlocksOK' /\ fn.params' = fn.params
      /\ \A k : TrueIn(k)' = TrueIn(k) /\ TrueOut(k)' = TrueOut(k)
      /\ \A v \in Vreg : Level(v)' = Level(v)
  BY <1>1, <1>4, StaticKept, BlocksKept, LevelsKept DEF Sweep
<1>6. BlockIs(b) /\ blocks[b].succs \subseteq Block
  BY <1>1, <1>2, BlockFacts DEF BlockIs
<1>7. /\ \A v : v \in out <=> \E s \in blocks[b].succs : v \in live_in[s]
      /\ \A v : v \in in <=> \/ v \in blocks[b].uses \/ (b = 1 /\ v \in fn.params)
                             \/ v \in out /\ v \notin blocks[b].defs
  BY <1>3
<1>8. /\ \A v : v \in TrueOut(b) <=> \E s \in blocks[b].succs : v \in TrueIn(s)
      /\ \A v : v \in TrueIn(b) <=> \/ v \in blocks[b].uses \/ (b = 1 /\ v \in fn.params)
                                    \/ v \in TrueOut(b) /\ v \notin blocks[b].defs
  BY <1>1, <1>2, TrueFlow
<1>9. out \subseteq TrueOut(b) /\ in \subseteq TrueIn(b)
  <2>1. out \subseteq TrueOut(b)
    BY <1>1, <1>6, <1>7, <1>8
  <2>2. QED
    BY <1>7, <1>8, <2>1
<1>10. out \subseteq Vreg /\ in \subseteq Vreg
  BY <1>9 DEF TrueIn, TrueOut
<1>11. /\ live_in' \in [Block -> SUBSET Vreg] /\ live_out' \in [Block -> SUBSET Vreg]
       /\ \A k \in Block : live_in'[k] = IF k = b THEN in ELSE live_in[k]
       /\ \A k \in Block : live_out'[k] = IF k = b THEN out ELSE live_out[k]
  BY <1>1, <1>2, <1>3, <1>10
<1>12. Sweep \in Nat /\ Sweep >= 1 /\ Sweep - 1 \in Nat /\ Sweep = Sweep - 1 + 1
       /\ (Sweep >= 2 => Sweep - 2 \in Nat /\ Sweep - 1 = Sweep - 2 + 1)
  <2>1. MaxIter \in Nat
    BY <1>2 DEF MaxIter
  <2>2. QED
    BY <1>1, <2>1 DEF SweepOK, Sweep
<1>13. \A v \in Vreg : LevelOK(v)
  BY <1>1, LevelsAre
<1>14. \A v \in Vreg : blocks[b].succs \cap Level(v)[Sweep - 1] # {} => v \in out
  <2>1. ASSUME NEW v \in Vreg, NEW s \in blocks[b].succs, s \in Level(v)[Sweep - 1]
        PROVE  v \in live_in[s]
    <3>1. s \in Block
      BY <1>6
    <3>2. CASE s > b
      <4>1. s \in Level(v)[Sweep]
        BY <1>12, <1>13, <2>1 DEF LevelOK
      <4>2. QED
        BY <1>1, <3>1, <3>2, <4>1 DEF SweepOK
    <3>3. CASE s <= b
      BY <1>1, <2>1, <3>1, <3>3 DEF SweepOK
    <3>4. QED
      BY <1>2, <3>1, <3>2, <3>3
  <2>2. QED
    BY <1>7, <2>1
<1>15. \A v \in Vreg : b \in Level(v)[Sweep] => v \in in
  <2>1. SUFFICES ASSUME NEW v \in Vreg, b \in Level(v)[Sweep] PROVE v \in in
    OBVIOUS
  <2>2. b \in FlowStep(v, Level(v)[Sweep - 1])
    BY <1>12, <1>13, <2>1 DEF LevelOK
  <2>3. QED
    BY <1>7, <1>14, <2>2 DEF FlowStep
\* When the levels have come to rest nothing changes.
<1>16. Sweep >= NBlocks + 2 => in = live_in[b] /\ out = live_out[b]
  <2>1. SUFFICES ASSUME Sweep >= NBlocks + 2 PROVE in = live_in[b] /\ out = live_out[b]
    OBVIOUS
  <2>2. Sweep >= 2 /\ Sweep - 2 >= NBlocks /\ Sweep - 1 >= NBlocks /\ ~(b > b) /\ b <= b
    BY <1>2, <1>12, <2>1
  <2>3. \A v \in TrueIn(b) : v \in live_in[b] /\ v \in in
    <3>1. SUFFICES ASSUME NEW v \in TrueIn(b) PROVE v \in live_in[b] /\ v \in in
      OBVIOUS
    <3>2. v \in Vreg
      BY DEF TrueIn
    <3>3. b \in Level(v)[Sweep - 1]
      BY <1>2, <1>12, <1>13, <2>2, <3>1, <3>2 DEF LevelOK
    <3>4. b \in Level(v)[Sweep]
      BY <1>12, <1>13, <3>2, <3>3 DEF LevelOK
    <3>5. QED
      BY <1>1, <1>2, <1>15, <2>2, <3>2, <3>3, <3>4 DEF SweepOK
  <2>4. \A v \in TrueOut(b) : v \in live_out[b] /\ v \in out
    <3>1. SUFFICES ASSUME NEW v \in TrueOut(b) PROVE v \in live_out[b] /\ v \in out
      OBVIOUS
    <3>2. v \in Vreg
      BY DEF TrueOut
    <3>3. PICK s \in blocks[b].succs : v \in TrueIn(s)
      BY <1>8
    <3>4. s \in Level(v)[Sweep - 2] /\ s \in Block
      BY <1>6, <1>12, <1>13, <2>2, <3>2, <3>3 DEF LevelOK
    <3>5. s \in Level(v)[Sweep - 1]
      BY <1>12, <1>13, <2>2, <3>2, <3>4 DEF LevelOK
    <3>6. blocks[b].succs \cap Level(v)[Sweep - 2] # {} /\ blocks[b].succs \cap Level(v)[Sweep - 1] # {}
      BY <3>4, <3>5
    <3>7. QED
      BY <1>1, <1>2, <1>14, <2>2, <3>2, <3>6 DEF SweepOK
  <2>5. QED
    BY <1>1, <1>2, <1>9, <2>3, <2>4
<1>17. changed' => Sweep <= NBlocks + 1
  <2>1. CASE changed
    BY <1>1, <2>1 DEF SweepOK
  <2>2. CASE in # live_in[b] \/ out # live_out[b]
    <3>1. ~(Sweep >= NBlocks + 2)
      BY <1>16, <2>2
    <3>2. QED
      BY <1>2, <1>12, <3>1
  <2>3. QED
    BY <1>3, <2>1, <2>2
<1>18. ~changed' => \A k \in Block : k > b - 1 => FlowAtRest(live_in', live_out', k)
  <2>1. SUFFICES ASSUME ~changed', NEW k \in Block, k > b - 1
                 PROVE  FlowAtRest(live_in', live_out', k)
    OBVIOUS
  <2>2. ~changed /\ in = live_in[b] /\ out = live_out[b]
    BY <1>3, <2>1
  <2>3. live_in' = live_in /\ live_out' = live_out
    BY <1>1, <1>2, <1>3, <2>2
  <2>4. CASE k = b
    BY <1>3, <2>2, <2>3, <2>4 DEF FlowAtRest
  <2>5. CASE k # b
    <3>1. k > b
      BY <1>2, <2>1, <2>5
    <3>2. FlowAtRest(live_in, live_out, k)
      BY <1>1, <2>1, <2>2, <3>1 DEF SweepOK
    <3>3. QED
      BY <2>3, <3>2
  <2>6. QED
    BY <2>4, <2>5
<1>19. \A k \in Block : FlowAtRest(live_in, live_out, k)' = FlowAtRest(live_in', live_out', k)
  BY <1>4, <1>5 DEF FlowAtRest
<1>20. ASSUME NEW v \in Vreg, NEW k \in Block
       PROVE  /\ k > b - 1 /\ k \in Level(v)[Sweep] => v \in live_in'[k]
              /\ k <= b - 1 /\ k \in Level(v)[Sweep - 1] => v \in live_in'[k]
              /\ k > b - 1 /\ blocks[k].succs \cap Level(v)[Sweep - 1] # {} => v \in live_out'[k]
              /\ k <= b - 1 /\ Sweep >= 2 /\ blocks[k].succs \cap Level(v)[Sweep - 2] # {}
                    => v \in live_out'[k]
  <2>1. CASE k = b
    <3>1. ~(k <= b - 1)
      BY <1>2, <2>1
    <3>2. QED
      BY <1>11, <1>14, <1>15, <2>1, <3>1
  <2>2. CASE k # b
    <3>1. (k > b - 1 => k > b) /\ (k <= b - 1 => k <= b)
      BY <1>2, <2>2
    <3>2. live_in'[k] = live_in[k] /\ live_out'[k] = live_out[k]
      BY <1>11, <2>2
    <3>3. QED
      BY <1>1, <3>1, <3>2 DEF SweepOK
  <2>3. QED
    BY <2>1, <2>2
<1>21. SweepOK'
  <2>1. (changed \in BOOLEAN)' /\ (max_iter \in 0 .. MaxIter - 1)'
    BY <1>1, <1>3, <1>4, <1>5 DEF SweepOK
  <2>2. QED
    BY <1>2, <1>4, <1>5, <1>17, <1>18, <1>19, <1>20, <2>1 DEF SweepOK
<1>22. \A k \in Block : live_in'[k] \subseteq TrueIn(k) /\ live_out'[k] \subseteq TrueOut(k)
  BY <1>1, <1>9, <1>11
<1>23. QED
  BY <1>4, <1>5, <1>11, <1>21, <1>22 DEF FlowOK

\* A new sweep starts from one more level.
LEMMA NextSweepKeeps ==
    ASSUME FlowOK, NextSweep
    PROVE  FlowOK'
<1>1. /\ FnOK /\ BlocksOK /\ SweepOK
      /\ live_in \in [Block -> SUBSET Vreg] /\ live_out \in [Block -> SUBSET Vreg]
      /\ \A k \in Block : live_in[k] \subseteq TrueIn(k) /\ live_out[k] \subseteq TrueOut(k)
  BY DEF FlowOK, NextSweep
<1>2. /\ fn' = fn /\ blocks' = blocks /\ pc = "flow" /\ pc' = pc /\ b = 0 /\ b' = NBlocks
      /\ live_in' = live_in /\ live_out' = live_out /\ changed /\ changed' = FALSE
      /\ max_iter > 0 /\ max_iter' = max_iter - 1
  BY DEF NextSweep
<1>3. /\ Block' = Block /\ NBlocks' = NBlocks /\ MaxIter' = MaxIter
      /\ FnOK' /\ BlocksOK'
      /\ \A k : TrueIn(k)' = TrueIn(k) /\ TrueOut(k)' = TrueOut(k)
      /\ \A v \in Vreg : Level(v)' = Level(v)
  BY <1>1, <1>2, StaticKept, BlocksKept, LevelsKept
<1>4. NBlocks \in Nat \ {0} /\ Block = 1 .. NBlocks /\ MaxIter = NBlocks * 4 + 10
  BY <1>1 DEF BlocksOK, MaxIter
<1>5. max_iter \in 0 .. MaxIter - 1 /\ changed \in BOOLEAN /\ Sweep <= NBlocks + 1
  BY <1>1, <1>2 DEF SweepOK
<1>6. max_iter' \in 0 .. MaxIter - 1 /\ Sweep \in Nat /\ Sweep' = Sweep + 1
  BY <1>2, <1>3, <1>4, <1>5 DEF Sweep
<1>7. Sweep' - 1 = Sweep /\ Sweep' - 2 = Sweep - 1
  BY <1>6
<1>8. ASSUME NEW v \in Vreg, NEW k \in Block
      PROVE  /\ ~(k > NBlocks)
             /\ k \in Level(v)[Sweep] => v \in live_in[k]
             /\ blocks[k].succs \cap Level(v)[Sweep - 1] # {} => v \in live_out[k]
  <2>1. ~(k > NBlocks) /\ k > 0
    BY <1>4
  <2>2. QED
    BY <1>1, <1>2, <2>1 DEF SweepOK
<1>9. SweepOK'
  <2>1. b' \in 0 .. NBlocks' /\ max_iter' \in 0 .. MaxIter' - 1 /\ changed' \in BOOLEAN
    <3>1. changed' \in BOOLEAN
      BY <1>2
    <3>2. max_iter' \in 0 .. MaxIter' - 1
      BY <1>3, <1>6
    <3>3. b' \in 0 .. NBlocks'
      <4>1. b' = NBlocks /\ NBlocks' = NBlocks /\ NBlocks \in Nat
        BY <1>2, <1>3, <1>4
      <4>2. QED
        BY ONLY <4>1
    <3>4. QED
      BY <3>1, <3>2, <3>3
  <2>2. ASSUME NEW v \in Vreg, NEW k \in Block'
        PROVE  /\ k > b' /\ k \in Level(v)'[Sweep'] => v \in live_in'[k]
               /\ k <= b' /\ k \in Level(v)'[Sweep' - 1] => v \in live_in'[k]
               /\ k > b' /\ blocks'[k].succs \cap Level(v)'[Sweep' - 1] # {} => v \in live_out'[k]
               /\ k <= b' /\ Sweep' >= 2 /\ blocks'[k].succs \cap Level(v)'[Sweep' - 2] # {}
                     => v \in live_out'[k]
    <3>1. k \in Block /\ b' = NBlocks /\ Level(v)' = Level(v)
      BY <1>2, <1>3
    <3>2. QED
      BY <1>2, <1>7, <1>8, <3>1
  <2>3. \A k \in Block' : ~(k > b')
    BY <1>2, <1>3, <1>4
  <2>4. ~changed'
    BY <1>2
  <2>5. QED
    BY <2>1, <2>2, <2>3, <2>4 DEF SweepOK
<1>10. QED
  BY <1>1, <1>2, <1>3, <1>9 DEF FlowOK

\* The sweeps end at the solution, and before their bound cuts them off.
LEMMA EndFlowKeeps ==
    ASSUME FlowOK, EndFlow
    PROVE  FlowOK'
<1>1. /\ FnOK /\ BlocksOK /\ SweepOK
      /\ live_in \in [Block -> SUBSET Vreg] /\ live_out \in [Block -> SUBSET Vreg]
      /\ \A k \in Block : live_in[k] \subseteq TrueIn(k) /\ live_out[k] \subseteq TrueOut(k)
  BY DEF FlowOK, EndFlow
<1>2. /\ fn' = fn /\ blocks' = blocks /\ pc = "flow" /\ pc' = "ranges" /\ b = 0
      /\ live_in' = live_in /\ live_out' = live_out /\ changed' = changed
      /\ ~changed \/ max_iter = 0
  BY DEF EndFlow
<1>3. /\ Block' = Block /\ FnOK' /\ BlocksOK'
      /\ \A k : TrueIn(k)' = TrueIn(k) /\ TrueOut(k)' = TrueOut(k)
  BY <1>1, <1>2, StaticKept, BlocksKept, LevelsKept
<1>4. NBlocks \in Nat \ {0} /\ Block = 1 .. NBlocks /\ MaxIter = NBlocks * 4 + 10
  BY <1>1 DEF BlocksOK, MaxIter
<1>5. ~changed
  <2>1. ASSUME max_iter = 0, changed PROVE FALSE
    <3>1. Sweep <= NBlocks + 1
      BY <1>1, <2>1 DEF SweepOK
    <3>2. Sweep = MaxIter - 0
      BY <2>1 DEF Sweep
    <3>3. QED
      BY <1>4, <3>1, <3>2
  <2>2. QED
    BY <1>2, <2>1
<1>6. \A k \in Block : FlowAtRest(live_in, live_out, k)
  <2>1. \A k \in Block : k > b
    BY <1>2, <1>4
  <2>2. QED
    BY <1>1, <1>5, <2>1 DEF SweepOK
<1>7. \A k \in Block : BlockIs(k)
  BY <1>1, BlockFacts
<1>8. ASSUME NEW v \in Vreg, NEW k \in Block, v \in TrueIn(k) PROVE v \in live_in[k]
  <2>1. PICK W : W = {l \in Block : v \in live_in[l]}
    OBVIOUS
  <2>2. FlowClosed(v, W)
    <3>1. SUFFICES ASSUME NEW l \in Block,
                          \/ v \in blocks[l].uses \/ (l = 1 /\ v \in fn.params)
                          \/ v \notin blocks[l].defs /\ blocks[l].succs \cap W # {}
                   PROVE  l \in W
      BY DEF FlowClosed
    <3>2. blocks[l].succs \cap W # {} => v \in live_out[l]
      BY <1>6, <2>1 DEF FlowAtRest
    <3>3. v \in live_in[l]
      BY <1>6, <3>1, <3>2 DEF FlowAtRest
    <3>4. QED
      BY <2>1, <3>3
  <2>3. W \in SUBSET Block
    BY <2>1
  <2>4. k \in W
    BY <1>1, <1>8, <2>2, <2>3, TrueLeast
  <2>5. QED
    BY <2>1, <2>4
<1>9. \A k \in Block : live_in[k] = TrueIn(k)
  BY <1>1, <1>8 DEF TrueIn
<1>10. \A k \in Block : live_out[k] = TrueOut(k)
  <2>1. SUFFICES ASSUME NEW k \in Block PROVE live_out[k] = TrueOut(k)
    OBVIOUS
  <2>2. \A v : v \in TrueOut(k) <=> \E s \in blocks[k].succs : v \in TrueIn(s)
    BY <1>1, TrueFlow
  <2>3. blocks[k].succs \subseteq Block
    BY <1>7 DEF BlockIs
  <2>4. \A v : v \in live_out[k] <=> \E s \in blocks[k].succs : v \in live_in[s]
    BY <1>6 DEF FlowAtRest
  <2>5. QED
    BY <1>9, <2>2, <2>3, <2>4
<1>11. QED
  BY <1>1, <1>2, <1>3, <1>5, <1>9, <1>10 DEF FlowOK

\* The other steps leave the live sets.
LEMMA FlowRests ==
    ASSUME FlowOK, UNCHANGED <<fn, blocks, live_in, live_out>>,
           \/ pc \in {"flow", "ranges"} /\ UNCHANGED <<pc, b, changed, max_iter>>
           \/ pc # "flow" /\ pc' \notin {"flow", "ranges"}
    PROVE  FlowOK'
<1>1. /\ Block' = Block /\ NBlocks' = NBlocks /\ MaxIter' = MaxIter
      /\ \A k : TrueIn(k)' = TrueIn(k) /\ TrueOut(k)' = TrueOut(k)
      /\ \A v \in Vreg : Level(v)' = Level(v)
  BY StaticKept, LevelsKept
<1>2. FnOK' /\ BlocksOK'
  BY StaticKept, BlocksKept DEF FlowOK
<1>3. /\ live_in' \in [Block -> SUBSET Vreg] /\ live_out' \in [Block -> SUBSET Vreg]
      /\ \A k \in Block : live_in'[k] \subseteq TrueIn(k) /\ live_out'[k] \subseteq TrueOut(k)
  BY DEF FlowOK
<1>4. CASE pc # "flow" /\ pc' \notin {"flow", "ranges"}
  BY <1>1, <1>2, <1>3, <1>4 DEF FlowOK
<1>5. CASE pc \in {"flow", "ranges"} /\ UNCHANGED <<pc, b, changed, max_iter>>
  <2>1. \A k : FlowAtRest(live_in, live_out, k)' = FlowAtRest(live_in, live_out, k)
    BY <1>1 DEF FlowAtRest
  <2>2. Sweep' = Sweep
    BY <1>1, <1>5 DEF Sweep
  <2>3. pc = "flow" => SweepOK'
    <3>1. SUFFICES ASSUME pc = "flow" PROVE SweepOK'
      OBVIOUS
    <3>2. SweepOK
      BY <3>1 DEF FlowOK
    <3>3. QED
      BY <1>1, <1>5, <2>1, <2>2, <3>2 DEF SweepOK
  <2>4. QED
    BY <1>1, <1>2, <1>3, <1>5, <2>3 DEF FlowOK
<1>6. QED
  BY <1>4, <1>5

-----------------------------------------------------------------------------
(* Ranges. *)

\* A vreg in use is live at the entry too, where parameters count as read.
LEMMA AboveBefore ==
    ASSUME FnOK, NEW v
    PROVE  LiveAbove(v) \subseteq LiveBefore(v)
<1>1. LeastLive(v, LiveAbove(v), FALSE)
  BY LiveAboveIs
<1>2. LiveEqn(v, LiveBefore(v), v \in fn.params)
  BY LiveBeforeIs
<1>3. ClosedAbove(v, LiveBefore(v))
  BY <1>2 DEF LiveEqn, ClosedAbove
<1>4. /\ LiveBefore(v) \in SUBSET Pos
      /\ \A i \in Pos : v \in Uses(insns[i]) => i \in LiveBefore(v)
  BY <1>2 DEF LiveEqn
<1>5. QED
  BY <1>1, <1>3, <1>4 DEF LeastLive

\* Max finds the largest of a set of positions.
LEMMA MaxIs ==
    ASSUME NEW S, NEW n \in Nat, S \subseteq 0 .. n, NEW i \in S
    PROVE  Max(S) \in S /\ i <= Max(S) /\ Max(S) \in Nat
<1> DEFINE Left == {n - x : x \in S}
<1>1. Left \subseteq Nat /\ Left # {}
  <2>1. \A x \in S : n - x \in Nat
    OBVIOUS
  <2>2. QED
    BY <2>1
<1>2. PICK m \in Left : \A l \in Left : m <= l
  <2> HIDE DEF Left
  <2>1. QED
    BY ONLY <1>1, SmallestElement
<1>3. PICK x \in S : m = n - x
  OBVIOUS
<1>4. \A y \in S : x >= y
  <2>1. SUFFICES ASSUME NEW y \in S PROVE x >= y
    OBVIOUS
  <2>2. n - x <= n - y
    BY <1>2, <1>3
  <2>3. x \in Nat /\ y \in Nat
    OBVIOUS
  <2>4. QED
    BY ONLY <2>2, <2>3, n \in Nat
<1>5. PICK M : M = Max(S)
  OBVIOUS
<1>6. M \in S /\ \A y \in S : M >= y
  BY <1>4, <1>5 DEF Max
<1>7. M \in 0 .. n /\ i \in 0 .. n /\ M >= i
  BY <1>6
<1>8. M \in Nat /\ i <= M
  BY ONLY <1>7, n \in Nat
<1>9. QED
  BY <1>5, <1>6, <1>8

\* What ComputeLiveness brings about.
RangesOK ==
    \A v \in Vreg :
       /\ \A i \in Pos : v \in RangeUses(insns[i]) => last_use[v] \in Nat /\ i <= last_use[v]
       /\ \A k \in Block : v \in live_out[k] =>
              last_use[v] \in Nat /\ blocks[k].end - 1 <= last_use[v]

\* compute_liveness() extends ranges over reads and the ends of blocks.
LEMMA RangesBegin ==
    ASSUME FnOK, BlocksOK, ComputeLiveness
    PROVE  RangesOK'
<1>1. /\ fn' = fn /\ blocks' = blocks /\ live_out' = live_out
      /\ last_use' = [v \in Vreg |-> LastUse(v)]
  BY DEF ComputeLiveness
<1>2. insns' = insns /\ Pos' = Pos /\ Block' = Block
  BY <1>1, StaticKept
<1>3. PICK n : n = Len(insns) /\ n \in Nat /\ Pos = 1 .. n
  BY DEF FnOK
<1>4. ASSUME NEW v \in Vreg, NEW i \in LivePositions(v) PROVE LastUse(v) \in Nat /\ i <= LastUse(v)
  <2>1. PICK S : S = LivePositions(v)
    OBVIOUS
  <2>2. S \subseteq 1 .. n
    <3>1. \A k \in Block : blocks[k].end - 1 \in 1 .. n /\ blocks[k].start \in 1 .. n
      BY <1>3, BlockFacts DEF BlockIs
    <3>2. QED
      BY <1>3, <2>1, <3>1 DEF LivePositions
  <2>3. S \subseteq 0 .. n /\ i \in S
    BY <1>3, <1>4, <2>1, <2>2
  <2>4. i <= Max(S) /\ Max(S) \in Nat
    BY ONLY <1>3, <2>3, MaxIs
  <2>5. Latest(S) = Max(S) /\ ~(Max(S) < 0)
    BY <2>3, <2>4 DEF Latest
  <2>6. LastUse(v) = Max(S)
    BY <2>1, <2>5 DEF LastUse
  <2>7. QED
    BY <2>4, <2>6
<1>5. ASSUME NEW v \in Vreg
      PROVE  /\ \A i \in Pos : v \in RangeUses(insns[i]) => last_use'[v] \in Nat /\ i <= last_use'[v]
             /\ \A k \in Block : v \in live_out[k] =>
                    last_use'[v] \in Nat /\ blocks[k].end - 1 <= last_use'[v]
  <2>1. last_use'[v] = LastUse(v)
    BY <1>1
  <2>2. \A i \in Pos : v \in RangeUses(insns[i]) => i \in LivePositions(v)
    BY DEF LivePositions
  <2>3. \A k \in Block : v \in live_out[k] => blocks[k].end - 1 \in LivePositions(v)
    BY DEF LivePositions
  <2>4. QED
    BY <1>4, <2>1, <2>2, <2>3
<1>6. QED
  BY <1>1, <1>2, <1>5 DEF RangesOK

\* They stay so.
LEMMA RangesRest ==
    ASSUME RangesOK, UNCHANGED <<fn, blocks, live_out, last_use>>
    PROVE  RangesOK'
<1>1. insns' = insns /\ Pos' = Pos /\ Block' = Block
  BY StaticKept
<1>2. QED
  BY <1>1 DEF RangesOK

\* So no read lies behind the range.
LEMMA RangesCover ==
    ASSUME FlowOK, RangesOK, pc = "done"
    PROVE  LastUseCovers
<1>1. FnOK /\ BlocksOK /\ \A k \in Block : live_out[k] = TrueOut(k)
  BY DEF FlowOK
<1>2. SUFFICES ASSUME NEW v \in Vreg, NEW i \in LiveAbove(v),
                      ~ \E j \in Pos : insns[j].op = "port" /\ insns[j].dst = v
               PROVE  i <= last_use[v]
  BY DEF LastUseCovers
<1>3. PICK L : L = LiveAbove(v) /\ LiveEqn(v, L, FALSE)
  BY <1>1, LiveAboveIs
<1>4. i \in Pos
  BY <1>2, <1>3 DEF LiveEqn
<1>5. PICK k \in Block : blocks[k].start <= i /\ i < blocks[k].end
  BY <1>1, <1>4 DEF BlocksOK
<1>6. /\ i \in blocks[k].start .. blocks[k].end - 1
      /\ i .. blocks[k].end - 1 \subseteq Pos
      /\ i \in Nat /\ blocks[k].end - 1 \in Nat /\ i <= blocks[k].end - 1
  <2>1. blocks[k].start \in Pos /\ blocks[k].end \in 2 .. Len(insns) + 1
    BY <1>1 DEF BlocksOK
  <2>2. Len(insns) \in Nat /\ Pos = 1 .. Len(insns)
    BY <1>1 DEF FnOK
  <2>3. QED
    BY <1>4, <1>5, <2>1, <2>2
<1>7. \/ UsedFrom(v, i, blocks[k].end - 1)
      \/ Follows(blocks[k].end - 1) \cap L # {}
  BY <1>1, <1>2, <1>3, <1>6, ThroughFrom
<1>8. CASE UsedFrom(v, i, blocks[k].end - 1)
  <2>1. PICK l \in i .. blocks[k].end - 1 : v \in Uses(insns[l])
    BY <1>8 DEF UsedFrom
  <2>2. l \in Pos /\ i <= l /\ l \in Nat
    BY <1>6
  <2>3. v \in RangeUses(insns[l])
    BY <1>2, <2>1, <2>2 DEF Uses, RangeUses, insn_reads_dst, insn_defines_dst
  <2>4. last_use[v] \in Nat /\ l <= last_use[v]
    BY <2>2, <2>3 DEF RangesOK
  <2>5. QED
    BY ONLY <1>6, <2>2, <2>4
<1>9. CASE Follows(blocks[k].end - 1) \cap L # {}
  <2>1. L \subseteq LiveBefore(v)
    BY <1>1, <1>3, AboveBefore
  <2>2. v \in TrueOut(k)
    BY <1>9, <2>1 DEF TrueOut
  <2>3. last_use[v] \in Nat /\ blocks[k].end - 1 <= last_use[v]
    BY <1>1, <2>2 DEF RangesOK
  <2>4. QED
    BY ONLY <1>6, <2>3
<1>10. QED
  BY <1>7, <1>8, <1>9

-----------------------------------------------------------------------------
(* The interference graph. *)

\* Above an instruction of block k: the live set, and the edges from the end of
\* the block on.
WalkStep(i, below) ==
    LET at == LiveAtDef(insns[i], below.live)
    IN  [live  |-> (at \ Defs(insns[i])) \cup
                   (IF insns[i].op = "copy" THEN insns[i].srcs ELSE {}),
         edges |-> below.edges \cup ResultEdges(insns[i], at)]
WalkEnd(k) == [live |-> live_out[k], edges |-> {}]
Walked(k, w) ==
    /\ w[blocks[k].end] = WalkEnd(k)
    /\ \A i \in blocks[k].start .. blocks[k].end - 1 : w[i] = WalkStep(i, w[i + 1])

Swept == [live : SUBSET Vreg, edges : SUBSET SUBSET Vreg]

\* The results in order are what the instruction defines.
LEMMA ResultsAre ==
    ASSUME FnOK, NEW i \in Pos
    PROVE  /\ Results(insns[i]) \in Seq(Vreg)
           /\ ToSet(Results(insns[i])) = Defs(insns[i])
<1>1. /\ insns[i].dst \in Vreg \cup {NoVreg} /\ insns[i].rets \in Seq(Vreg)
  BY InsnsAre DEF Insn
<1>2. PICK s : s = IF insn_defines_dst(insns[i]) THEN <<insns[i].dst>> ELSE << >>
  OBVIOUS
<1>3. PICK t : t = IF insns[i].op = "mcall" THEN insns[i].rets ELSE << >>
  OBVIOUS
<1>4. s \in Seq(Vreg) /\ ToSet(s) = (IF insn_defines_dst(insns[i]) THEN {insns[i].dst} ELSE {})
  <2>1. CASE insn_defines_dst(insns[i])
    <3>1. insns[i].dst \in Vreg
      BY <1>1, <2>1 DEF insn_defines_dst
    <3>2. s = <<insns[i].dst>>
      BY <1>2, <2>1
    <3>3. s \in Seq(Vreg) /\ Len(s) = 1 /\ s[1] = insns[i].dst
      BY <3>1, <3>2
    <3>4. ToSet(s) = {insns[i].dst}
      BY <3>2, <3>3 DEF ToSet
    <3>5. QED
      BY <2>1, <3>3, <3>4
  <2>2. CASE ~insn_defines_dst(insns[i])
    <3>1. s = << >>
      BY <1>2, <2>2
    <3>2. s \in Seq(Vreg) /\ ToSet(s) = {}
      BY <3>1 DEF ToSet
    <3>3. QED
      BY <2>2, <3>2
  <2>3. QED
    BY <2>1, <2>2
<1>5. t \in Seq(Vreg) /\ ToSet(t) = (IF insns[i].op = "mcall" THEN ToSet(insns[i].rets) ELSE {})
  <2>1. << >> \in Seq(Vreg) /\ ToSet(<< >>) = {}
    BY DEF ToSet
  <2>2. QED
    BY <1>1, <1>3, <2>1
<1>6. s \o t \in Seq(Vreg) /\ ToSet(s \o t) = ToSet(s) \cup ToSet(t)
  <2>1. /\ s \o t \in Seq(Vreg) /\ Len(s \o t) = Len(s) + Len(t)
        /\ \A j \in 1 .. Len(s) + Len(t) :
              (s \o t)[j] = IF j <= Len(s) THEN s[j] ELSE t[j - Len(s)]
    BY <1>4, <1>5
  <2>2. Len(s) \in Nat /\ Len(t) \in Nat /\ DOMAIN s = 1 .. Len(s) /\ DOMAIN t = 1 .. Len(t)
        /\ DOMAIN (s \o t) = 1 .. Len(s) + Len(t)
    BY <1>4, <1>5, <2>1
  <2>3. ASSUME NEW j \in 1 .. Len(s) PROVE j \in 1 .. Len(s) + Len(t) /\ (s \o t)[j] = s[j]
    BY <2>1, <2>2
  <2>4. ASSUME NEW j \in 1 .. Len(t)
        PROVE  j + Len(s) \in 1 .. Len(s) + Len(t) /\ (s \o t)[j + Len(s)] = t[j]
    <3>1. j + Len(s) \in 1 .. Len(s) + Len(t) /\ ~(j + Len(s) <= Len(s)) /\ j + Len(s) - Len(s) = j
      BY <2>2
    <3>2. QED
      BY <2>1, <3>1
  <2>5. ASSUME NEW j \in 1 .. Len(s) + Len(t)
        PROVE  (s \o t)[j] \in ToSet(s) \cup ToSet(t)
    <3>1. CASE j <= Len(s)
      <4>1. j \in 1 .. Len(s)
        BY <2>2, <3>1
      <4>2. QED
        BY <2>1, <2>2, <3>1, <4>1 DEF ToSet
    <3>2. CASE ~(j <= Len(s))
      <4>1. j - Len(s) \in 1 .. Len(t)
        BY <2>2, <3>2
      <4>2. QED
        BY <2>1, <2>2, <3>2, <4>1 DEF ToSet
    <3>3. QED
      BY <3>1, <3>2
  <2>6. ToSet(s \o t) = {(s \o t)[j] : j \in 1 .. Len(s) + Len(t)}
    BY <2>2 DEF ToSet
  <2>7. ToSet(s) = {s[j] : j \in 1 .. Len(s)} /\ ToSet(t) = {t[j] : j \in 1 .. Len(t)}
    BY <2>2 DEF ToSet
  <2>8. ToSet(s) \cup ToSet(t) \subseteq ToSet(s \o t)
    BY <2>3, <2>4, <2>6, <2>7
  <2>9. ToSet(s \o t) \subseteq ToSet(s) \cup ToSet(t)
    BY <2>5, <2>6
  <2>10. QED
    BY <2>1, <2>8, <2>9
<1>7. Results(insns[i]) = s \o t
  BY <1>2, <1>3 DEF Results
<1>8. Defs(insns[i]) = ToSet(s) \cup ToSet(t)
  BY <1>4, <1>5 DEF Defs
<1>9. QED
  BY <1>6, <1>7, <1>8

\* Walking past an instruction keeps the types.
LEMMA WalkStepIs ==
    ASSUME FnOK, NEW i \in Pos, NEW below \in Swept
    PROVE  WalkStep(i, below) \in Swept
<1>1. PICK at : at = LiveAtDef(insns[i], below.live)
  OBVIOUS
<1>2. /\ Uses(insns[i]) \subseteq Vreg /\ Defs(insns[i]) \subseteq Vreg
      /\ insns[i].srcs \subseteq Vreg
  BY InsnsAre DEF Insn
<1>3. below.live \subseteq Vreg /\ below.edges \in SUBSET SUBSET Vreg
  BY DEF Swept
<1>4. at \subseteq Vreg
  BY <1>1, <1>2, <1>3 DEF LiveAtDef
<1>5. ResultEdges(insns[i], at) \in SUBSET SUBSET Vreg
  <2>1. PICK rs : rs = Results(insns[i]) /\ rs \in Seq(Vreg)
    BY ResultsAre
  <2>2. \A j \in DOMAIN rs : rs[j] \in Vreg
    BY <2>1
  <2>3. \A j \in DOMAIN rs : \A L : L \subseteq Vreg => Edges(rs[j], L) \in SUBSET SUBSET Vreg
    BY <2>2 DEF Edges
  <2>4. \A j \in DOMAIN rs : Edges(rs[j], at \ {rs[l] : l \in 1 .. j - 1}) \in SUBSET SUBSET Vreg
    <3>1. \A j \in DOMAIN rs : at \ {rs[l] : l \in 1 .. j - 1} \subseteq Vreg
      BY <1>4
    <3>2. QED
      BY <2>3, <3>1
  <2> DEFINE E(j) == Edges(rs[j], at \ {rs[l] : l \in 1 .. j - 1})
  <2>5. ResultEdges(insns[i], at) = UNION {E(j) : j \in DOMAIN rs}
    BY <2>1 DEF ResultEdges
  <2>6. \A j \in DOMAIN rs : E(j) \subseteq SUBSET Vreg
    BY <2>4
  <2> HIDE DEF E
  <2>7. UNION {E(j) : j \in DOMAIN rs} \subseteq SUBSET Vreg
    BY ONLY <2>6
  <2>8. QED
    BY <2>5, <2>7
<1>6. PICK live, edges :
          /\ live = (at \ Defs(insns[i])) \cup (IF insns[i].op = "copy" THEN insns[i].srcs ELSE {})
          /\ edges = below.edges \cup ResultEdges(insns[i], at)
  OBVIOUS
<1>7. WalkStep(i, below) = [live |-> live, edges |-> edges]
  BY <1>1, <1>6 DEF WalkStep
<1>8. live \subseteq Vreg /\ edges \in SUBSET SUBSET Vreg
  <2>1. live \subseteq Vreg
    BY <1>2, <1>4, <1>6
  <2>2. edges \in SUBSET SUBSET Vreg
    BY <1>3, <1>5, <1>6
  <2>3. QED
    BY <2>1, <2>2
<1>9. QED
  BY <1>7, <1>8 DEF Swept

\* Walk follows the instructions of the block from the last to the first.
LEMMA WalkIs ==
    ASSUME FnOK, BlocksOK, live_out \in [Block -> SUBSET Vreg], NEW k \in Block
    PROVE  \E w : /\ Walked(k, w) /\ Walk(k) = w[blocks[k].start]
<1>1. PICK s, e : s = blocks[k].start /\ e = blocks[k].end
  OBVIOUS
<1>2. /\ s \in Nat /\ e \in Nat /\ s < e /\ e \in s .. e /\ s \in s .. e
      /\ \A i \in s .. e : i # e => i \in Pos /\ i \in s .. e - 1 /\ i + 1 \in s .. e
      /\ \A i \in s .. e - 1 : i # e /\ i \in s .. e
  <2>1. s \in Pos /\ e \in 2 .. Len(insns) + 1 /\ s < e
    BY <1>1 DEF BlocksOK
  <2>2. Len(insns) \in Nat /\ Pos = 1 .. Len(insns)
    BY DEF FnOK
  <2>3. QED
    BY <2>1, <2>2
<1> DEFINE Eqn(w) == w = [i \in s .. e |-> IF i = e THEN WalkEnd(k) ELSE WalkStep(i, w[i + 1])]
<1>3. \E w : Eqn(w)
  <2>1. PICK S, a, nx :
            /\ S = Swept /\ a = WalkEnd(k)
            /\ nx = [y \in Nat \X S |-> IF e - y[1] \in Pos THEN WalkStep(e - y[1], y[2]) ELSE y[2]]
    OBVIOUS
  <2>2. a \in S
    <3>1. live_out[k] \subseteq Vreg /\ {} \in SUBSET SUBSET Vreg
      OBVIOUS
    <3>2. QED
      BY <2>1, <3>1 DEF WalkEnd, Swept
  <2>3. \A n \in Nat, x \in S :
           nx[<<n, x>>] = IF e - n \in Pos THEN WalkStep(e - n, x) ELSE x
    BY <2>1
  <2>4. \A n \in Nat, x \in S : nx[<<n, x>>] \in S
    BY <2>1, <2>3, WalkStepIs
  <2>5. PICK f : Iteration(f, S, a, nx)
    BY ONLY <2>2, <2>4, StepsIterate
  <2>6. f[0] = a /\ \A n \in Nat : f[n] \in S /\ f[n + 1] = nx[<<n + 1, f[n]>>]
    BY <2>5 DEF Iteration
  <2>7. PICK w : w = [i \in s .. e |-> f[e - i]]
    OBVIOUS
  <2>8. w[e] = WalkEnd(k)
    <3>1. e - e = 0
      BY <1>2
    <3>2. QED
      BY <1>2, <2>1, <2>6, <2>7, <3>1
  <2>9. ASSUME NEW i \in s .. e, i # e PROVE w[i] = WalkStep(i, w[i + 1])
    <3>1. PICK n \in Nat : n = e - (i + 1) /\ n + 1 = e - i /\ e - (n + 1) = i
      <4>1. e - (i + 1) \in Nat /\ e - (i + 1) + 1 = e - i /\ e - (e - (i + 1) + 1) = i
        BY <1>2, <2>9
      <4>2. QED
        BY <4>1
    <3>2. f[n + 1] = WalkStep(i, f[n])
      <4>1. i \in Pos /\ n + 1 \in Nat /\ f[n] \in S
        <5>1. i \in Pos
          BY <1>2, <2>9
        <5>2. n + 1 \in Nat
          BY ONLY n \in Nat
        <5>3. f[n] \in S
          BY <2>6
        <5>4. QED
          BY <5>1, <5>2, <5>3
      <4>2. nx[<<n + 1, f[n]>>] = WalkStep(i, f[n])
        BY <2>3, <3>1, <4>1
      <4>3. QED
        BY <2>6, <4>2
    <3>3. w[i + 1] = f[n] /\ w[i] = f[n + 1]
      BY <1>2, <2>7, <2>9, <3>1
    <3>4. QED
      BY <3>2, <3>3
  <2>10. w = [i \in s .. e |-> IF i = e THEN WalkEnd(k) ELSE WalkStep(i, w[i + 1])]
    <3>1. w = [i \in s .. e |-> w[i]]
      BY <2>7
    <3>2. \A i \in s .. e : w[i] = IF i = e THEN WalkEnd(k) ELSE WalkStep(i, w[i + 1])
      BY <2>8, <2>9
    <3>3. QED
      BY <3>1, <3>2
  <2>11. QED
    BY <2>10
<1>4. Walk(k) = (CHOOSE w : Eqn(w))[s]
  BY <1>1 DEF Walk, WalkEnd, WalkStep
<1>5. PICK w : Eqn(w) /\ Walk(k) = w[s]
  <2> HIDE DEF Eqn
  <2>1. QED
    BY <1>3, <1>4
<1>6. w[e] = WalkEnd(k) /\ \A i \in s .. e - 1 : w[i] = WalkStep(i, w[i + 1])
  BY <1>2, <1>5
<1>7. QED
  BY <1>1, <1>5, <1>6 DEF Walked

\* No instruction updates a vreg in place: what it defines it does not read,
\* unless it is a copy.
NoUpdates ==
    \A i \in Pos : insns[i].op # "copy" => Defs(insns[i]) \cap Uses(insns[i]) = {}

\* v is live above position i of block k, or at its end.
LiveFrom(v, i, k) ==
    \/ UsedFrom(v, i, blocks[k].end - 1)
    \/ ~DefinedIn(v, i, blocks[k].end - 1) /\ v \in live_out[k]

\* Without updates the walk has all that is live.
LEMMA WalkLive ==
    ASSUME FnOK, BlocksOK, NoUpdates, NEW k \in Block, NEW w, Walked(k, w),
           NEW i \in blocks[k].start .. blocks[k].end, NEW v, LiveFrom(v, i, k)
    PROVE  v \in w[i].live
<1>1. PICK s, e : s = blocks[k].start /\ e = blocks[k].end
  OBVIOUS
<1>2. /\ s \in Nat /\ e \in Nat /\ s < e /\ s .. e - 1 \subseteq Pos
  <2>1. s \in Pos /\ e \in 2 .. Len(insns) + 1 /\ s < e
    BY <1>1 DEF BlocksOK
  <2>2. Len(insns) \in Nat /\ Pos = 1 .. Len(insns)
    BY DEF FnOK
  <2>3. QED
    BY <2>1, <2>2
<1> DEFINE Good(j) == LiveFrom(v, j, k) => v \in w[j].live
           Bad == {e - j : j \in {l \in s .. e : ~Good(l)}}
<1>3. SUFFICES ASSUME Bad # {} PROVE FALSE
  <2>1. i \in s .. e
    BY <1>1
  <2>2. ~Good(i) => e - i \in Bad
    BY <2>1
  <2>3. QED
    BY <2>2
<1>4. PICK n \in Bad : \A m \in Bad : n <= m
  <2>1. Bad \subseteq Nat
    <3>1. \A j \in s .. e : e - j \in Nat
      BY <1>2
    <3>2. QED
      BY <3>1
  <2> HIDE DEF Bad
  <2>2. QED
    BY ONLY <1>3, <2>1, SmallestElement
<1>5. PICK j \in s .. e : n = e - j /\ ~Good(j)
  OBVIOUS
<1>6. LiveFrom(v, j, k) /\ v \notin w[j].live
  BY <1>5
<1>7. j # e
  <2>1. ASSUME j = e PROVE FALSE
    <3>1. e .. e - 1 = {}
      BY <1>2
    <3>2. v \in live_out[k]
      BY <1>1, <1>6, <2>1, <3>1 DEF LiveFrom, UsedFrom
    <3>3. w[e].live = live_out[k]
      BY <1>1 DEF Walked, WalkEnd
    <3>4. QED
      BY <1>6, <2>1, <3>2, <3>3
  <2>2. QED
    BY <2>1
<1>8. j \in s .. e - 1 /\ j \in Pos /\ j + 1 \in s .. e /\ e - (j + 1) < e - j /\ j \in Nat
      /\ e - (j + 1) \in Nat /\ e - j \in Nat
  BY <1>2, <1>7
<1>9. Good(j + 1)
  <2>1. ~Good(j + 1) => e - (j + 1) \in Bad
    BY <1>8
  <2>2. QED
    BY <1>4, <1>5, <1>8, <2>1
<1>10. w[j].live = (LiveAtDef(insns[j], w[j + 1].live) \ Defs(insns[j])) \cup
                   (IF insns[j].op = "copy" THEN insns[j].srcs ELSE {})
  <2>1. w[j] = WalkStep(j, w[j + 1])
    BY <1>1, <1>8 DEF Walked
  <2>2. QED
    BY <2>1 DEF WalkStep
<1>11. CASE v \in Uses(insns[j])
  <2>1. CASE insns[j].op = "copy"
    <3>1. v \in insns[j].srcs
      BY <1>11, <2>1 DEF Uses, insn_reads_dst, insn_defines_dst
    <3>2. QED
      BY <1>6, <1>10, <2>1, <3>1
  <2>2. CASE insns[j].op # "copy"
    <3>1. v \notin Defs(insns[j])
      BY <1>8, <1>11, <2>2 DEF NoUpdates
    <3>2. v \in LiveAtDef(insns[j], w[j + 1].live)
      BY <1>11, <2>2 DEF LiveAtDef
    <3>3. QED
      BY <1>6, <1>10, <3>1, <3>2
  <2>3. QED
    BY <2>1, <2>2
<1>12. CASE v \notin Uses(insns[j])
  <2>1. v \notin Defs(insns[j]) /\ LiveFrom(v, j + 1, k)
    <3>1. \A l \in j .. e - 1 : l = j \/ l \in j + 1 .. e - 1
      BY <1>2, <1>8
    <3>2. CASE UsedFrom(v, j, e - 1)
      <4>1. PICK l \in j .. e - 1 : v \in Uses(insns[l]) /\ \A m \in j .. l - 1 : v \notin Defs(insns[m])
        BY <3>2 DEF UsedFrom
      <4>2. l # j /\ l \in j + 1 .. e - 1 /\ j \in j .. l - 1
            /\ \A m \in j + 1 .. l - 1 : m \in j .. l - 1
        <5>1. l # j
          BY <1>12, <4>1
        <5>2. QED
          BY <1>2, <1>8, <5>1
      <4>3. UsedFrom(v, j + 1, e - 1)
        BY <4>1, <4>2 DEF UsedFrom
      <4>4. QED
        BY <1>1, <4>1, <4>2, <4>3 DEF LiveFrom
    <3>3. CASE ~UsedFrom(v, j, e - 1)
      <4>1. ~DefinedIn(v, j, e - 1) /\ v \in live_out[k]
        BY <1>1, <1>6, <3>3 DEF LiveFrom
      <4>2. j \in j .. e - 1 /\ \A l \in j + 1 .. e - 1 : l \in j .. e - 1
        BY <1>2, <1>8
      <4>3. v \notin Defs(insns[j]) /\ ~DefinedIn(v, j + 1, e - 1)
        BY <4>1, <4>2 DEF DefinedIn
      <4>4. QED
        BY <1>1, <4>1, <4>3 DEF LiveFrom
    <3>4. QED
      BY <3>2, <3>3
  <2>2. v \in LiveAtDef(insns[j], w[j + 1].live)
    BY <1>9, <2>1 DEF LiveAtDef
  <2>3. QED
    BY <1>6, <1>10, <2>1, <2>2
<1>13. QED
  BY <1>11, <1>12

\* The walk collects the edges of every instruction.
LEMMA WalkEdges ==
    ASSUME FnOK, BlocksOK, NEW k \in Block, NEW w, Walked(k, w),
           NEW i \in blocks[k].start .. blocks[k].end - 1
    PROVE  ResultEdges(insns[i], LiveAtDef(insns[i], w[i + 1].live)) \subseteq w[blocks[k].start].edges
<1>1. PICK s, e : s = blocks[k].start /\ e = blocks[k].end
  OBVIOUS
<1>2. s \in Nat /\ e \in Nat /\ s < e
  <2>1. s \in Pos /\ e \in 2 .. Len(insns) + 1 /\ s < e
    BY <1>1 DEF BlocksOK
  <2>2. Len(insns) \in Nat /\ Pos = 1 .. Len(insns)
    BY DEF FnOK
  <2>3. QED
    BY <2>1, <2>2
<1>3. \A j \in s .. e - 1 :
         w[j].edges = w[j + 1].edges \cup
                      ResultEdges(insns[j], LiveAtDef(insns[j], w[j + 1].live))
  <2>1. ASSUME NEW j \in s .. e - 1
        PROVE  w[j].edges = w[j + 1].edges \cup
                            ResultEdges(insns[j], LiveAtDef(insns[j], w[j + 1].live))
    <3>1. w[j] = WalkStep(j, w[j + 1])
      BY <1>1, <2>1 DEF Walked
    <3>2. QED
      BY <3>1 DEF WalkStep
  <2>2. QED
    BY <2>1
<1> DEFINE Bad == {j \in s .. e - 1 : ~(w[j].edges \subseteq w[s].edges)}
<1>4. Bad = {}
  <2>1. SUFFICES ASSUME Bad # {} PROVE FALSE
    OBVIOUS
  <2>2. PICK n \in Bad : \A m \in Bad : n <= m
    <3>1. Bad \subseteq Nat
      BY <1>2
    <3> HIDE DEF Bad
    <3>2. QED
      BY ONLY <2>1, <3>1, SmallestElement
  <2>3. n # s /\ n \in s .. e - 1
    OBVIOUS
  <2>4. PICK m : m = n - 1 /\ m + 1 = n /\ m \in s .. e - 1 /\ ~(n <= m)
    BY <1>2, <2>3
  <2>5. w[m].edges \subseteq w[s].edges
    BY <2>2, <2>4
  <2>6. w[n].edges \subseteq w[m].edges
    BY <1>3, <2>4
  <2>7. QED
    BY <2>2, <2>5, <2>6
<1>5. w[i].edges \subseteq w[s].edges /\ i \in s .. e - 1
  BY <1>1, <1>4
<1>6. QED
  BY <1>1, <1>3, <1>5

\* An instruction joins its result d with v: v is in the live set, and if v is
\* a result too then d is.
LEMMA EdgeFound ==
    ASSUME FnOK, NEW i \in Pos, NEW at, NEW v \in at, NEW d \in Defs(insns[i]), d # v,
           d \in at \/ v \notin Defs(insns[i])
    PROVE  {d, v} \in ResultEdges(insns[i], at)
<1>1. PICK rs, n : rs = Results(insns[i]) /\ n = Len(rs)
  OBVIOUS
<1>2. /\ rs \in Seq(Vreg) /\ ToSet(rs) = Defs(insns[i])
      /\ n \in Nat /\ DOMAIN rs = 1 .. n
  BY <1>1, ResultsAre
<1>3. \A j \in 1 .. n : rs[j] \in Defs(insns[i])
  BY <1>2 DEF ToSet
<1> DEFINE J == {j \in 1 .. n : rs[j] \in {d, v}}
<1>4. J \subseteq Nat /\ J # {}
  <2>1. \E j \in 1 .. n : rs[j] = d
    BY <1>2 DEF ToSet
  <2>2. QED
    BY <2>1
<1>5. PICK j \in J : \A m \in J : j <= m
  <2> HIDE DEF J
  <2>1. QED
    BY ONLY <1>4, SmallestElement
<1>6. PICK x, y : x = rs[j] /\ {x, y} = {d, v} /\ x # y
  OBVIOUS
<1>7. y \in at
  <2>1. CASE x = d
    BY <1>6, <2>1
  <2>2. CASE x = v
    <3>1. v \in Defs(insns[i]) /\ y = d
      BY <1>3, <1>6, <2>2
    <3>2. QED
      BY <3>1
  <2>3. QED
    BY <1>6, <2>1, <2>2
<1>8. y \notin {rs[l] : l \in 1 .. j - 1}
  <2>1. ASSUME NEW l \in 1 .. j - 1, y = rs[l] PROVE FALSE
    <3>1. l \in 1 .. n /\ ~(j <= l)
      BY <1>2
    <3>2. l \in J
      BY <1>6, <2>1, <3>1
    <3>3. QED
      BY <1>5, <3>1, <3>2
  <2>2. QED
    BY <2>1
<1>9. {x, y} \in Edges(x, at \ {rs[l] : l \in 1 .. j - 1})
  BY <1>6, <1>7, <1>8 DEF Edges
<1>10. j \in DOMAIN rs
  BY <1>2
<1>11. {x, y} \in ResultEdges(insns[i], at)
  <2> DEFINE E(l) == Edges(rs[l], at \ {rs[m] : m \in 1 .. l - 1})
  <2>1. ResultEdges(insns[i], at) = UNION {E(l) : l \in DOMAIN rs}
    BY <1>1 DEF ResultEdges
  <2>2. {x, y} \in E(j)
    BY <1>6, <1>9
  <2> HIDE DEF E
  <2>3. QED
    BY <1>10, <2>1, <2>2
<1>12. QED
  BY <1>6, <1>11

\* What is live after an instruction of block k is live above the next one.
LEMMA AfterIs ==
    ASSUME FlowOK, pc # "flow", NEW k \in Block, NEW i \in blocks[k].start .. blocks[k].end - 1,
           NEW v \in Vreg, i \in LiveAfter(v)
    PROVE  LiveFrom(v, i + 1, k)
<1>1. FnOK /\ BlocksOK /\ live_out[k] = TrueOut(k)
  BY DEF FlowOK
<1>2. PICK e : e = blocks[k].end - 1
  OBVIOUS
<1>3. /\ e \in Nat /\ i \in Nat /\ i <= e
      /\ blocks[k].start \in Nat /\ blocks[k].start <= i
      /\ i # e => i \in blocks[k].start .. blocks[k].end - 2 /\ i + 1 \in blocks[k].start .. e
  <2>1. blocks[k].start \in Pos /\ blocks[k].end \in 2 .. Len(insns) + 1
    BY <1>1 DEF BlocksOK
  <2>2. Len(insns) \in Nat /\ Pos = 1 .. Len(insns)
    BY <1>1 DEF FnOK
  <2>3. QED
    BY <1>2, <2>1, <2>2
<1>4. PICK L : L = LiveAbove(v) /\ LiveEqn(v, L, FALSE)
  BY <1>1, LiveAboveIs
<1>5. Follows(i) \cap L # {}
  BY <1>4 DEF LiveAfter
<1>6. Follows(e) \cap L # {} => v \in live_out[k]
  <2>1. L \subseteq LiveBefore(v)
    BY <1>1, <1>4, AboveBefore
  <2>2. QED
    BY <1>1, <1>2, <2>1 DEF TrueOut
<1>7. CASE i = e
  <2>1. i + 1 .. e = {}
    BY <1>3, <1>7
  <2>2. ~DefinedIn(v, i + 1, e)
    BY <2>1 DEF DefinedIn
  <2>3. QED
    BY <1>2, <1>5, <1>6, <1>7, <2>2 DEF LiveFrom
<1>8. CASE i # e
  <2>1. i + 1 \in L
    <3>1. Follows(i) = {i + 1}
      BY <1>1, <1>3, <1>8 DEF BlocksOK, ControlOK
    <3>2. QED
      BY <1>5, <3>1
  <2>2. PICK j : j = i + 1 /\ j \in blocks[k].start .. blocks[k].end - 1
    BY <1>2, <1>3, <1>8
  <2>3. \/ UsedFrom(v, j, blocks[k].end - 1)
        \/ ~DefinedIn(v, j, blocks[k].end - 1) /\ Follows(blocks[k].end - 1) \cap L # {}
    BY <1>1, <1>4, <2>1, <2>2, ThroughFrom
  <2>4. QED
    BY <1>2, <1>6, <2>2, <2>3 DEF LiveFrom
<1>9. QED
  BY <1>7, <1>8

\* The graph G has the edges of block k that InterferenceComplete speaks of.
Joined(k, G) ==
    /\ \A i \in blocks[k].start .. blocks[k].end - 1 : \A v \in Vreg :
          \A d \in Defs(insns[i]) \ {v} :
             i \in LiveAfter(v) /\ (i \in LiveAfter(d) \/ v \notin Defs(insns[i]))
             => d \in G[v] /\ v \in G[d]
    /\ k = 1 => \A p, q \in {v \in fn.params : 1 \in LiveAbove(v)} : p = q \/ q \in G[p]

\* build_igraph() joins what is live together in the block at hand.
LEMMA BlockJoins ==
    ASSUME FlowOK, NoUpdates, InterfereBlock, b \in Block
    PROVE  Joined(b, igraph')
<1>1. FnOK /\ BlocksOK /\ live_out \in [Block -> SUBSET Vreg] /\ pc # "flow"
  BY DEF FlowOK, InterfereBlock
<1>2. PICK k : k = b /\ k \in Block
  OBVIOUS
<1>3. PICK w : Walked(k, w) /\ Walk(k) = w[blocks[k].start]
  BY <1>1, <1>2, WalkIs
<1>4. PICK top : top = w[blocks[k].start]
  OBVIOUS
<1>5. igraph' = [v \in Vreg |->
                   igraph[v] \cup {x \in Vreg \ {v} : {v, x} \in top.edges \cup AllPairs(top.live)}]
  BY <1>2, <1>3, <1>4 DEF InterfereBlock
<1>6. \A v, x \in Vreg : v # x /\ {v, x} \in top.edges \cup AllPairs(top.live) => x \in igraph'[v]
  BY <1>5
<1>7. /\ blocks[k].start \in Nat /\ blocks[k].end \in Nat /\ blocks[k].start < blocks[k].end
      /\ blocks[k].start \in Pos /\ blocks[k].start .. blocks[k].end - 1 \subseteq Pos
      /\ \A i \in blocks[k].start .. blocks[k].end - 1 : i + 1 \in blocks[k].start .. blocks[k].end
  <2>1. /\ blocks[k].start \in Pos /\ blocks[k].end \in 2 .. Len(insns) + 1
        /\ blocks[k].start < blocks[k].end
    BY <1>1, <1>2 DEF BlocksOK
  <2>2. Len(insns) \in Nat /\ Pos = 1 .. Len(insns)
    BY <1>1 DEF FnOK
  <2>3. QED
    BY <2>1, <2>2
<1>8. ASSUME NEW i \in blocks[k].start .. blocks[k].end - 1, NEW v \in Vreg,
             NEW d \in Defs(insns[i]) \ {v}, i \in LiveAfter(v),
             i \in LiveAfter(d) \/ v \notin Defs(insns[i])
      PROVE  d \in igraph'[v] /\ v \in igraph'[d]
  <2>1. i \in Pos /\ i + 1 \in blocks[k].start .. blocks[k].end
    BY <1>7
  <2>2. d \in Vreg
    BY <1>1, <2>1, InsnsAre
  <2>3. PICK live, at : live = w[i + 1].live /\ at = LiveAtDef(insns[i], live)
    OBVIOUS
  <2>4. \A x \in Vreg : i \in LiveAfter(x) => x \in live
    <3>1. SUFFICES ASSUME NEW x \in Vreg, i \in LiveAfter(x) PROVE x \in live
      OBVIOUS
    <3>2. LiveFrom(x, i + 1, k)
      BY <1>1, <1>2, <3>1, AfterIs
    <3>3. PICK j : j = i + 1 /\ j \in blocks[k].start .. blocks[k].end
      BY <2>1
    <3>4. x \in w[j].live
      BY <1>1, <1>2, <1>3, <3>2, <3>3, WalkLive
    <3>5. QED
      BY <2>3, <3>3, <3>4
  <2>5. live \subseteq at
    BY <2>3 DEF LiveAtDef
  <2>6. v \in at /\ (d \in at \/ v \notin Defs(insns[i]))
    BY <1>8, <2>2, <2>4, <2>5
  <2>7. {d, v} \in ResultEdges(insns[i], at)
    BY <1>1, <2>1, <2>6, EdgeFound
  <2>8. ResultEdges(insns[i], at) \subseteq top.edges
    BY <1>1, <1>2, <1>3, <1>4, <2>3, WalkEdges
  <2>9. {d, v} \in top.edges /\ {v, d} \in top.edges
    <3>1. {d, v} = {v, d}
      OBVIOUS
    <3>2. QED
      BY <2>7, <2>8, <3>1
  <2>10. QED
    BY <1>6, <2>2, <2>9
<1>9. ASSUME k = 1, NEW p \in fn.params, NEW q \in fn.params, 1 \in LiveAbove(p),
             1 \in LiveAbove(q), p # q
      PROVE  q \in igraph'[p]
  <2>1. p \in Vreg /\ q \in Vreg
    BY <1>1 DEF FnOK
  <2>2. blocks[k].start = 1 /\ 1 \in blocks[k].start .. blocks[k].end - 1
        /\ 1 \in blocks[k].start .. blocks[k].end
    <3>1. blocks[k].start = 1
      BY <1>1, <1>9 DEF BlocksOK
    <3>2. QED
      BY <1>7, <3>1
  <2>3. \A x \in Vreg : 1 \in LiveAbove(x) => x \in top.live
    <3>1. SUFFICES ASSUME NEW x \in Vreg, 1 \in LiveAbove(x) PROVE x \in top.live
      OBVIOUS
    <3>2. PICK L : L = LiveAbove(x) /\ LiveEqn(x, L, FALSE)
      BY <1>1, LiveAboveIs
    <3>3. \/ UsedFrom(x, 1, blocks[k].end - 1)
          \/ ~DefinedIn(x, 1, blocks[k].end - 1) /\ Follows(blocks[k].end - 1) \cap L # {}
      BY <1>1, <1>2, <2>2, <3>1, <3>2, ThroughFrom
    <3>4. Follows(blocks[k].end - 1) \cap L # {} => x \in live_out[k]
      <4>1. L \subseteq LiveBefore(x)
        BY <1>1, <3>2, AboveBefore
      <4>2. live_out[k] = TrueOut(k)
        BY <1>1, <1>2 DEF FlowOK
      <4>3. QED
        BY <4>1, <4>2 DEF TrueOut
    <3>5. LiveFrom(x, 1, k)
      BY <3>3, <3>4 DEF LiveFrom
    <3>6. x \in w[1].live
      BY <1>1, <1>2, <1>3, <2>2, <3>5, WalkLive
    <3>7. QED
      BY <1>4, <2>2, <3>6
  <2>4. {p, q} \in AllPairs(top.live)
    <3>1. p \in top.live /\ q \in top.live
      BY <1>9, <2>1, <2>3
    <3>2. {p, q} \in Edges(p, top.live)
      BY <1>9, <3>1 DEF Edges
    <3>3. QED
      BY <3>1, <3>2 DEF AllPairs
  <2>5. QED
    BY <1>6, <1>9, <2>1, <2>4
<1>10. QED
  BY <1>2, <1>8, <1>9 DEF Joined

-----------------------------------------------------------------------------
(* The analysis as a whole, and the steps that follow it. *)

Early == {"flow", "ranges", "igraph"}

\* The inductive invariant.
AnalysisOK ==
    /\ FlowOK
    /\ pc \notin {"flow", "ranges"} => RangesOK
    /\ pc = "igraph" => b \in 1 .. NBlocks + 1
    /\ NoUpdates /\ pc \notin {"flow", "ranges"} =>
          \A k \in Block : (pc = "igraph" => k < b) => Joined(k, igraph)

\* Planning and running the function leave the analysis alone.
LEMMA CacheStep ==
    ASSUME [CacheNext]_cacheVars
    PROVE  \/ FlowBlock \/ NextSweep \/ EndFlow \/ ComputeLiveness
           \/ InterfereBlock \/ EndIgraph
           \/ UNCHANGED flowVars /\ (pc' = pc \/ (pc \notin Early /\ pc' \notin Early))
<1>1. CASE Analyse
  BY <1>1 DEF Analyse
<1>2. CASE Allocate
  BY <1>2 DEF Allocate, Early
<1>3. CASE PlanPair
  BY <1>3 DEF PlanPair
<1>4. CASE EndPairs
  BY <1>4 DEF EndPairs, Early
<1>5. CASE PlanVreg
  BY <1>5 DEF PlanVreg
<1>6. CASE EndPlan
  BY <1>6 DEF EndPlan, Early
<1>7. CASE RunInsn
  BY <1>7 DEF RunInsn
<1>8. CASE Leave
  BY <1>8 DEF Leave, Early
<1>9. CASE Stop \/ UNCHANGED cacheVars
  BY <1>9 DEF Stop, cacheVars, vars, flowVars
<1>10. QED
  BY <1>1, <1>2, <1>3, <1>4, <1>5, <1>6, <1>7, <1>8, <1>9 DEF CacheNext

\* The function does not change.
LEMMA NoUpdatesKept ==
    ASSUME fn' = fn
    PROVE  NoUpdates' = NoUpdates
BY DEF NoUpdates, Pos, insns

\* What a block asks of a graph is the same after a step that leaves the
\* function and its blocks alone.
LEMMA JoinedLater ==
    ASSUME FnOK, BlocksOK, fn' = fn, blocks' = blocks,
           NEW k \in Block, Joined(k, igraph')
    PROVE  Joined(k, igraph)'
<1>1. /\ insns' = insns /\ Pos' = Pos /\ \A i : Follows(i)' = Follows(i)
      /\ fn.params' = fn.params
      /\ \A v \in Vreg : LiveAbove(v)' = LiveAbove(v)
  BY StaticKept
<1>2. \A v \in Vreg : LiveAfter(v)' = LiveAfter(v)
  BY <1>1 DEF LiveAfter
<1>3. \A i \in blocks[k].start .. blocks[k].end - 1 : Defs(insns[i]) \subseteq Vreg
  <2>1. blocks[k].start \in Pos /\ blocks[k].end \in 2 .. Len(insns) + 1
    BY DEF BlocksOK
  <2>2. Len(insns) \in Nat /\ Pos = 1 .. Len(insns)
    BY DEF FnOK
  <2>3. blocks[k].start .. blocks[k].end - 1 \subseteq Pos
    BY <2>1, <2>2
  <2>4. QED
    BY <2>3, InsnsAre
<1>4. fn.params \subseteq Vreg
  BY DEF FnOK
<1>5. ASSUME NEW i \in blocks[k].start .. blocks[k].end - 1, NEW v \in Vreg,
             NEW d \in Defs(insns[i]) \ {v}, i \in LiveAfter(v)',
             i \in LiveAfter(d)' \/ v \notin Defs(insns[i])
      PROVE  d \in igraph'[v] /\ v \in igraph'[d]
  <2>1. d \in Vreg
    BY <1>3
  <2>2. QED
    BY <1>2, <1>5, <2>1 DEF Joined
<1>6. ASSUME k = 1, NEW p \in fn.params, NEW q \in fn.params, 1 \in LiveAbove(p)',
             1 \in LiveAbove(q)', p # q
      PROVE  q \in igraph'[p]
  <2>1. p \in Vreg /\ q \in Vreg
    BY <1>4
  <2>2. QED
    BY <1>1, <1>6, <2>1 DEF Joined
<1>7. blocks'[k] = blocks[k]
  OBVIOUS
<1>8. QED
  BY <1>1, <1>5, <1>6, <1>7 DEF Joined

\* A larger graph has the edges too.
LEMMA JoinedKept ==
    ASSUME FnOK, BlocksOK, fn' = fn, blocks' = blocks,
           \A v \in Vreg : igraph[v] \subseteq igraph'[v],
           NEW k \in Block, Joined(k, igraph)
    PROVE  Joined(k, igraph)'
<1>1. \A i \in blocks[k].start .. blocks[k].end - 1 : Defs(insns[i]) \subseteq Vreg
  <2>1. blocks[k].start \in Pos /\ blocks[k].end \in 2 .. Len(insns) + 1
    BY DEF BlocksOK
  <2>2. Len(insns) \in Nat /\ Pos = 1 .. Len(insns)
    BY DEF FnOK
  <2>3. blocks[k].start .. blocks[k].end - 1 \subseteq Pos
    BY <2>1, <2>2
  <2>4. QED
    BY <2>3, InsnsAre
<1>2. fn.params \subseteq Vreg
  BY DEF FnOK
<1>3. Joined(k, igraph')
  BY <1>1, <1>2 DEF Joined
<1>4. QED
  BY <1>3, JoinedLater

\* The invariant holds at the start,
LEMMA AnalysisBegins ==
    ASSUME CacheInit
    PROVE  AnalysisOK
BY FlowInit DEF CacheInit, Init, AnalysisOK

\* every step keeps it,
LEMMA AnalysisKept ==
    ASSUME AnalysisOK, [CacheNext]_cacheVars
    PROVE  AnalysisOK'
<1>1. FlowOK /\ FnOK /\ BlocksOK
  BY DEF AnalysisOK, FlowOK
<1>2. NBlocks \in Nat \ {0} /\ Block = 1 .. NBlocks
  BY <1>1 DEF BlocksOK
<1>3. CASE FlowBlock
  BY <1>1, <1>3, FlowBlockKeeps DEF FlowBlock, AnalysisOK
<1>4. CASE NextSweep
  BY <1>1, <1>4, NextSweepKeeps DEF NextSweep, AnalysisOK
<1>5. CASE EndFlow
  BY <1>1, <1>5, EndFlowKeeps DEF EndFlow, AnalysisOK
<1>6. CASE ComputeLiveness
  <2>1. /\ UNCHANGED <<fn, blocks, live_in, live_out>>
        /\ pc = "ranges" /\ pc' = "igraph" /\ b' = 1
    BY <1>6 DEF ComputeLiveness
  <2>2. FlowOK' /\ RangesOK'
    BY <1>1, <1>6, <2>1, FlowRests, RangesBegin
  <2>3. Block' = Block /\ NBlocks' = NBlocks
    BY <2>1, StaticKept
  <2>4. b' \in 1 .. NBlocks' + 1 /\ \A k \in Block' : ~(k < b')
    BY <1>2, <2>1, <2>3
  <2>5. QED
    BY <2>1, <2>2, <2>4 DEF AnalysisOK
<1>7. CASE InterfereBlock
  <2>1. /\ UNCHANGED <<fn, blocks, live_in, live_out, last_use>>
        /\ pc = "igraph" /\ pc' = "igraph" /\ b' = b + 1 /\ b <= NBlocks
        /\ \A v \in Vreg : igraph[v] \subseteq igraph'[v]
    BY <1>7 DEF InterfereBlock
  <2>2. FlowOK' /\ RangesOK'
    BY <1>1, <2>1, FlowRests, RangesRest DEF AnalysisOK
  <2>3. /\ Block' = Block /\ NBlocks' = NBlocks
        /\ NoUpdates' = NoUpdates
    BY <2>1, StaticKept, NoUpdatesKept
  <2>4. b \in Block /\ b' \in 1 .. NBlocks + 1
    BY <1>2, <2>1 DEF AnalysisOK
  <2>5. ASSUME NoUpdates, NEW k \in Block, k < b' PROVE Joined(k, igraph)'
    <3>1. CASE k = b
      <4>1. Joined(b, igraph')
        BY <1>1, <1>7, <2>4, <2>5, BlockJoins
      <4>2. Joined(k, igraph')
        BY <3>1, <4>1
      <4>3. QED
        BY <1>1, <2>1, <4>2, JoinedLater
    <3>2. CASE k # b
      <4>1. k < b
        BY <1>2, <2>1, <2>4, <2>5, <3>2
      <4>2. Joined(k, igraph)
        BY <2>1, <2>5, <4>1 DEF AnalysisOK
      <4>3. QED
        BY <1>1, <2>1, <4>2, JoinedKept
    <3>3. QED
      BY <3>1, <3>2
  <2>6. QED
    BY <2>1, <2>2, <2>3, <2>4, <2>5 DEF AnalysisOK
<1>8. CASE EndIgraph
  <2>1. /\ UNCHANGED <<fn, blocks, live_in, live_out, last_use, igraph>>
        /\ pc = "igraph" /\ pc' = "done" /\ b > NBlocks
    BY <1>8 DEF EndIgraph
  <2>2. FlowOK' /\ RangesOK'
    BY <1>1, <2>1, FlowRests, RangesRest DEF AnalysisOK
  <2>3. Block' = Block /\ NoUpdates' = NoUpdates
    BY <2>1, StaticKept, NoUpdatesKept
  <2>4. ASSUME NoUpdates, NEW k \in Block PROVE Joined(k, igraph)'
    <3>1. k < b
      BY <1>2, <2>1 DEF AnalysisOK
    <3>2. Joined(k, igraph)
      BY <2>1, <2>4, <3>1 DEF AnalysisOK
    <3>3. QED
      BY <1>1, <2>1, <3>2, JoinedKept
  <2>5. QED
    BY <2>1, <2>2, <2>3, <2>4 DEF AnalysisOK
<1>9. CASE UNCHANGED flowVars /\ (pc' = pc \/ (pc \notin Early /\ pc' \notin Early))
  <2>1. /\ UNCHANGED <<fn, blocks, b, changed, max_iter, live_in, live_out, last_use, igraph>>
        /\ pc' = pc \/ (pc \notin Early /\ pc' \notin Early)
    BY <1>9 DEF flowVars
  <2>2. FlowOK'
    BY <1>1, <2>1, FlowRests DEF Early
  <2>3. pc' \notin {"flow", "ranges"} => pc \notin {"flow", "ranges"} /\ RangesOK'
    BY <2>1, RangesRest DEF AnalysisOK, Early
  <2>4. Block' = Block /\ NBlocks' = NBlocks /\ NoUpdates' = NoUpdates
    BY <2>1, StaticKept, NoUpdatesKept
  <2>5. ASSUME NoUpdates, pc' \notin {"flow", "ranges"}, NEW k \in Block, pc' = "igraph" => k < b
        PROVE  Joined(k, igraph)'
    <3>1. pc \notin {"flow", "ranges"} /\ (pc = "igraph" => k < b)
      BY <2>1, <2>5 DEF Early
    <3>2. Joined(k, igraph)
      BY <2>5, <3>1 DEF AnalysisOK
    <3>3. QED
      BY <1>1, <2>1, <3>2, JoinedKept
  <2>6. pc' = "igraph" => b' \in 1 .. NBlocks' + 1
    BY <2>1, <2>4 DEF AnalysisOK, Early
  <2>7. QED
    BY <2>1, <2>2, <2>3, <2>4, <2>5, <2>6 DEF AnalysisOK
<1>10. QED
  BY <1>3, <1>4, <1>5, <1>6, <1>7, <1>8, <1>9, CacheStep

\* so it holds throughout.
LEMMA AnalysisInvariant == CacheSpec => []AnalysisOK
<1>1. CacheInit => AnalysisOK
  BY AnalysisBegins
<1>2. AnalysisOK /\ [CacheNext]_cacheVars => AnalysisOK'
  BY AnalysisKept
<1>3. QED
  BY <1>1, <1>2, PTL DEF CacheSpec

-----------------------------------------------------------------------------
(* The theorems. *)

\* compute_cfg_liveness: when the iteration over the blocks ends it has
\* reached its fixpoint, before the bound on the number of sweeps, and the
\* live sets at the edges of the blocks are those of liveness along paths.
THEOREM LiveSetsExact == CacheSpec => []LivenessExact
<1>1. ASSUME AnalysisOK PROVE LivenessExact
  <2>1. SUFFICES ASSUME pc = "ranges"
                 PROVE  /\ ~changed
                        /\ \A v \in Vreg : \A k \in Block :
                              /\ v \in live_in[k] <=> blocks[k].start \in LiveBefore(v)
                              /\ v \in live_out[k] <=>
                                    Follows(blocks[k].end - 1) \cap LiveBefore(v) # {}
    BY DEF LivenessExact
  <2>2. ~changed
    BY <1>1, <2>1 DEF AnalysisOK, FlowOK
  <2>3. \A k \in Block : live_in[k] = TrueIn(k) /\ live_out[k] = TrueOut(k)
    BY <1>1, <2>1 DEF AnalysisOK, FlowOK
  <2>4. QED
    BY <2>2, <2>3 DEF TrueIn, TrueOut
<1>2. QED
  BY <1>1, AnalysisInvariant, PTL

\* compute_liveness: the range of a vreg, from which later passes take it to
\* be free, reaches every instruction above which it is live, unless a port
\* or string instruction names it.
THEOREM RangesAreCovered == CacheSpec => []LastUseCovers
<1>1. ASSUME AnalysisOK PROVE LastUseCovers
  <2>1. CASE pc = "done"
    BY <1>1, <2>1, RangesCover DEF AnalysisOK
  <2>2. CASE pc # "done"
    BY <2>2 DEF LastUseCovers
  <2>3. QED
    BY <2>1, <2>2
<1>2. QED
  BY <1>1, AnalysisInvariant, PTL

\* build_igraph: in a function that updates no vreg in place, any two vregs
\* live at the same time have an edge, and what an instruction defines has
\* one to every vreg live after it.
THEOREM GraphIsComplete == CacheSpec => [](NoUpdates => InterferenceComplete)
<1>1. ASSUME AnalysisOK, NoUpdates, pc = "done" PROVE InterferenceComplete
  <2>1. FnOK /\ BlocksOK /\ \A k \in Block : Joined(k, igraph)
    BY <1>1 DEF AnalysisOK, FlowOK
  <2>2. ASSUME NEW v \in Vreg, NEW i \in LiveAfter(v), NEW d \in Defs(insns[i]) \ {v}
        PROVE  \/ d \in igraph[v] /\ v \in igraph[d]
               \/ v \in Defs(insns[i]) /\ i \notin LiveAfter(d)
    <3>1. i \in Pos
      BY DEF LiveAfter
    <3>2. PICK k \in Block : blocks[k].start <= i /\ i < blocks[k].end
      BY <2>1, <3>1 DEF BlocksOK
    <3>3. i \in blocks[k].start .. blocks[k].end - 1
      <4>1. i \in Nat /\ blocks[k].start \in Nat /\ blocks[k].end \in Nat
        BY <2>1, <3>1 DEF BlocksOK, FnOK
      <4>2. QED
        BY <3>2, <4>1
    <3>4. QED
      BY <2>1, <3>3 DEF Joined
  <2>3. ASSUME NEW p \in {v \in fn.params : 1 \in LiveAbove(v)},
               NEW q \in {v \in fn.params : 1 \in LiveAbove(v)}
        PROVE  p = q \/ q \in igraph[p]
    <3>1. 1 \in Block
      BY <2>1 DEF BlocksOK
    <3>2. Joined(1, igraph)
      BY <2>1, <3>1
    <3>3. QED
      BY <3>2 DEF Joined
  <2>4. QED
    BY <2>2, <2>3 DEF InterferenceComplete
<1>2. ASSUME AnalysisOK PROVE NoUpdates => InterferenceComplete
  <2>1. CASE pc = "done"
    BY <1>1, <1>2, <2>1
  <2>2. CASE pc # "done"
    BY <2>2 DEF InterferenceComplete
  <2>3. QED
    BY <2>1, <2>2
<1>3. QED
  BY <1>2, AnalysisInvariant, PTL
=============================================================================
