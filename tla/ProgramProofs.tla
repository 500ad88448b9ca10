---------------------------- MODULE ProgramProofs ----------------------------
(***************************************************************************)
(* Proofs about main() of the binder (Program) and its parts: the call     *)
(* order and the clobber sets on their own (Clobbers), for every number of *)
(* functions, every set of registers and every call graph; what they       *)
(* guarantee together with the rest of main(), for every input; what the   *)
(* two walks of placement and output (Place) do for every layout of        *)
(* modules; and which registers parameters get and how wishes travel       *)
(* (Prefer), for every call graph and everything functions may declare.    *)
(***************************************************************************)
EXTENDS Program, ProofFacts

-----------------------------------------------------------------------------
(* The recursive definitions. *)

\* Before is the iteration it looks like.
LEMMA BeforeDef ==
    /\ Before \in [Nat -> SUBSET Fn]
    /\ Before[0] = {}
    /\ \A n \in Nat : Before[n + 1] = {f \in Fn : Callees(f) \subseteq Before[n]}
<1> DEFINE more == [X \in SUBSET Fn |-> {f \in Fn : Callees(f) \subseteq X}]
           Eqn(b) == b = [n \in Nat |-> IF n = 0 THEN {}
                                ELSE {f \in Fn : Callees(f) \subseteq b[n - 1]}]
<1>1. PICK b \in [Nat -> SUBSET Fn] :
          b[0] = {} /\ \A n \in Nat : b[n + 1] = more[b[n]]
  <2> DEFINE S == SUBSET Fn
             a == {}
  <2>1. more \in [S -> S] /\ a \in S
    OBVIOUS
  <2>2. \E b \in [Nat -> S] : b[0] = a /\ \A n \in Nat : b[n + 1] = more[b[n]]
    <3> HIDE DEF more, S, a
    <3>1. QED
      BY <2>1, Iterates
  <2>3. QED
    BY <2>2
<1>2. Eqn(b)
  <2>1. ASSUME NEW n \in Nat, n # 0
        PROVE  b[n] = {f \in Fn : Callees(f) \subseteq b[n - 1]}
    <3>1. n - 1 \in Nat /\ n - 1 + 1 = n
      BY <2>1
    <3>2. QED
      BY <1>1, <3>1
  <2>2. QED
    BY <1>1, <2>1
<1>3. Before = CHOOSE c : Eqn(c)
  BY DEF Before
<1>4. Eqn(Before)
  BY <1>2, <1>3
<1>5. QED
  BY <1>4
\* Changes is the iteration it looks like.
LEMMA ChangesDef ==
    ASSUME TypeOK
    PROVE  /\ Changes \in [Nat -> [Fn \cup Ext -> SUBSET Reg]]
           /\ \A c \in Fn \cup Ext : Changes[0][c] = {}
           /\ \A n \in Nat : \A c \in Ext :
                 Changes[n + 1][c] = (Reg \ prog.preserves[c]) \ DsKept(c)
           /\ \A n \in Nat : \A c \in Fn :
                 Changes[n + 1][c] =
                     ((prog.own[c] \cup UNION {Changes[n][d] : d \in prog.calls[c]})
                         \ (collect_function_save_regs(c) \cup DsKept(c)))
                     \cup UNION {Changes[n][d] : d \in prog.tails[c]}
<1> DEFINE S == [Fn \cup Ext -> SUBSET Reg]
           a == [c \in Fn \cup Ext |-> {}]
           Level(F, c) ==
               IF c \in Ext THEN (Reg \ prog.preserves[c]) \ DsKept(c)
               ELSE ((prog.own[c] \cup UNION {F[d] : d \in prog.calls[c]})
                        \ (collect_function_save_regs(c) \cup DsKept(c)))
                    \cup UNION {F[d] : d \in prog.tails[c]}
           more == [F \in S |-> [c \in Fn \cup Ext |-> Level(F, c)]]
           Eqn(b) == b = [n \in Nat |-> [c \in Fn \cup Ext |->
                             IF n = 0 THEN {} ELSE Level(b[n - 1], c)]]
<1>1. \A F \in S : \A c \in Fn \cup Ext : Level(F, c) \subseteq Reg
  <2> SUFFICES ASSUME NEW F \in S, NEW c \in Fn, c \notin Ext
               PROVE  Level(F, c) \subseteq Reg
    OBVIOUS
  <2>1. prog.own[c] \subseteq Reg /\ prog.calls[c] \subseteq Fn \cup Ext
        /\ prog.tails[c] \subseteq Fn \cup Ext
    BY DEF TypeOK, Program
  <2>2. \A d \in Fn \cup Ext : F[d] \subseteq Reg
    OBVIOUS
  <2>3. QED
    BY <2>1, <2>2
<1>2. Changes = CHOOSE c : Eqn(c)
  BY DEF Changes
<1>3. /\ \A c \in Ext : \A F : Level(F, c) = (Reg \ prog.preserves[c]) \ DsKept(c)
      /\ \A c \in Fn : \A F :
            Level(F, c) = ((prog.own[c] \cup UNION {F[d] : d \in prog.calls[c]})
                              \ (collect_function_save_regs(c) \cup DsKept(c)))
                          \cup UNION {F[d] : d \in prog.tails[c]}
  BY ProgramsAssumption
<1> HIDE DEF Level
<1>4. PICK b \in [Nat -> S] : b[0] = a /\ \A n \in Nat : b[n + 1] = more[b[n]]
  <2>1. more \in [S -> S] /\ a \in S
    BY <1>1
  <2>2. QED
    <3> HIDE DEF more, S, a
    <3>1. QED
      BY <2>1, Iterates
<1>5. ASSUME NEW n \in Nat, n # 0
      PROVE  b[n] = [c \in Fn \cup Ext |-> Level(b[n - 1], c)]
  <2>1. n - 1 \in Nat /\ n - 1 + 1 = n
    BY <1>5
  <2>2. b[n] = more[b[n - 1]] /\ b[n - 1] \in S
    BY <1>4, <2>1
  <2>3. QED
    BY <2>2
<1>6. Eqn(b)
  BY <1>4, <1>5
<1>7. Eqn(Changes)
  <2> HIDE DEF Eqn
  <2>1. QED
    BY <1>2, <1>6
<1>8. Changes = b
  <2> DEFINE Bad == {n \in Nat : Changes[n] # b[n]}
  <2>1. Bad = {}
    <3> SUFFICES ASSUME Bad # {} PROVE FALSE
      OBVIOUS
    <3>1. PICK n \in Bad : \A m \in Bad : n <= m
      <4>1. Bad \subseteq Nat
        OBVIOUS
      <4> HIDE DEF Bad
      <4>2. QED
        BY <4>1, SmallestElement
    <3>2. n # 0
      BY <1>4, <1>7
    <3>3. n - 1 \in Nat /\ Changes[n - 1] = b[n - 1]
      BY <3>1, <3>2
    <3>4. Changes[n] = [c \in Fn \cup Ext |-> Level(Changes[n - 1], c)]
      BY <1>7, <3>2
    <3>5. QED
      BY <1>5, <3>2, <3>3, <3>4
  <2>2. \A n \in Nat : Changes[n] = b[n]
    BY <2>1
  <2>3. DOMAIN Changes = Nat /\ Changes = [n \in Nat |-> Changes[n]]
    BY <1>7
  <2>4. QED
    BY <1>4, <2>2, <2>3
<1>9. Changes \in [Nat -> S] /\ \A c \in Fn \cup Ext : Changes[0][c] = {}
  BY <1>4, <1>8
<1>10. \A n \in Nat : \A c \in Fn \cup Ext : Changes[n + 1][c] = Level(Changes[n], c)
  <2> SUFFICES ASSUME NEW n \in Nat, NEW c \in Fn \cup Ext
               PROVE  Changes[n + 1][c] = Level(Changes[n], c)
    OBVIOUS
  <2>1. PICK m \in Nat : m = n + 1
    OBVIOUS
  <2>2. m # 0 /\ m - 1 = n
    BY <2>1
  <2>3. Changes[m] = [d \in Fn \cup Ext |-> Level(Changes[m - 1], d)]
    BY <1>7, <2>2
  <2>4. QED
    BY <2>1, <2>2, <2>3
<1>11. ASSUME NEW n \in Nat, NEW c \in Ext
       PROVE  Changes[n + 1][c] = (Reg \ prog.preserves[c]) \ DsKept(c)
  BY <1>3, <1>10
<1>12. ASSUME NEW n \in Nat, NEW c \in Fn
       PROVE  Changes[n + 1][c] =
                  ((prog.own[c] \cup UNION {Changes[n][d] : d \in prog.calls[c]})
                      \ (collect_function_save_regs(c) \cup DsKept(c)))
                  \cup UNION {Changes[n][d] : d \in prog.tails[c]}
  <2>1. Changes[n + 1][c] = Level(Changes[n], c)
    BY <1>10
  <2>2. QED
    BY <1>3, <2>1
<1>13. QED
  BY <1>9, <1>11, <1>12

-----------------------------------------------------------------------------
(* Type correctness and the sort's bookkeeping. *)

Started == prog \in Program /\ StartSort

\* How far the sort is: the leaves come from the functions passed; an unchanged
\* scan has found nothing among those; the rest has passed only visited ones.
SortInv ==
    /\ pc = "leaves" => \A f \in Visited : f < i
    /\ pc = "scan" /\ ~changed =>
          \A f \in 1 .. i - 1 : f \in Visited \/ ~AllCalleesVisited(f)
    /\ pc = "rest" => 1 .. i - 1 \subseteq Visited
    /\ pc \in {"clobbers", "done"} => Visited = Fn

\* main() starts the sort in a well-formed state.
LEMMA SortInit == Started => TypeOK /\ SortInv
<1> SUFFICES ASSUME Started PROVE TypeOK /\ SortInv
  OBVIOUS
<1>1. topo_order = << >> /\ Visited = {}
  BY DEF Started, StartSort, Visited, ToSet
<1>2. TypeOK
  <2>1. clobbers \in [Fn -> SUBSET Reg] /\ topo_order \in Seq(Fn)
    BY DEF Started, StartSort
  <2>2. 1 \in 1 .. NF + 1
    BY NFAssumption
  <2>3. i \in 1 .. NF + 1 /\ changed \in BOOLEAN
    BY <2>2 DEF Started, StartSort
  <2>4. QED
    BY <1>1, <2>1, <2>3 DEF Started, StartSort, TypeOK
<1>3. QED
  BY <1>1, <1>2 DEF Started, StartSort, SortInv

\* Visiting a function not visited before keeps the order free of repetitions.
LEMMA VisitNew ==
    ASSUME TypeOK, NEW f \in Fn, f \notin Visited, Visit(f)
    PROVE  /\ topo_order' \in Seq(Fn) /\ Len(topo_order') = Len(topo_order) + 1
           /\ \A j, k \in 1 .. Len(topo_order') :
                 topo_order'[j] = topo_order'[k] => j = k
           /\ Visited' = Visited \cup {f}
BY AppendNew DEF TypeOK, Visit, Visited, Distinct

\* Functions are ordered at most once each, so the order fits the functions.
LEMMA OrderFits ==
    ASSUME TypeOK
    PROVE  Len(topo_order) \in 0 .. NF
<1>1. IsFiniteSet(Fn) /\ Cardinality(Fn) = NF
  <2>1. NF \in Int /\ 1 \in Int /\ NF >= 0
    BY NFAssumption
  <2>2. QED
    BY <2>1, FS_Interval DEF Fn
<1>2. topo_order \in Seq(Fn) /\ Distinct(topo_order)
  BY DEF TypeOK, Distinct
<1>3. Len(topo_order) <= NF
  BY <1>1, <1>2, DistinctLen
<1>4. QED
  BY <1>2, <1>3, NFAssumption

\* Every step of the sort and of the clobber loop keeps the state well formed.
LEMMA SortNext == TypeOK /\ SortInv /\ [Next]_vars => TypeOK' /\ SortInv'
<1> SUFFICES ASSUME TypeOK, SortInv, [Next]_vars PROVE TypeOK' /\ SortInv'
  OBVIOUS
<1> USE NFAssumption
<1>0. (pc = "leaves" \/ pc = "scan" \/ pc = "rest") /\ i <= NF => i \in Fn
  BY DEF TypeOK, Fn
<1>00. Visited \subseteq Fn /\ Visited \subseteq Nat
  BY DEF TypeOK, Visited, ToSet, Fn
<1>1. CASE AddLeaf
  <2>1. CASE Callees(i) = {}
    <3>1. i \in Fn /\ i \notin Visited /\ Visit(i)
      BY <1>0, <1>1, <2>1 DEF AddLeaf, SortInv, TypeOK
    <3>2. Visited' = Visited \cup {i}
      BY <3>1, VisitNew
    <3>3. TypeOK'
      BY <1>1, <3>1, VisitNew DEF AddLeaf, TypeOK
    <3>4. QED
      BY <1>00, <1>1, <3>2, <3>3 DEF AddLeaf, SortInv, TypeOK
  <2>2. CASE Callees(i) # {}
    <3>1. Visited' = Visited
      BY <1>1, <2>2 DEF AddLeaf, Visited
    <3>2. TypeOK'
      BY <1>1, <2>2 DEF AddLeaf, TypeOK
    <3>3. QED
      BY <1>00, <1>1, <3>1, <3>2 DEF AddLeaf, SortInv, TypeOK
  <2>3. QED
    BY <2>1, <2>2
<1>2. CASE StartScan
  <2>1. TypeOK'
    <3>1. 1 \in 1 .. NF + 1
      OBVIOUS
    <3>2. changed' \in BOOLEAN /\ i' \in 1 .. NF + 1
      BY <1>2, <3>1 DEF StartScan
    <3>3. QED
      BY <1>2, <3>2 DEF StartScan, TypeOK
  <2>2. QED
    BY <1>2, <2>1 DEF StartScan, SortInv
<1>3. CASE ScanFunction
  <2>1. CASE i \notin Visited /\ AllCalleesVisited(i)
    <3>1. i \in Fn /\ Visit(i)
      BY <1>0, <1>3, <2>1 DEF ScanFunction
    <3>2. TypeOK'
      BY <1>3, <2>1, <3>1, VisitNew DEF ScanFunction, TypeOK
    <3>3. QED
      BY <1>3, <2>1, <3>2 DEF ScanFunction, SortInv, TypeOK
  <2>2. CASE ~(i \notin Visited /\ AllCalleesVisited(i))
    <3>1. TypeOK'
      BY <1>3, <2>2 DEF ScanFunction, TypeOK
    <3>2. UNCHANGED <<Visited, prog, changed>>
      BY <1>3, <2>2 DEF ScanFunction, Visited
    <3>3. \A f : AllCalleesVisited(f)' <=> AllCalleesVisited(f)
      BY <3>2 DEF AllCalleesVisited, Callees
    <3>4. QED
      BY <1>3, <2>2, <3>1, <3>2, <3>3 DEF ScanFunction, SortInv, TypeOK
  <2>3. QED
    BY <2>1, <2>2
<1>4. CASE StartRest
  <2>1. TypeOK'
    BY <1>4 DEF StartRest, TypeOK
  <2>2. QED
    BY <1>4, <2>1 DEF StartRest, SortInv
<1>5. CASE AddRest
  <2>1. CASE i \notin Visited
    <3>1. i \in Fn /\ Visit(i)
      BY <1>0, <1>5, <2>1 DEF AddRest
    <3>2. TypeOK' /\ Visited' = Visited \cup {i}
      BY <1>5, <2>1, <3>1, VisitNew DEF AddRest, TypeOK
    <3>3. QED
      BY <1>5, <3>2 DEF AddRest, SortInv, TypeOK
  <2>2. CASE i \in Visited
    <3>1. Visited' = Visited
      BY <1>5, <2>2 DEF AddRest, Visited
    <3>2. TypeOK'
      BY <1>5, <2>2 DEF AddRest, TypeOK
    <3>3. QED
      BY <1>5, <2>2, <3>1, <3>2 DEF AddRest, SortInv, TypeOK
  <2>3. QED
    BY <2>1, <2>2
<1>6. CASE StartClobbers
  <2>1. Visited' = Visited
    BY <1>6 DEF StartClobbers, Visited
  <2>2. i - 1 = NF /\ Fn = 1 .. i - 1
    BY <1>6 DEF StartClobbers, Fn
  <2>3. Visited = Fn
    BY <1>00, <1>6, <2>2 DEF StartClobbers, SortInv
  <2>4. TypeOK'
    BY <1>6 DEF StartClobbers, TypeOK
  <2>5. QED
    BY <1>6, <2>1, <2>3, <2>4 DEF StartClobbers, SortInv
<1>7. CASE ComputeClobbers
  <2>1. topo_order[i] \in Fn /\ i + 1 \in 1 .. NF + 1
    BY <1>7, OrderFits DEF ComputeClobbers, TypeOK
  <2>2. prog \in Program /\ \A f \in Fn : prog.own[f] \subseteq Reg
    BY DEF TypeOK, Program
  <2>3. \A f \in Fn : \A c \in prog.calls[f] : SiteClobbers(c) \subseteq Reg
    BY <2>2 DEF TypeOK, Program, SiteClobbers
  <2>4. clobbers' \in [Fn -> SUBSET Reg]
    BY <1>7, <2>1, <2>2, <2>3 DEF ComputeClobbers, TypeOK
  <2>5. Visited' = Visited
    BY <1>7 DEF ComputeClobbers, Visited
  <2>6. QED
    BY <1>7, <2>1, <2>4, <2>5 DEF ComputeClobbers, SortInv, TypeOK
<1>8. CASE Finish
  BY <1>8 DEF Finish, SortInv, TypeOK, Visited
<1>9. CASE UNCHANGED vars
  <2>1. UNCHANGED Visited /\ \A f : AllCalleesVisited(f)' <=> AllCalleesVisited(f)
    BY <1>9 DEF vars, Visited, AllCalleesVisited, Callees
  <2>2. QED
    BY <1>9, <2>1 DEF vars, SortInv, TypeOK
<1>10. QED
  BY <1>1, <1>2, <1>3, <1>4, <1>5, <1>6, <1>7, <1>8, <1>9 DEF Next, Done

\* topo_sort() and the clobber loop keep their state well formed.
THEOREM TypeCorrect == Spec => []TypeOK
<1>1. Init => TypeOK /\ SortInv
  BY SortInit, ProgramsAssumption DEF Init, Started
<1>2. QED
  BY <1>1, SortNext, PTL DEF Spec

-----------------------------------------------------------------------------
(***************************************************************************)
(* topo_sort() implements Order.  The sort is sealed when the loop over    *)
(* what is left begins, which SortInv shows to happen only when no function*)
(* is ready.                                                               *)
(***************************************************************************)

\* The sort starts where Order starts.
LEMMA SortingInit == Started => Sorting!Init
<1> SUFFICES ASSUME Started PROVE Sorting!Init
  OBVIOUS
<1>1. [f \in Fn |-> Callees(f)] \in [Fn -> SUBSET Fn]
  BY DEF Callees
<1>2. QED
  BY <1>1 DEF Started, StartSort, Sorting!Init

\* What Order calls placed is what the binder calls visited.
LEMMA PlacedVisited ==
    ASSUME TypeOK
    PROVE  Sorting!Placed = Visited /\ Sorting!Left = Fn \ Visited
BY DEF TypeOK, Visited, ToSet, Sorting!Placed, Sorting!Left

\* A function that is left may be appended once the sort is sealed, and no
\* function has to be.
LEMMA Arranged ==
    ASSUME NEW S \in SUBSET Fn
    PROVE  /\ << >> \in Sorting!Arrangements(S)
           /\ \A f \in S : <<f>> \in Sorting!Arrangements(S)
<1>1. IsFiniteSet(S) /\ Cardinality(S) \in Nat
  <2>1. NF \in Int /\ 1 \in Int
    BY NFAssumption
  <2>2. IsFiniteSet(Fn)
    BY <2>1, FS_Interval DEF Fn
  <2>3. QED
    BY <2>2, FS_Subset, FS_CardinalityType
<1>0. Sorting!Cardinality(S) = Cardinality(S)
  BY DEF Sorting!Cardinality, Cardinality, Sorting!IsFiniteSet, IsFiniteSet
<1>2. << >> \in Sorting!Injection(1 .. 0, S)
  BY DEF Sorting!Injection, Sorting!IsInjective
<1>3. << >> \in Sorting!Arrangements(S)
  <2>1. 0 \in 0 .. Cardinality(S)
    BY <1>1
  <2>2. QED
    BY <1>0, <1>2, <2>1 DEF Sorting!Arrangements
<1>4. ASSUME NEW f \in S PROVE <<f>> \in Sorting!Arrangements(S)
  <2>1. Cardinality(S) # 0
    BY <1>1, FS_EmptySet
  <2>2. 1 \in 0 .. Cardinality(S)
    BY <1>1, <2>1
  <2>3. <<f>> \in Sorting!Injection(1 .. 1, S)
    BY DEF Sorting!Injection, Sorting!IsInjective
  <2>4. QED
    BY <1>0, <2>2, <2>3 DEF Sorting!Arrangements
<1>5. QED
  BY <1>3, <1>4

\* What Order is told of the graph never changes.
LEMMA GraphKept ==
    ASSUME UNCHANGED prog
    PROVE  [f \in Fn |-> Callees(f)]' = [f \in Fn |-> Callees(f)]
BY DEF Callees

\* Every step of topo_sort() is one that Order allows, or none.
LEMMA SortingNext ==
    TypeOK /\ SortInv /\ [Next]_vars => [Sorting!Next]_Sorting!vars
<1> SUFFICES ASSUME TypeOK, SortInv, [Next]_vars
             PROVE  [Sorting!Next]_Sorting!vars
  OBVIOUS
<1> DEFINE sealed == pc \in {"rest", "clobbers", "done"}
<1>0. UNCHANGED prog
  BY DEF Next, vars, AddLeaf, StartScan, ScanFunction, StartRest, AddRest,
         StartClobbers, ComputeClobbers, Finish, Done
<1>1. [f \in Fn |-> Callees(f)]' = [f \in Fn |-> Callees(f)]
  BY <1>0, GraphKept
<1>2. ASSUME UNCHANGED <<topo_order, sealed>> PROVE UNCHANGED Sorting!vars
  BY <1>1, <1>2 DEF Sorting!vars
<1>3. ASSUME NEW f \in Fn, f \notin Visited, Callees(f) \subseteq Visited,
             Visit(f), ~sealed, ~sealed'
      PROVE  Sorting!Next
  <2>1. Sorting!Ready(f)
    BY <1>3, PlacedVisited DEF Sorting!Ready
  <2>2. Sorting!Place(f)
    BY <1>1, <1>3, <2>1 DEF Sorting!Place, Visit
  <2>3. QED
    BY <2>2 DEF Sorting!Next
<1>4. ASSUME sealed \/ \A f \in Fn \ Visited : ~(Callees(f) \subseteq Visited), sealed',
             UNCHANGED topo_order \/ \E f \in Fn \ Visited : Visit(f)
      PROVE  Sorting!Next
  <2>1. sealed \/ \A f \in Sorting!Left : ~Sorting!Ready(f)
    BY <1>4, PlacedVisited DEF Sorting!Ready
  <2>2. topo_order \o << >> = topo_order
    BY DEF TypeOK
  <2>3. \A f \in Fn : Append(topo_order, f) = topo_order \o <<f>>
    BY AppendIsConcat DEF TypeOK
  <2>4. \E s \in Sorting!Arrangements(Sorting!Left) : topo_order' = topo_order \o s
    <3>1. CASE UNCHANGED topo_order
      <4>1. << >> \in Sorting!Arrangements(Sorting!Left)
        BY PlacedVisited, Arranged
      <4>2. QED
        BY <2>2, <3>1, <4>1
    <3>2. CASE \E f \in Fn \ Visited : Visit(f)
      <4>1. PICK f \in Fn \ Visited : Visit(f)
        BY <3>2
      <4>2. <<f>> \in Sorting!Arrangements(Sorting!Left)
        BY PlacedVisited, Arranged
      <4>3. QED
        BY <2>3, <4>1, <4>2 DEF Visit
    <3>3. QED
      BY <1>4, <3>1, <3>2
  <2>5. Sorting!PlaceRest
    BY <1>1, <1>4, <2>1, <2>4 DEF Sorting!PlaceRest
  <2>6. QED
    BY <2>5 DEF Sorting!Next
<1>5. i \in Nat /\ (i <= NF => i \in Fn) /\ Visited \subseteq Fn
  BY NFAssumption DEF TypeOK, Fn, Visited, ToSet
<1>6. CASE AddLeaf
  <2>1. CASE Callees(i) = {}
    <3>1. i \notin Visited
      BY <1>5, <1>6 DEF AddLeaf, SortInv
    <3>2. QED
      BY <1>3, <1>5, <1>6, <2>1, <3>1 DEF AddLeaf
  <2>2. CASE Callees(i) # {}
    BY <1>2, <1>6, <2>2 DEF AddLeaf
  <2>3. QED
    BY <2>1, <2>2
<1>7. CASE StartScan
  BY <1>2, <1>7 DEF StartScan
<1>8. CASE ScanFunction
  BY <1>2, <1>3, <1>5, <1>8 DEF ScanFunction, AllCalleesVisited
<1>9. CASE StartRest
  <2>1. Fn = 1 .. i - 1
    BY <1>9, NFAssumption DEF StartRest, Fn
  <2>2. \A f \in Fn \ Visited : ~(Callees(f) \subseteq Visited)
    BY <1>9, <2>1 DEF StartRest, SortInv, AllCalleesVisited
  <2>3. QED
    BY <1>4, <1>9, <2>2 DEF StartRest
<1>10. CASE AddRest
  BY <1>4, <1>5, <1>10 DEF AddRest
<1>11. CASE StartClobbers \/ ComputeClobbers \/ Finish
  BY <1>2, <1>11 DEF StartClobbers, ComputeClobbers, Finish
<1>12. CASE UNCHANGED vars
  BY <1>2, <1>12 DEF vars
<1>13. QED
  BY <1>6, <1>7, <1>8, <1>9, <1>10, <1>11, <1>12 DEF Next, Done

\* topo_sort() orders the call graph the way Order allows.
THEOREM SortsCalleesCorrect == Spec => SortsCallees
<1>1. Init => Started
  BY ProgramsAssumption DEF Init, Started
<1>2. Spec => [](TypeOK /\ SortInv)
  BY <1>1, SortInit, SortNext, PTL DEF Spec
<1>3. Init => Sorting!Init
  BY <1>1, SortingInit
<1>4. QED
  BY <1>2, <1>3, SortingNext, PTL DEF Spec, SortsCallees, Sorting!Spec

-----------------------------------------------------------------------------
(***************************************************************************)
(* Calls keep the registers their callers rely on.  CallInv says what the  *)
(* order is good for: up to a point L every function comes after all its   *)
(* callees, and no function beyond could have; and the set computed for a  *)
(* function that comes after its callees is all it should be, and final.   *)
(***************************************************************************)
First(n) == {topo_order[j] : j \in 1 .. n}
Early(k) == Callees(topo_order[k]) \subseteq First(k - 1)
SealedAt(L) ==
    /\ \A k \in 1 .. L : Early(k)
    /\ \A f \in Fn \ First(L) : ~(Callees(f) \subseteq First(L))
AllClobbers(f) ==
    (prog.own[f] \cup UNION {SiteClobbers(c) : c \in prog.calls[f]}) \ DsKept(f)
Computed(k) == pc = "done" \/ (pc = "clobbers" /\ k < i)

OrderInv ==
    /\ pc \in {"leaves", "scan"} =>
          \A k \in 1 .. Len(topo_order) : Early(k)
    /\ pc \in {"rest", "clobbers", "done"} =>
          \E L \in 0 .. Len(topo_order) : SealedAt(L)
ClobbersInv ==
    \A k \in 1 .. Len(topo_order) :
        Computed(k) /\ Early(k) => clobbers[topo_order[k]] = AllClobbers(topo_order[k])

\* What a visit adds comes last and moves nothing.
LEMMA VisitKeepsPlaces ==
    ASSUME TypeOK, NEW f \in Fn, Visit(f), UNCHANGED prog
    PROVE  /\ \A n \in 0 .. Len(topo_order) : First(n)' = First(n)
           /\ \A k \in 1 .. Len(topo_order) :
                 topo_order'[k] = topo_order[k] /\ (Early(k)' <=> Early(k))
           /\ \A k : k = Len(topo_order) + 1 =>
                 (Early(k)' <=> Callees(f) \subseteq Visited)
           /\ Len(topo_order') = Len(topo_order) + 1
<1>1. topo_order \in Seq(Fn) /\ Len(topo_order) \in Nat
  BY DEF TypeOK
<1>2. \A k \in 1 .. Len(topo_order) : topo_order'[k] = topo_order[k]
  BY <1>1 DEF Visit
<1>3. topo_order'[Len(topo_order) + 1] = f /\ Len(topo_order') = Len(topo_order) + 1
  BY <1>1 DEF Visit
<1>4. \A n \in 0 .. Len(topo_order) : First(n)' = First(n)
  BY <1>1, <1>2 DEF First
<1>5. First(Len(topo_order)) = Visited
  BY <1>1 DEF First, Visited, ToSet
<1>6. \A g : Callees(g)' = Callees(g)
  BY DEF Callees
<1>7. \A k \in 1 .. Len(topo_order) : k - 1 \in 0 .. Len(topo_order)
  BY <1>1
<1>8. \A k \in 1 .. Len(topo_order) : Early(k)' <=> Early(k)
  BY <1>2, <1>4, <1>6, <1>7 DEF Early
<1>9. Len(topo_order) + 1 - 1 = Len(topo_order) /\ Len(topo_order) \in 0 .. Len(topo_order)
  BY <1>1
<1>10. ASSUME NEW k, k = Len(topo_order) + 1
       PROVE  Early(k)' <=> Callees(f) \subseteq Visited
  BY <1>10, <1>3, <1>4, <1>5, <1>6, <1>9 DEF Early
<1>11. QED
  BY <1>2, <1>3, <1>4, <1>8, <1>10

\* Functions visited in "leaves" and "scan" come after all their callees; from
\* there on the ones that do not are those that cannot.
LEMMA OrderNext ==
    TypeOK /\ SortInv /\ OrderInv /\ [Next]_vars => OrderInv'
<1> SUFFICES ASSUME TypeOK, SortInv, OrderInv, [Next]_vars PROVE OrderInv'
  OBVIOUS
<1>0. UNCHANGED prog
  BY DEF Next, vars, AddLeaf, StartScan, ScanFunction, StartRest, AddRest,
         StartClobbers, ComputeClobbers, Finish, Done
<1>1. Len(topo_order) \in Nat /\ Visited \subseteq Fn /\ Visited = First(Len(topo_order))
  BY DEF TypeOK, Visited, ToSet, First
<1>2. i \in Nat /\ (i <= NF => i \in Fn)
  BY NFAssumption DEF TypeOK, Fn
<1>3. ASSUME UNCHANGED topo_order
      PROVE  /\ \A k : Early(k)' <=> Early(k)
             /\ \A L : SealedAt(L)' <=> SealedAt(L)
  <2>1. \A g : Callees(g)' = Callees(g)
    BY <1>0 DEF Callees
  <2>2. \A n : First(n)' = First(n)
    BY <1>3 DEF First
  <2>3. \A k : Early(k)' <=> Early(k)
    BY <1>3, <2>1, <2>2 DEF Early
  <2>4. QED
    BY <2>1, <2>2, <2>3 DEF SealedAt
<1>4. ASSUME UNCHANGED topo_order,
             \/ pc \in {"leaves", "scan"} /\ pc' \in {"leaves", "scan"}
             \/ pc \in {"rest", "clobbers", "done"} /\ pc' \in {"rest", "clobbers", "done"}
      PROVE  OrderInv'
  BY <1>3, <1>4 DEF OrderInv
<1>5. ASSUME NEW f \in Fn, Visit(f), Callees(f) \subseteq Visited,
             pc \in {"leaves", "scan"}, pc' \in {"leaves", "scan"}
      PROVE  OrderInv'
  <2>1. \A k \in 1 .. Len(topo_order) : Early(k)'
    BY <1>0, <1>5, VisitKeepsPlaces DEF OrderInv
  <2>2. /\ \A k : k = Len(topo_order) + 1 => Early(k)'
        /\ Len(topo_order') = Len(topo_order) + 1
    BY <1>0, <1>5, VisitKeepsPlaces
  <2>3. \A k \in 1 .. Len(topo_order') :
            k \in 1 .. Len(topo_order) \/ k = Len(topo_order) + 1
    BY <1>1, <2>2
  <2>4. \A k \in 1 .. Len(topo_order') : Early(k)'
    BY <2>1, <2>2, <2>3
  <2>5. QED
    BY <1>5, <2>4 DEF OrderInv
<1>6. ASSUME NEW f \in Fn, Visit(f), pc = "rest", pc' = "rest"
      PROVE  OrderInv'
  <2>1. PICK L \in 0 .. Len(topo_order) : SealedAt(L)
    BY <1>6 DEF OrderInv
  <2>2. L \in 0 .. Len(topo_order') /\ First(L)' = First(L)
    BY <1>0, <1>1, <1>6, VisitKeepsPlaces
  <2>3. \A k \in 1 .. L : k \in 1 .. Len(topo_order)
    BY <1>1
  <2>4. \A k \in 1 .. L : Early(k)'
    BY <1>0, <1>6, <2>1, <2>3, VisitKeepsPlaces DEF SealedAt
  <2>5. \A g : Callees(g)' = Callees(g)
    BY <1>0 DEF Callees
  <2>6. SealedAt(L)'
    BY <2>1, <2>2, <2>4, <2>5 DEF SealedAt
  <2>7. QED
    BY <1>6, <2>2, <2>6 DEF OrderInv
<1>7. CASE AddLeaf
  <2>1. CASE Callees(i) = {}
    BY <1>2, <1>5, <1>7, <2>1 DEF AddLeaf
  <2>2. CASE Callees(i) # {}
    BY <1>4, <1>7, <2>2 DEF AddLeaf
  <2>3. QED
    BY <2>1, <2>2
<1>8. CASE StartScan
  BY <1>4, <1>8 DEF StartScan
<1>9. CASE ScanFunction
  BY <1>2, <1>4, <1>5, <1>9 DEF ScanFunction, AllCalleesVisited
<1>10. CASE StartRest
  <2>1. Fn = 1 .. i - 1
    BY <1>10, NFAssumption DEF StartRest, Fn
  <2>2. \A f \in Fn \ Visited : ~(Callees(f) \subseteq Visited)
    BY <1>10, <2>1 DEF StartRest, SortInv, AllCalleesVisited
  <2>3. SealedAt(Len(topo_order))
    BY <1>1, <1>10, <2>2 DEF StartRest, OrderInv, SealedAt
  <2>4. SealedAt(Len(topo_order))' /\ Len(topo_order') \in 0 .. Len(topo_order')
    BY <1>1, <1>3, <1>10, <2>3 DEF StartRest
  <2>5. QED
    BY <1>10, <2>4 DEF StartRest, OrderInv
<1>11. CASE AddRest
  BY <1>2, <1>4, <1>6, <1>11 DEF AddRest
<1>12. CASE StartClobbers \/ ComputeClobbers \/ Finish
  BY <1>4, <1>12 DEF StartClobbers, ComputeClobbers, Finish
<1>13. CASE UNCHANGED vars
  BY <1>4, <1>13 DEF vars, TypeOK
<1>14. QED
  BY <1>7, <1>8, <1>9, <1>10, <1>11, <1>12, <1>13 DEF Next, Done

\* A set once computed for a function whose callees came before is the full
\* one, and no later step of the loop changes what it was computed from.
LEMMA ClobbersNext ==
    TypeOK /\ ClobbersInv /\ [Next]_vars => ClobbersInv'
<1> SUFFICES ASSUME TypeOK, ClobbersInv, [Next]_vars PROVE ClobbersInv'
  OBVIOUS
<1>0. UNCHANGED prog
  BY DEF Next, vars, AddLeaf, StartScan, ScanFunction, StartRest, AddRest,
         StartClobbers, ComputeClobbers, Finish, Done
<1>1. CASE pc' \in {"leaves", "scan", "rest"}
  BY <1>1 DEF ClobbersInv, Computed
<1>2. ASSUME UNCHANGED topo_order
      PROVE  \A k : Early(k)' <=> Early(k)
  BY <1>0, <1>2 DEF Early, First, Callees
<1>3. ASSUME UNCHANGED <<topo_order, clobbers>>,
             \A k \in 1 .. Len(topo_order) : Computed(k)' => Computed(k)
      PROVE  ClobbersInv'
  <2>1. \A f : AllClobbers(f)' = AllClobbers(f)
    BY <1>0, <1>3 DEF AllClobbers, SiteClobbers, DsKept
  <2>2. QED
    BY <1>2, <1>3, <2>1 DEF ClobbersInv
<1>4. CASE StartClobbers
  <2>1. \A k \in 1 .. Len(topo_order) : ~(k < 1)
    OBVIOUS
  <2>2. QED
    BY <1>3, <1>4, <2>1 DEF StartClobbers, Computed
<1>5. CASE ComputeClobbers
  <2> DEFINE f == topo_order[i]
  <2>1. f \in Fn /\ i \in 1 .. Len(topo_order)
    BY <1>5 DEF ComputeClobbers, TypeOK
  <2>2. clobbers' = [clobbers EXCEPT ![f] = AllClobbers(f)]
    BY <1>5 DEF ComputeClobbers, AllClobbers
  <2> SUFFICES ASSUME NEW k \in 1 .. Len(topo_order), k < i + 1, Early(k)
               PROVE  clobbers'[topo_order[k]] = AllClobbers(topo_order[k])'
    BY <1>2, <1>5 DEF ClobbersInv, ComputeClobbers, Computed
  <2> DEFINE g == topo_order[k]
  <2>3. g \in Fn
    BY DEF TypeOK
  <2>4. \A c \in prog.calls[g] : SiteClobbers(c)' = SiteClobbers(c)
    <3> SUFFICES ASSUME NEW c \in prog.calls[g], c \in Fn
                 PROVE  clobbers'[c] = clobbers[c]
      BY <1>0 DEF SiteClobbers, DsKept
    <3>1. c \in First(k - 1)
      BY DEF Early, Callees
    <3>2. PICK j \in 1 .. k - 1 : c = topo_order[j]
      BY <3>1 DEF First
    <3>3. j \in 1 .. Len(topo_order) /\ j # i
      BY <2>1, <3>2 DEF TypeOK
    <3>4. c # f
      BY <2>1, <3>2, <3>3 DEF TypeOK
    <3>5. QED
      BY <2>2, <3>4 DEF TypeOK
  <2>5. AllClobbers(g)' = AllClobbers(g)
    BY <1>0, <1>5, <2>4 DEF AllClobbers, DsKept, ComputeClobbers
  <2>6. CASE k = i
    BY <1>5, <2>1, <2>2, <2>5, <2>6 DEF TypeOK, ComputeClobbers
  <2>7. CASE k # i
    <3>1. g # f /\ Computed(k)
      BY <1>5, <2>1, <2>7 DEF TypeOK, ComputeClobbers, Computed
    <3>2. clobbers[g] = AllClobbers(g)
      BY <3>1 DEF ClobbersInv
    <3>3. clobbers'[g] = clobbers[g]
      BY <2>2, <2>3, <3>1 DEF TypeOK
    <3>4. QED
      BY <1>5, <2>5, <3>2, <3>3 DEF ComputeClobbers
  <2>8. QED
    BY <2>6, <2>7
<1>6. CASE Finish
  <2>1. Len(topo_order) \in Nat /\ i \in Nat
    BY NFAssumption DEF TypeOK
  <2>2. \A k \in 1 .. Len(topo_order) : k < i
    BY <1>6, <2>1 DEF Finish
  <2>3. QED
    BY <1>3, <1>6, <2>2 DEF Finish, Computed
<1>7. CASE UNCHANGED vars
  BY <1>3, <1>7 DEF vars, Computed
<1>8. CASE AddLeaf \/ StartScan \/ ScanFunction \/ StartRest \/ AddRest
  BY <1>1, <1>8 DEF AddLeaf, StartScan, ScanFunction, StartRest, AddRest
<1>9. QED
  BY <1>4, <1>5, <1>6, <1>7, <1>8 DEF Next, Done

\* Functions that reach no recursion lie in the part of the order where every
\* function comes after its callees.
LEMMA GroundedFirst ==
    ASSUME TypeOK, NEW L \in Nat, SealedAt(L)
    PROVE  \A n \in Nat : Before[n] \subseteq First(L)
<1> DEFINE Bad == {n \in Nat : ~(Before[n] \subseteq First(L))}
<1> SUFFICES ASSUME Bad # {} PROVE FALSE
  OBVIOUS
<1>1. PICK n \in Bad : \A m \in Bad : n <= m
  <2>1. Bad \subseteq Nat
    OBVIOUS
  <2> HIDE DEF Bad
  <2>2. QED
    BY <2>1, SmallestElement
<1>2. n # 0
  BY BeforeDef
<1>3. PICK m \in Nat : n = m + 1
  <2>1. n - 1 \in Nat /\ n = n - 1 + 1
    BY <1>2
  <2>2. QED
    BY <2>1
<1>4. Before[m] \subseteq First(L)
  BY <1>1, <1>3
<1>5. Before[n] = {f \in Fn : Callees(f) \subseteq Before[m]}
  BY <1>3, BeforeDef
<1>6. \A f \in Before[n] : f \in First(L)
  BY <1>4, <1>5 DEF SealedAt
<1>7. QED
  BY <1>6

\* What a call of a function in that part changes is in the set computed for it,
\* less what its contract and its DS policy promise: by induction on how deep
\* the calls go.
LEMMA ChangesBounded ==
    ASSUME TypeOK, ClobbersInv, pc = "done", \A f \in Fn : prog.tails[f] = {},
           NEW L \in 0 .. Len(topo_order), SealedAt(L)
    PROVE  \A n \in Nat : \A f \in First(L) :
              Changes[n][f] \subseteq
                  clobbers[f] \ (collect_function_save_regs(f) \cup DsKept(f))
<1> DEFINE Kept(f) == collect_function_save_regs(f) \cup DsKept(f)
           Bad == {n \in Nat : \E f \in First(L) :
                     ~(Changes[n][f] \subseteq clobbers[f] \ Kept(f))}
<1> HIDE DEF Kept
<1> SUFFICES ASSUME Bad # {} PROVE FALSE
  BY DEF Kept
<1>1. PICK n \in Bad : \A m \in Bad : n <= m
  <2>1. Bad \subseteq Nat
    OBVIOUS
  <2> HIDE DEF Bad
  <2>2. QED
    BY <2>1, SmallestElement
<1>2. PICK f \in First(L) : ~(Changes[n][f] \subseteq clobbers[f] \ Kept(f))
  OBVIOUS
<1>3. PICK k \in 1 .. L : f = topo_order[k]
  BY DEF First
<1>4. k \in 1 .. Len(topo_order) /\ f \in Fn /\ Early(k)
  BY <1>3 DEF TypeOK, SealedAt
<1>5. n # 0
  BY <1>2, <1>4, ChangesDef
<1>6. PICK m \in Nat : n = m + 1
  <2>1. n - 1 \in Nat /\ n = n - 1 + 1
    BY <1>5
  <2>2. QED
    BY <2>1
<1>7. \A g \in First(L) : Changes[m][g] \subseteq clobbers[g] \ Kept(g)
  BY <1>1, <1>6
<1>8. clobbers[f] = AllClobbers(f)
  BY <1>3, <1>4 DEF ClobbersInv, Computed
<1>9. \A c \in prog.calls[f] : Changes[m][c] \subseteq SiteClobbers(c)
  <2> SUFFICES ASSUME NEW c \in prog.calls[f] PROVE Changes[m][c] \subseteq SiteClobbers(c)
    OBVIOUS
  <2>1. c \in Fn \cup Ext
    BY <1>4 DEF TypeOK, Program
  <2>2. CASE c \in Fn
    <3>1. c \in First(k - 1)
      BY <1>3, <1>4, <2>2 DEF Early, Callees
    <3>2. c \in First(L)
      BY <3>1 DEF First
    <3>3. QED
      BY <1>7, <2>2, <3>2 DEF SiteClobbers
  <2>3. CASE c \in Ext
    <3>1. c \notin Fn
      BY <2>3, ProgramsAssumption
    <3>2. Changes[m][c] = {} \/ Changes[m][c] = (Reg \ prog.preserves[c]) \ DsKept(c)
      <4>1. CASE m = 0
        BY <2>1, <4>1, ChangesDef
      <4>2. CASE m # 0
        <5>1. PICK j \in Nat : m = j + 1
          <6>1. m - 1 \in Nat /\ m = m - 1 + 1
            BY <4>2
          <6>2. QED
            BY <6>1
        <5>2. QED
          BY <2>3, <5>1, ChangesDef
      <4>3. QED
        BY <4>1, <4>2
    <3>3. QED
      BY <3>1, <3>2 DEF SiteClobbers
  <2>4. QED
    BY <2>1, <2>2, <2>3
<1>10. Changes[n][f] = ((prog.own[f] \cup UNION {Changes[m][d] : d \in prog.calls[f]}) \ Kept(f))
                       \cup UNION {Changes[m][d] : d \in prog.tails[f]}
  BY <1>4, <1>6, ChangesDef DEF Kept
<1>11. UNION {Changes[m][d] : d \in prog.tails[f]} = {}
  BY <1>4
<1>12. UNION {Changes[m][d] : d \in prog.calls[f]} \subseteq
           UNION {SiteClobbers(d) : d \in prog.calls[f]}
  BY <1>9
<1>13. Changes[n][f] \subseteq AllClobbers(f) \ Kept(f)
  BY <1>10, <1>11, <1>12 DEF AllClobbers, Kept
<1>14. QED
  BY <1>2, <1>8, <1>13

\* In the end no call site of a function that reaches no recursion loses a
\* register it relies on.
LEMMA SafeWhenDone ==
    TypeOK /\ OrderInv /\ ClobbersInv => AcyclicCallsSafe
<1> SUFFICES ASSUME TypeOK, OrderInv, ClobbersInv, pc = "done",
                    \A f \in Fn : prog.tails[f] = {},
                    NEW f \in Grounded, NEW c \in prog.calls[f]
             PROVE  SiteSafe(c)
  BY DEF AcyclicCallsSafe
<1>1. PICK L \in 0 .. Len(topo_order) : SealedAt(L)
  BY DEF OrderInv
<1>2. PICK n \in Nat : n = NF + 1
  BY NFAssumption
<1>3. f \in First(L) /\ L \in Nat
  BY <1>1, GroundedFirst, NFAssumption DEF Grounded
<1>4. PICK k \in 1 .. L : f = topo_order[k]
  BY <1>3 DEF First
<1>5. f \in Fn /\ Early(k)
  BY <1>1, <1>4 DEF TypeOK, SealedAt
<1>6. c \in Fn \cup Ext
  BY <1>5 DEF TypeOK, Program
<1>7. CASE c \in Fn
  <2>1. c \in First(L)
    BY <1>4, <1>5, <1>7 DEF Early, Callees, First
  <2>2. Changes[n][c] \subseteq
            clobbers[c] \ (collect_function_save_regs(c) \cup DsKept(c))
    BY <1>1, <2>1, ChangesBounded
  <2>3. c \notin Ext
    BY <1>7, ProgramsAssumption
  <2>4. Changes[n][c] \cap callee_preserves(c) = {}
    BY <2>2, <2>3 DEF callee_preserves, collect_function_save_regs
  <2>5. QED
    BY <1>2, <2>4 DEF SiteSafe
<1>8. CASE c \in Ext
  <2>1. Changes[n][c] = (Reg \ prog.preserves[c]) \ DsKept(c)
    BY <1>2, <1>8, ChangesDef, NFAssumption
  <2>2. Changes[n][c] \cap callee_preserves(c) = {}
    BY <1>8, <2>1 DEF callee_preserves
  <2>3. QED
    BY <1>2, <2>2 DEF SiteSafe
<1>9. QED
  BY <1>6, <1>7, <1>8

\* Without tail calls and recursion no call site loses a live register, for
\* every call graph, contract and DS policy.
THEOREM AcyclicCallsSafeCorrect == Spec => []AcyclicCallsSafe
<1>1. Init => Started
  BY ProgramsAssumption DEF Init, Started
<1>2. Started => OrderInv /\ ClobbersInv
  BY DEF Started, StartSort, OrderInv, ClobbersInv
<1>3. QED
  BY <1>1, <1>2, SortInit, SortNext, OrderNext, ClobbersNext, SafeWhenDone, PTL
  DEF Spec

-----------------------------------------------------------------------------
(* The call order and the clobber sets in main(). *)

\* main() is given a well-formed program and starts the sort on it.
LEMMA BindStarts == BindInit => Started
BY InputsAssumption DEF BindInit, Started

\* Seen from the call graph, every step of main() is a step of the sort or of
\* the clobber loop, or none.
LEMMA BindClobbers == [BindNext]_mainVars => [Next]_vars
<1> SUFFICES ASSUME [BindNext]_mainVars PROVE [Next]_vars
  OBVIOUS
<1>1. CASE SortStep
  BY <1>1 DEF SortStep, Next
<1>2. CASE Clobbering
  BY <1>2 DEF Clobbering, Next
<1>3. CASE Preferring
  BY <1>3 DEF Preferring, PreferStep
<1>4. CASE UNCHANGED mainVars
  BY <1>4 DEF mainVars
<1>5. QED
  BY <1>1, <1>2, <1>3, <1>4
  DEF BindNext, Placing, EndPlacement, AbiFailed, BeginEmission, EndEmission, Exited, mainVars

\* The binder orders the functions of every program the way Order allows.
THEOREM BindSortsCallees == BindSpec => SortsCallees
<1>1. BindInit => TypeOK /\ SortInv /\ Sorting!Init
  BY BindStarts, SortInit, SortingInit
<1>2. QED
  BY <1>1, BindClobbers, SortNext, SortingNext, PTL
  DEF BindSpec, SortsCallees, Sorting!Spec

\* In every program the binder accepts, no call site of a function that reaches
\* neither recursion nor a tail call loses a register it relies on.
THEOREM BindCallsSafe == BindSpec => []AcyclicCallsSafe
<1>1. BindInit => TypeOK /\ SortInv
  BY BindStarts, SortInit
<1>2. BindInit => OrderInv /\ ClobbersInv
  BY BindStarts DEF Started, StartSort, OrderInv, ClobbersInv
<1>3. QED
  BY <1>1, <1>2, BindClobbers, SortNext, OrderNext, ClobbersNext, SafeWhenDone, PTL
  DEF BindSpec

-----------------------------------------------------------------------------
(* Type correctness. *)

Segs == Seg \cup {UNKNOWN}
AsmSegs == Seg \cup {UNKNOWN, 0}
WalkFrame == [mod : Mod, ei : Nat, depth : Nat]
OrgFrame == [base : AsmSegs, seg : AsmSegs]
Asm == [base : AsmSegs, seg : AsmSegs, stack : Seq(OrgFrame), labels : Seq(Ref \X AsmSegs)]

Types ==
    /\ layout \in Layout
    /\ walk \in Seq(WalkFrame) /\ seen \subseteq Mod
    /\ current_seg \in Segs /\ seg_stack \in Seq(Segs)
    /\ emit_seg \in [Ref -> Segs] /\ bind_errors \in Nat
    /\ asm \in Asm /\ entries \in Seq(Asm) /\ Len(entries) = Len(walk)

\* The calls under way are of different modules, each at one of its items or at
\* its end, the outer ones at the .use they expand.
WalkInv ==
    /\ \A k \in 1 .. Len(walk) :
          /\ walk[k].mod \in seen
          /\ walk[k].ei \in 1 .. Len(layout.items[walk[k].mod]) + 1
          /\ k < Len(walk) => walk[k].ei <= Len(layout.items[walk[k].mod])
    /\ \A j, k \in 1 .. Len(walk) : walk[j].mod = walk[k].mod => j = k

\* A call is of the module used where the one around it is.
CallsInv ==
    \A k \in 1 .. Len(walk) - 1 :
        LET it == layout.items[walk[k].mod][walk[k].ei] IN
        it.kind = "use" /\ it.ref = walk[k + 1].mod

\* The fields of the calls under way.
LEMMA WalkTypes ==
    ASSUME Types
    PROVE  /\ walk \in Seq(WalkFrame) /\ Len(walk) \in Nat
           /\ \A k \in 1 .. Len(walk) : walk[k] \in WalkFrame /\ walk[k].mod \in Mod
                                        /\ walk[k].ei \in Nat /\ walk[k].depth \in Nat
<1>1. walk \in Seq(WalkFrame) /\ Len(walk) \in Nat
  BY DEF Types
<1>2. \A k \in 1 .. Len(walk) : walk[k] \in WalkFrame
  BY <1>1
<1>3. QED
  BY <1>1, <1>2 DEF WalkFrame

\* The item a walk is at is one of the layout's.
LEMMA CurType ==
    ASSUME Types, WalkInv, NEW kinds, At(kinds)
    PROVE  /\ walk # << >> /\ Len(walk) \in 1 .. Len(walk) /\ Top = walk[Len(walk)]
           /\ Top \in WalkFrame /\ Top.ei \in 1 .. Len(Items)
           /\ Items \in Seq(Item) /\ Cur \in Item
<1>1. walk # << >> /\ Len(walk) \in 1 .. Len(walk) /\ Top = walk[Len(walk)]
  BY DEF Types, At, Top, Last
<1>2. Top \in WalkFrame /\ Top.ei \in 1 .. Len(layout.items[Top.mod]) + 1
  BY <1>1 DEF Types, WalkInv
<1>3. Items \in Seq(Item)
  BY <1>2 DEF Types, Layout, Items, WalkFrame
<1>4. Top.ei \in 1 .. Len(Items)
  BY <1>2, <1>3 DEF At, Items
<1>5. QED
  BY <1>1, <1>2, <1>3, <1>4 DEF Cur

\* What an item may be.
LEMMA ItemKinds ==
    ASSUME NEW it \in Item
    PROVE  /\ it.kind \in Kinds /\ it.seg \in Segs
           /\ it.kind \in Declares => it.ref \in Ref
           /\ it.kind = "use" => it.ref \in Mod
           /\ it.kind = "at" => it.seg \in Seg
BY DEF Item, Segs

\* Going on to the next item.
LEMMA AdvanceWalk ==
    ASSUME Types, WalkInv, NEW kinds, At(kinds), Advance
    PROVE  /\ walk' \in Seq(WalkFrame) /\ Len(walk') = Len(walk) /\ entries' = entries
           /\ \A k \in 1 .. Len(walk) :
                 /\ walk'[k].mod = walk[k].mod /\ walk'[k].depth = walk[k].depth
                 /\ walk'[k].ei = IF k = Len(walk) THEN walk[k].ei + 1 ELSE walk[k].ei
<1>1. Len(walk) \in 1 .. Len(walk) /\ Top = walk[Len(walk)] /\ Top \in WalkFrame
  BY CurType
<1> DEFINE new == [Top EXCEPT !.ei = Top.ei + 1]
<1>2. walk' = [walk EXCEPT ![Len(walk)] = new]
  BY <1>1 DEF Advance
<1>3. new \in WalkFrame /\ new.mod = Top.mod /\ new.ei = Top.ei + 1 /\ new.depth = Top.depth
  BY <1>1 DEF WalkFrame
<1> HIDE DEF new
<1>4. walk \in Seq(WalkFrame) /\ Len(walk) \in Nat
  BY DEF Types
<1>5. /\ walk' \in Seq(WalkFrame) /\ Len(walk') = Len(walk)
      /\ \A k \in 1 .. Len(walk) : walk'[k] = IF k = Len(walk) THEN new ELSE walk[k]
  BY <1>1, <1>2, <1>3, <1>4, ChangeOne
<1>6. QED
  BY <1>1, <1>3, <1>5 DEF Advance

\* Going on to the next item keeps the walk well formed.
LEMMA AdvanceKeeps ==
    ASSUME Types, WalkInv, NEW kinds, At(kinds), Advance, UNCHANGED <<layout, seen>>
    PROVE  /\ walk' \in Seq(WalkFrame) /\ Len(walk') = Len(walk)
           /\ entries' = entries
           /\ WalkInv'
<1>1. Len(walk) \in 1 .. Len(walk) /\ Top = walk[Len(walk)] /\ Top \in WalkFrame
      /\ Top.ei \in 1 .. Len(layout.items[Top.mod])
  BY CurType DEF Items
<1>2. /\ walk' \in Seq(WalkFrame) /\ Len(walk') = Len(walk) /\ entries' = entries
      /\ \A k \in 1 .. Len(walk) :
            /\ walk'[k].mod = walk[k].mod
            /\ walk'[k].ei = IF k = Len(walk) THEN walk[k].ei + 1 ELSE walk[k].ei
  BY AdvanceWalk
<1>3. \A k \in 1 .. Len(walk') :
          /\ walk'[k].mod \in seen'
          /\ walk'[k].ei \in 1 .. Len(layout'.items[walk'[k].mod]) + 1
          /\ k < Len(walk') => walk'[k].ei <= Len(layout'.items[walk'[k].mod])
  <2> SUFFICES ASSUME NEW k \in 1 .. Len(walk)
               PROVE  /\ walk'[k].mod \in seen
                      /\ walk'[k].ei \in 1 .. Len(layout.items[walk'[k].mod]) + 1
                      /\ k < Len(walk) => walk'[k].ei <= Len(layout.items[walk'[k].mod])
    BY <1>2
  <2>1. CASE k = Len(walk)
    <3>1. Len(layout.items[Top.mod]) \in Nat
      BY <1>1 DEF Types, Layout, WalkFrame
    <3>2. Top.mod \in seen
      BY <1>1 DEF WalkInv
    <3>3. QED
      BY <1>1, <1>2, <2>1, <3>1, <3>2, SMTT(30)
  <2>2. CASE k # Len(walk)
    BY <1>2, <2>2 DEF WalkInv
  <2>3. QED
    BY <2>1, <2>2
<1>4. \A j, k \in 1 .. Len(walk') : walk'[j].mod = walk'[k].mod => j = k
  BY <1>2 DEF WalkInv
<1>5. QED
  BY <1>2, <1>3, <1>4 DEF WalkInv

\* Entering a module.
LEMMA EnterWalk ==
    ASSUME Types, NEW m \in Mod, Enter(m)
    PROVE  /\ walk' \in Seq(WalkFrame) /\ Len(walk') = Len(walk) + 1
           /\ \A k \in 1 .. Len(walk) : walk'[k] = walk[k]
           /\ walk'[Len(walk) + 1] = [mod |-> m, ei |-> 1, depth |-> Len(seg_stack)]
           /\ seen' = seen \cup {m} /\ entries' = Append(entries, asm)
<1> DEFINE new == [mod |-> m, ei |-> 1, depth |-> Len(seg_stack)]
<1>1. new \in WalkFrame /\ walk \in Seq(WalkFrame)
  BY DEF WalkFrame, Types
<1>2. walk' = Append(walk, new) /\ seen' = seen \cup {m} /\ entries' = Append(entries, asm)
  BY DEF Enter
<1> HIDE DEF new
<1>3. /\ walk' \in Seq(WalkFrame) /\ Len(walk') = Len(walk) + 1
      /\ \A k \in 1 .. Len(walk) : walk'[k] = walk[k]
      /\ walk'[Len(walk) + 1] = new
  BY <1>1, <1>2
<1>4. QED
  BY <1>2, <1>3 DEF new

\* Entering a module not seen before keeps the walk well formed.
LEMMA EnterKeeps ==
    ASSUME Types, WalkInv, At({"use"}), Cur.ref \notin seen, Enter(Cur.ref),
           UNCHANGED <<layout, asm>>
    PROVE  /\ walk' \in Seq(WalkFrame) /\ Len(walk') = Len(walk) + 1
           /\ entries' \in Seq(Asm) /\ Len(entries') = Len(walk')
           /\ seen' \subseteq Mod /\ WalkInv'
<1>1. Len(walk) \in 1 .. Len(walk) /\ Top = walk[Len(walk)] /\ Top \in WalkFrame
      /\ Top.ei \in 1 .. Len(layout.items[Top.mod])
  BY CurType DEF Items
<1>2. Cur.ref \in Mod
  BY CurType, ItemKinds DEF At
<1> DEFINE new == [mod |-> Cur.ref, ei |-> 1, depth |-> Len(seg_stack)]
<1>3. new \in WalkFrame
  BY <1>2 DEF WalkFrame, Types
<1>4. walk' = Append(walk, new) /\ walk' \in Seq(WalkFrame) /\ Len(walk') = Len(walk) + 1
  BY <1>3 DEF Enter, Types
<1>5. \A k \in 1 .. Len(walk') :
          \/ k \in 1 .. Len(walk) /\ walk'[k] = walk[k]
          \/ k = Len(walk) + 1 /\ walk'[k] = new
  BY <1>3, <1>4 DEF Types
<1>6. entries' \in Seq(Asm) /\ Len(entries') = Len(walk')
  BY <1>4 DEF Enter, Types
<1>7. seen' \subseteq Mod /\ seen' = seen \cup {Cur.ref}
  BY <1>2 DEF Enter, Types
<1>8. Len(layout.items[Cur.ref]) \in Nat
  BY <1>2 DEF Types, Layout
<1>9. \A k \in 1 .. Len(walk') :
          /\ walk'[k].mod \in seen'
          /\ walk'[k].ei \in 1 .. Len(layout'.items[walk'[k].mod]) + 1
          /\ k < Len(walk') => walk'[k].ei <= Len(layout'.items[walk'[k].mod])
  <2> SUFFICES ASSUME NEW k \in 1 .. Len(walk')
               PROVE  /\ walk'[k].mod \in seen'
                      /\ walk'[k].ei \in 1 .. Len(layout.items[walk'[k].mod]) + 1
                      /\ k < Len(walk') => walk'[k].ei <= Len(layout.items[walk'[k].mod])
    OBVIOUS
  <2>1. CASE k = Len(walk) + 1
    BY <1>4, <1>5, <1>7, <1>8, <2>1
  <2>2. CASE k \in 1 .. Len(walk) /\ walk'[k] = walk[k]
    <3>1. walk[k].ei <= Len(layout.items[walk[k].mod])
      BY <1>1, <2>2, SMTT(30) DEF WalkInv
    <3>2. QED
      BY <1>7, <2>2, <3>1 DEF WalkInv
  <2>3. QED
    BY <1>5, <2>1, <2>2
<1>10. \A j, k \in 1 .. Len(walk') : walk'[j].mod = walk'[k].mod => j = k
  <2>1. \A j \in 1 .. Len(walk) : walk[j].mod # Cur.ref
    BY DEF WalkInv
  <2>2. QED
    BY <1>5, <2>1 DEF WalkInv
<1>11. QED
  BY <1>4, <1>6, <1>7, <1>9, <1>10 DEF WalkInv

\* Returning to the using module, after its .use.
LEMMA ReturnWalk ==
    ASSUME Types, WalkInv, EndOfUse, Return
    PROVE  /\ walk' \in Seq(WalkFrame) /\ Len(walk') = Len(walk) - 1
           /\ Len(walk) - 1 \in 1 .. Len(walk)
           /\ \A k \in 1 .. Len(walk) - 1 :
                 /\ walk'[k].mod = walk[k].mod /\ walk'[k].depth = walk[k].depth
                 /\ walk'[k].ei = IF k = Len(walk) - 1 THEN walk[k].ei + 1 ELSE walk[k].ei
           /\ entries' \in Seq(Asm) /\ Len(entries') = Len(walk')
           /\ \A k \in 1 .. Len(walk) - 1 : entries'[k] = entries[k]
<1> DEFINE n == Len(walk) - 1
<1>1. walk \in Seq(WalkFrame) /\ Len(walk) \in Nat /\ Len(walk) > 1
  BY DEF Types, EndOfUse
<1>2. /\ n \in 1 .. Len(walk) /\ Len(Front(walk)) = n /\ Front(walk) \in Seq(WalkFrame)
      /\ \A k \in 1 .. n : Front(walk)[k] = walk[k]
  BY <1>1, FrontOf
<1>3. /\ walk[n] \in WalkFrame /\ walk[n].ei \in 1 .. Len(layout.items[walk[n].mod])
      /\ Len(layout.items[walk[n].mod]) \in Nat
  <2>1. n < Len(walk) /\ walk[n] \in WalkFrame
    BY <1>1, <1>2
  <2>2. /\ walk[n].ei \in 1 .. Len(layout.items[walk[n].mod]) + 1
        /\ walk[n].ei <= Len(layout.items[walk[n].mod])
    BY <1>2, <2>1 DEF WalkInv
  <2>3. Len(layout.items[walk[n].mod]) \in Nat
    BY <2>1 DEF Types, Layout, WalkFrame
  <2>4. QED
    BY <2>1, <2>2, <2>3
<1> DEFINE new == [walk[n] EXCEPT !.ei = walk[n].ei + 1]
<1>4. walk' = [Front(walk) EXCEPT ![n] = new]
  <2>1. n \in DOMAIN Front(walk) /\ Front(walk)[n] = walk[n]
    BY <1>1, <1>2
  <2>2. QED
    BY <2>1 DEF Return
<1>5. new \in WalkFrame /\ new.mod = walk[n].mod /\ new.ei = walk[n].ei + 1
      /\ new.depth = walk[n].depth
  BY <1>3 DEF WalkFrame
<1>6. /\ walk' \in Seq(WalkFrame) /\ Len(walk') = n
      /\ \A k \in 1 .. n : walk'[k] = IF k = n THEN new ELSE walk[k]
  <2> HIDE DEF new
  <2>1. n \in 1 .. Len(Front(walk))
    BY <1>1, <1>2
  <2>2. QED
    BY <1>2, <1>4, <1>5, <2>1, ChangeOne
<1> HIDE DEF new
<1>7. entries' \in Seq(Asm) /\ Len(entries') = n /\ \A k \in 1 .. n : entries'[k] = entries[k]
  <2>1. entries \in Seq(Asm) /\ Len(entries) > 0 /\ Len(entries) = Len(walk)
    BY <1>1 DEF Types
  <2>2. QED
    BY <2>1, FrontOf DEF Return
<1>8. QED
  BY <1>2, <1>5, <1>6, <1>7

\* Returning to the using module, after its .use, keeps the walk well formed.
LEMMA ReturnKeeps ==
    ASSUME Types, WalkInv, EndOfUse, Return, UNCHANGED <<layout, seen>>
    PROVE  /\ walk' \in Seq(WalkFrame) /\ Len(walk') = Len(walk) - 1
           /\ entries' \in Seq(Asm) /\ Len(entries') = Len(walk')
           /\ WalkInv'
<1> DEFINE n == Len(walk) - 1
<1>1. walk \in Seq(WalkFrame) /\ Len(walk) \in Nat /\ Len(walk) > 1
  BY DEF Types, EndOfUse
<1>2. n \in 1 .. Len(walk) /\ n < Len(walk)
  BY <1>1
<1>3. /\ walk[n] \in WalkFrame /\ walk[n].ei \in 1 .. Len(layout.items[walk[n].mod])
      /\ Len(layout.items[walk[n].mod]) \in Nat
  <2>1. n < Len(walk) /\ walk[n] \in WalkFrame
    BY <1>1, <1>2
  <2>2. /\ walk[n].ei \in 1 .. Len(layout.items[walk[n].mod]) + 1
        /\ walk[n].ei <= Len(layout.items[walk[n].mod])
    BY <1>2, <2>1 DEF WalkInv
  <2>3. Len(layout.items[walk[n].mod]) \in Nat
    BY <2>1 DEF Types, Layout, WalkFrame
  <2>4. QED
    BY <2>1, <2>2, <2>3
<1>4. /\ walk' \in Seq(WalkFrame) /\ Len(walk') = n
      /\ \A k \in 1 .. n :
            /\ walk'[k].mod = walk[k].mod
            /\ walk'[k].ei = IF k = n THEN walk[k].ei + 1 ELSE walk[k].ei
      /\ entries' \in Seq(Asm) /\ Len(entries') = Len(walk')
  BY ReturnWalk
<1>5. \A k \in 1 .. Len(walk') :
          /\ walk'[k].mod \in seen'
          /\ walk'[k].ei \in 1 .. Len(layout'.items[walk'[k].mod]) + 1
          /\ k < Len(walk') => walk'[k].ei <= Len(layout'.items[walk'[k].mod])
  <2> SUFFICES ASSUME NEW k \in 1 .. n
               PROVE  /\ walk'[k].mod \in seen
                      /\ walk'[k].ei \in 1 .. Len(layout.items[walk'[k].mod]) + 1
                      /\ k < n => walk'[k].ei <= Len(layout.items[walk'[k].mod])
    BY <1>4
  <2>1. k \in 1 .. Len(walk) /\ k < Len(walk)
    BY <1>1
  <2>2. CASE k = n
    <3>1. walk[n].mod \in seen
      BY <2>1, <2>2 DEF WalkInv
    <3>2. walk'[k].mod = walk[n].mod /\ walk'[k].ei = walk[n].ei + 1 /\ ~(k < n)
      BY ONLY <1>1, <1>2, <1>4, <2>2, k \in 1 .. n
    <3>3. QED
      BY ONLY <1>3, <2>2, <3>1, <3>2
  <2>3. CASE k # n
    <3>1. walk'[k].mod = walk[k].mod /\ walk'[k].ei = walk[k].ei
      BY ONLY <1>4, <2>3, k \in 1 .. n
    <3>2. /\ walk[k].mod \in seen /\ walk[k].ei \in 1 .. Len(layout.items[walk[k].mod]) + 1
          /\ walk[k].ei <= Len(layout.items[walk[k].mod])
      BY <2>1 DEF WalkInv
    <3>3. QED
      BY ONLY <3>1, <3>2
  <2>4. QED
    BY <2>2, <2>3
<1>6. \A j, k \in 1 .. Len(walk') : walk'[j].mod = walk'[k].mod => j = k
  <2>1. \A k \in 1 .. n : walk'[k].mod = walk[k].mod /\ k \in 1 .. Len(walk)
    BY <1>1, <1>4
  <2>2. QED
    BY <1>4, <2>1 DEF WalkInv
<1>7. QED
  BY <1>4, <1>5, <1>6 DEF WalkInv

-----------------------------------------------------------------------------
(* Each step keeps the types and the walk. *)

\* Opening a block keeps the segment stack one of segments.
LEMMA PushType ==
    ASSUME Types, NEW s \in Segs, PushSeg(s)
    PROVE  current_seg' \in Segs /\ seg_stack' \in Seq(Segs)
BY DEF Types, PushSeg

\* Closing blocks keeps the segment stack one of segments.
LEMMA PopType ==
    ASSUME Types, NEW n \in Nat, PopTo(n)
    PROVE  current_seg' \in Segs /\ seg_stack' \in Seq(Segs)
<1>1. seg_stack \in Seq(Segs) /\ Len(seg_stack) \in Nat /\ current_seg \in Segs
  BY DEF Types
<1>2. CASE Len(seg_stack) > n
  <2>1. seg_stack[n + 1] \in Segs /\ SubSeq(seg_stack, 1, n) \in Seq(Segs)
    BY <1>1, <1>2
  <2>2. QED
    BY <1>2, <2>1 DEF PopTo
<1>3. CASE ~(Len(seg_stack) > n)
  BY <1>1, <1>3 DEF PopTo
<1>4. QED
  BY <1>2, <1>3

\* endat closes the innermost block.
LEMMA PopSegType ==
    ASSUME Types, PopSeg
    PROVE  current_seg' \in Segs /\ seg_stack' \in Seq(Segs)
<1> DEFINE n == IF seg_stack = << >> THEN 0 ELSE Len(seg_stack) - 1
<1>1. seg_stack \in Seq(Segs)
  BY DEF Types
<1>2. n \in Nat
  BY <1>1
<1>3. PopTo(n)
  BY DEF PopSeg
<1> HIDE DEF n
<1>4. QED
  BY <1>2, <1>3, PopType

\* The assembler's directives keep its state well formed.
LEMMA AsmTypes ==
    ASSUME NEW a \in Asm
    PROVE  /\ \A s \in AsmSegs : Org(a, s) \in Asm /\ [a EXCEPT !.seg = s] \in Asm
           /\ \A r \in Ref : Label(a, r) \in Asm
           /\ \A n \in Nat : Endorgs(a, n) \in Asm
<1>1. ASSUME NEW s \in AsmSegs PROVE Org(a, s) \in Asm /\ [a EXCEPT !.seg = s] \in Asm
  <2>1. Append(a.stack, [base |-> a.base, seg |-> a.seg]) \in Seq(OrgFrame)
    BY DEF Asm, OrgFrame
  <2>2. QED
    BY <2>1 DEF Asm, Org
<1>2. ASSUME NEW r \in Ref PROVE Label(a, r) \in Asm
  <2>1. Append(a.labels, <<r, a.seg>>) \in Seq(Ref \X AsmSegs)
    BY DEF Asm
  <2>2. QED
    BY <2>1 DEF Asm, Label
<1>3. ASSUME NEW n \in Nat PROVE Endorgs(a, n) \in Asm
  <2> DEFINE left == IF n > Len(a.stack) THEN 0 ELSE Len(a.stack) - n
  <2>1. a.stack \in Seq(OrgFrame) /\ Len(a.stack) \in Nat /\ left \in 0 .. Len(a.stack)
    BY DEF Asm
  <2>2. CASE left = Len(a.stack)
    BY <2>2 DEF Endorgs
  <2>3. CASE left # Len(a.stack)
    <3>1. a.stack[left + 1] \in OrgFrame /\ SubSeq(a.stack, 1, left) \in Seq(OrgFrame)
      <4>1. left + 1 \in 1 .. Len(a.stack)
        BY <2>1, <2>3
      <4>2. QED
        BY <2>1, <4>1
    <3>2. Endorgs(a, n) = [a EXCEPT !.base = a.stack[left + 1].base,
                                    !.seg = a.stack[left + 1].seg,
                                    !.stack = SubSeq(a.stack, 1, left)]
      BY <2>3 DEF Endorgs
    <3> HIDE DEF left
    <3>3. QED
      BY <3>1, <3>2 DEF Asm, OrgFrame
  <2>4. QED
    BY <2>2, <2>3
<1>4. QED
  BY <1>1, <1>2, <1>3

\* The item a walk is at, and its segment.
LEMMA CurSeg ==
    ASSUME Types, WalkInv, NEW kinds, At(kinds)
    PROVE  /\ Cur.kind \in kinds /\ Cur.seg \in Segs /\ SegOfFn \in Segs
           /\ Cur.kind \in Declares => Cur.ref \in Ref
           /\ Cur.kind = "use" => Cur.ref \in Mod
           /\ Cur.kind = "at" => Cur.seg \in Seg
           /\ Cur.seg \in AsmSegs
<1>1. Cur \in Item /\ Cur.kind \in kinds
  BY CurType DEF At
<1>2. QED
  BY <1>1, ItemKinds DEF SegOfFn, Types, Segs, AsmSegs

\* The module a walk is in.
LEMMA TopType ==
    ASSUME Types, Len(walk) > 0
    PROVE  Top = walk[Len(walk)] /\ Top \in WalkFrame /\ Top.depth \in Nat /\ Top.mod \in Mod
<1>1. walk \in Seq(WalkFrame)
  BY DEF Types
<1>2. Top \in WalkFrame /\ Top = walk[Len(walk)]
  BY <1>1, FrontOf DEF Top
<1>3. QED
  BY <1>2 DEF WalkFrame

\* Its items.
LEMMA TopItems ==
    ASSUME Types, WalkInv, Len(walk) > 0
    PROVE  /\ Items \in Seq(Item) /\ Len(Items) \in Nat /\ Top.ei \in Nat
           /\ Top.ei \in 1 .. Len(Items) + 1
<1>1. Top = walk[Len(walk)] /\ Top \in WalkFrame /\ Top.mod \in Mod /\ Len(walk) \in 1 .. Len(walk)
  BY TopType DEF Types
<1>2. Items \in Seq(Item)
  BY <1>1 DEF Types, Layout, Items
<1>3. QED
  BY <1>1, <1>2 DEF WalkInv, Items

\* A step of the placement walk keeps the state well formed.
LEMMA PlaceStepTypes ==
    ASSUME Types, WalkInv, PlaceStep
    PROVE  Types' /\ WalkInv'
<1>1. CASE PlaceFn
  <2>1. At({"fn"}) /\ Advance /\ UNCHANGED <<layout, stage, seen, current_seg, seg_stack, bind_errors, asm>>
    BY <1>1 DEF PlaceFn
  <2>2. emit_seg' \in [Ref -> Segs]
    BY <1>1, <2>1, CurSeg DEF PlaceFn, Types, Declares
  <2>3. QED
    BY <2>1, <2>2, AdvanceKeeps DEF Types
<1>2. CASE PlaceData
  <2>1. At({"data"}) /\ Advance /\ UNCHANGED <<layout, stage, seen, asm>>
    BY <1>2 DEF PlaceData
  <2>2. emit_seg' \in [Ref -> Segs] /\ bind_errors' \in Nat
    BY <1>2, <2>1, CurSeg DEF PlaceData, Types, Declares
  <2>3. current_seg' \in Segs /\ seg_stack' \in Seq(Segs)
    BY <1>2, <2>1, CurSeg, PushType DEF PlaceData, Types
  <2>4. QED
    BY <2>1, <2>2, <2>3, AdvanceKeeps DEF Types
<1>3. CASE PlaceGlobal
  <2>1. At({"glob"}) /\ Advance /\ UNCHANGED <<layout, stage, seen, emit_seg, bind_errors, asm>>
    BY <1>3 DEF PlaceGlobal
  <2>2. current_seg' \in Segs /\ seg_stack' \in Seq(Segs)
    BY <1>3, <2>1, CurSeg, PushType DEF PlaceGlobal, Types
  <2>3. QED
    BY <2>1, <2>2, AdvanceKeeps DEF Types
<1>4. CASE PlaceAt
  <2>1. At({"at", "endat"}) /\ Advance
        /\ UNCHANGED <<layout, stage, seen, emit_seg, bind_errors, asm>>
    BY <1>4 DEF PlaceAt
  <2>2. current_seg' \in Segs /\ seg_stack' \in Seq(Segs)
    BY <1>4, <2>1, CurSeg, PushType, PopSegType DEF PlaceAt
  <2>3. QED
    BY <2>1, <2>2, AdvanceKeeps DEF Types
<1>5. CASE PlaceReturn
  <2>1. EndOfUse /\ Return /\ PopTo(Top.depth)
        /\ UNCHANGED <<layout, stage, seen, emit_seg, bind_errors, asm>>
    BY <1>5 DEF PlaceReturn
  <2>2. Top.depth \in Nat
    BY <2>1, TopType DEF EndOfUse
  <2>3. current_seg' \in Segs /\ seg_stack' \in Seq(Segs)
    BY <2>1, <2>2, PopType
  <2>4. QED
    BY <2>1, <2>3, ReturnKeeps DEF Types
<1>6. QED
  BY <1>1, <1>2, <1>3, <1>4, <1>5 DEF PlaceStep

\* A step of the emission walk keeps the state well formed.
LEMMA EmitStepTypes ==
    ASSUME Types, WalkInv, EmitStep
    PROVE  Types' /\ WalkInv'
<1>0. asm \in Asm
  BY DEF Types
<1>1. CASE EmitFn
  <2>1. At({"fn"}) /\ Advance /\ UNCHANGED <<layout, stage, seen, current_seg, seg_stack, bind_errors>>
    BY <1>1 DEF EmitFn
  <2>2. emit_seg' \in [Ref -> Segs]
    BY <1>1, <2>1, CurSeg DEF EmitFn, Types, Declares
  <2>3. asm' \in Asm
    BY <1>0, <1>1, <2>1, CurSeg, AsmTypes DEF EmitFn, Declares
  <2>4. QED
    BY <2>1, <2>2, <2>3, AdvanceKeeps DEF Types
<1>2. CASE EmitData
  <2>1. At({"data"}) /\ Advance /\ UNCHANGED <<layout, stage, seen, emit_seg, bind_errors>>
    BY <1>2 DEF EmitData
  <2>2. current_seg' \in Segs /\ seg_stack' \in Seq(Segs)
    BY <1>2, <2>1, CurSeg, PushType DEF EmitData, Types
  <2>3. asm' \in Asm
    <3>1. Cur.ref \in Ref /\ emit_seg[Cur.ref] \in AsmSegs
      BY <2>1, CurSeg DEF Types, Segs, AsmSegs, Declares
    <3>2. QED
      BY <1>0, <1>2, <2>1, <3>1, CurSeg, AsmTypes DEF EmitData
  <2>4. QED
    BY <2>1, <2>2, <2>3, AdvanceKeeps DEF Types
<1>3. CASE EmitGlobal
  <2>1. At({"glob"}) /\ Advance /\ UNCHANGED <<layout, stage, seen, emit_seg, bind_errors>>
    BY <1>3 DEF EmitGlobal
  <2>2. current_seg' \in Segs /\ seg_stack' \in Seq(Segs)
    BY <1>3, <2>1, CurSeg, PushType DEF EmitGlobal, Types
  <2>3. asm' \in Asm
    BY <1>0, <1>3, <2>1, CurSeg, AsmTypes DEF EmitGlobal, Declares
  <2>4. QED
    BY <2>1, <2>2, <2>3, AdvanceKeeps DEF Types
<1>4. CASE EmitAt
  <2>1. At({"at", "endat"}) /\ Advance
        /\ UNCHANGED <<layout, stage, seen, emit_seg, bind_errors>>
    BY <1>4 DEF EmitAt
  <2>2. current_seg' \in Segs /\ seg_stack' \in Seq(Segs)
    BY <1>4, <2>1, CurSeg, PushType, PopSegType DEF EmitAt
  <2>3. asm' \in Asm
    BY <1>0, <1>4, <2>1, CurSeg, AsmTypes DEF EmitAt
  <2>4. QED
    BY <2>1, <2>2, <2>3, AdvanceKeeps DEF Types
<1>5. CASE EmitReturn
  <2>1. EndOfUse /\ Return /\ PopTo(Top.depth)
        /\ UNCHANGED <<layout, stage, seen, emit_seg, bind_errors>>
    BY <1>5 DEF EmitReturn
  <2>2. Top.depth \in Nat
    BY <2>1, TopType DEF EndOfUse
  <2>3. current_seg' \in Segs /\ seg_stack' \in Seq(Segs)
    BY <2>1, <2>2, PopType
  <2>4. asm' \in Asm
    <3>1. Len(seg_stack) \in Nat
      BY DEF Types
    <3>2. CASE Len(seg_stack) > Top.depth
      <4>1. Len(seg_stack) - Top.depth \in Nat
        BY <2>2, <3>1, <3>2
      <4>2. QED
        BY <1>0, <1>5, <3>2, <4>1, AsmTypes DEF EmitReturn
    <3>3. QED
      BY <1>0, <1>5, <3>2 DEF EmitReturn
  <2>5. QED
    BY <2>1, <2>3, <2>4, ReturnKeeps DEF Types
<1>6. QED
  BY <1>1, <1>2, <1>3, <1>4, <1>5 DEF EmitStep

\* So does the step at a .use.
LEMMA UseTypes ==
    ASSUME Types, WalkInv, Use
    PROVE  Types' /\ WalkInv'
<1>1. At({"use"}) /\ UNCHANGED <<layout, stage, current_seg, seg_stack, emit_seg, bind_errors, asm>>
  BY DEF Use
<1>2. CASE Cur.ref \in seen
  <2>1. Advance /\ UNCHANGED seen
    BY <1>2 DEF Use
  <2>2. QED
    BY <1>1, <2>1, AdvanceKeeps DEF Types
<1>3. CASE Cur.ref \notin seen
  <2>1. Enter(Cur.ref)
    BY <1>3 DEF Use
  <2>2. QED
    BY <1>1, <1>3, <2>1, EnterKeeps DEF Types
<1>4. QED
  BY <1>2, <1>3

-----------------------------------------------------------------------------
(* main() around the walks. *)

\* A walk that begins is at the start of the last module given.
LEMMA BeginTypes ==
    ASSUME layout \in Layout, asm \in Asm,
           NEW w, w = <<[mod |-> layout.root, ei |-> 1, depth |-> 0]>>
    PROVE  /\ w \in Seq(WalkFrame) /\ Len(w) = 1 /\ w[1].mod = layout.root /\ w[1].ei = 1
           /\ layout.root \in Mod /\ Len(layout.items[layout.root]) \in Nat
           /\ <<asm>> \in Seq(Asm) /\ Len(<<asm>>) = 1
BY DEF Layout, WalkFrame

\* Nothing is placed when the first walk begins.
LEMMA PlacedInit ==
    ASSUME BindInit
    PROVE  Types /\ WalkInv
<1>1. layout \in Layout /\ PlaceInit
  BY InputsAssumption DEF BindInit
<1>2. asm \in Asm
  BY <1>1 DEF PlaceInit, Asm, AsmSegs
<1>3. Types
  BY <1>1, <1>2, BeginTypes DEF PlaceInit, Types, Segs
<1>4. WalkInv
  BY <1>1, <1>2, BeginTypes DEF PlaceInit, WalkInv
<1>5. QED
  BY <1>3, <1>4

\* Every step of main() keeps the state of the walks well formed.
LEMMA PlacedNext ==
    ASSUME Types, WalkInv, [BindNext]_mainVars
    PROVE  Types' /\ WalkInv'
<1>0. CASE UNCHANGED placeVars
  BY <1>0 DEF Types, WalkInv, placeVars, placing
<1>1. CASE Placing
  BY <1>1, PlaceStepTypes, EmitStepTypes, UseTypes DEF Placing, PlaceNext
<1>2. ASSUME walk' = << >>, entries' = << >>,
             UNCHANGED <<layout, seen, current_seg, seg_stack, emit_seg, bind_errors, asm>>
      PROVE  Types' /\ WalkInv'
  <2>1. walk' \in Seq(WalkFrame) /\ entries' \in Seq(Asm) /\ Len(walk') = 0 /\ Len(entries') = 0
    BY <1>2
  <2>2. QED
    BY <1>2, <2>1 DEF Types, WalkInv
<1>3. CASE BeginEmission
  <2>1. Begin /\ UNCHANGED <<layout, emit_seg, bind_errors, asm>>
    BY <1>3 DEF BeginEmission
  <2>2. layout \in Layout /\ asm \in Asm
    BY DEF Types
  <2>3. Types'
    BY <2>1, <2>2, BeginTypes DEF Begin, Types, Segs
  <2>4. WalkInv'
    BY <2>1, <2>2, BeginTypes DEF Begin, WalkInv
  <2>5. QED
    BY <2>3, <2>4
<1>4. CASE AbiFailed
  BY <1>4 DEF AbiFailed, Types, WalkInv, placing
<1>5. QED
  BY <1>0, <1>1, <1>2, <1>3, <1>4
     DEF BindNext, EndPlacement, SortStep, Preferring, Clobbering, EndEmission, Exited,
         mainVars

-----------------------------------------------------------------------------
(* Where a walk stands.  Both walks go the same way: the next position is a  *)
(* function of the position and of the layout.                               *)

Position == [walk : Seq(WalkFrame), seen : SUBSET Mod, cs : Segs, ss : Seq(Segs)]
Pos == [walk |-> walk, seen |-> seen, cs |-> current_seg, ss |-> seg_stack]
Start == [walk |-> <<[mod |-> layout.root, ei |-> 1, depth |-> 0]>>, seen |-> {layout.root},
          cs |-> UNKNOWN, ss |-> << >>]

InMod(p) == layout.items[Last(p.walk).mod]
AtItem(p) == p.walk # << >> /\ Last(p.walk).ei <= Len(InMod(p))
ItemAt(p) == InMod(p)[Last(p.walk).ei]
SegIn(p) == IF ItemAt(p).seg # UNKNOWN THEN ItemAt(p).seg ELSE p.cs

Went(p) == [p.walk EXCEPT ![Len(p.walk)].ei = @ + 1]
Pushed(p, s) == [walk |-> Went(p), seen |-> p.seen, cs |-> s, ss |-> Append(p.ss, p.cs)]
Popped(p, w, n) ==
    [walk |-> w, seen |-> p.seen, cs |-> IF Len(p.ss) > n THEN p.ss[n + 1] ELSE p.cs,
     ss |-> IF Len(p.ss) > n THEN SubSeq(p.ss, 1, n) ELSE p.ss]
Entered(p, m) ==
    [walk |-> Append(p.walk, [mod |-> m, ei |-> 1, depth |-> Len(p.ss)]),
     seen |-> p.seen \cup {m}, cs |-> p.cs, ss |-> p.ss]
Passed(p) == [walk |-> Went(p), seen |-> p.seen, cs |-> p.cs, ss |-> p.ss]

AfterItem(p, it) ==
    IF it.kind = "use"
    THEN IF it.ref \in p.seen THEN Passed(p) ELSE Entered(p, it.ref)
    ELSE IF it.kind = "endat"
    THEN Popped(p, Went(p), IF p.ss = << >> THEN 0 ELSE Len(p.ss) - 1)
    ELSE IF it.kind = "at" \/ (it.kind \in {"data", "glob"} /\ it.seg # UNKNOWN)
    THEN Pushed(p, it.seg)
    ELSE Passed(p)

StepOf(p) ==
    IF AtItem(p) THEN AfterItem(p, ItemAt(p))
    ELSE Popped(p, [Front(p.walk) EXCEPT ![Len(p.walk) - 1].ei = @ + 1], Last(p.walk).depth)

\* What the walk sees at its position.
LEMMA HereAt ==
    /\ Types => Pos \in Position
    /\ \A kinds : At(kinds) => AtItem(Pos) /\ ItemAt(Pos).kind \in kinds
    /\ ItemAt(Pos) = Cur /\ SegIn(Pos) = SegOfFn /\ InMod(Pos) = Items
    /\ Went(Pos) = [walk EXCEPT ![Len(walk)].ei = @ + 1]
<1>1. Types => Pos \in Position
  BY DEF Types, Pos, Position
<1>2. ItemAt(Pos) = Cur /\ InMod(Pos) = Items
  BY DEF ItemAt, InMod, Pos, Cur, Items, Top
<1>3. SegIn(Pos) = SegOfFn
  BY <1>2 DEF SegIn, SegOfFn, HasAt, Pos
<1>4. \A kinds : At(kinds) => AtItem(Pos) /\ ItemAt(Pos).kind \in kinds
  BY <1>2 DEF At, AtItem, Pos, Top
<1>5. QED
  BY <1>1, <1>2, <1>3, <1>4 DEF Went, Pos

\* Both walks step alike.
LEMMA StepsAlike ==
    ASSUME Types, WalkInv, PlaceNext
    PROVE  Pos' = StepOf(Pos)
<1>1. CASE PlaceFn \/ EmitFn
  <2>1. At({"fn"}) /\ Advance /\ UNCHANGED <<seen, current_seg, seg_stack>>
    BY <1>1 DEF PlaceFn, EmitFn
  <2>2. Pos' = Passed(Pos)
    BY <2>1, HereAt DEF Pos, Passed, Advance
  <2>3. QED
    BY <2>1, <2>2, HereAt DEF StepOf, AfterItem
<1>2. CASE PlaceData \/ PlaceGlobal \/ EmitData \/ EmitGlobal
  <2>1. PICK kind \in {"data", "glob"} : At({kind})
    BY <1>2 DEF PlaceData, PlaceGlobal, EmitData, EmitGlobal
  <2>2. Advance /\ UNCHANGED seen
        /\ IF HasAt THEN PushSeg(Cur.seg) ELSE UNCHANGED <<current_seg, seg_stack>>
    BY <1>2 DEF PlaceData, PlaceGlobal, EmitData, EmitGlobal
  <2>3. Pos' = IF HasAt THEN Pushed(Pos, Cur.seg) ELSE Passed(Pos)
    BY <2>2, HereAt DEF Pos, Pushed, Passed, Advance, PushSeg
  <2>4. AtItem(Pos) /\ ItemAt(Pos).kind \in {"data", "glob"}
    BY <2>1, HereAt
  <2>5. QED
    BY <2>3, <2>4, HereAt DEF StepOf, AfterItem, HasAt
<1>3. CASE PlaceAt \/ EmitAt
  <2>1. At({"at", "endat"}) /\ Advance /\ UNCHANGED seen
        /\ IF Cur.kind = "at" THEN PushSeg(Cur.seg) ELSE PopSeg
    BY <1>3 DEF PlaceAt, EmitAt
  <2>2. CASE Cur.kind = "at"
    <3>1. Pos' = Pushed(Pos, Cur.seg)
      BY <2>1, <2>2, HereAt DEF Pos, Pushed, Advance, PushSeg
    <3>2. QED
      BY <2>1, <2>2, <3>1, HereAt DEF StepOf, AfterItem
  <2>3. CASE Cur.kind = "endat"
    <3>1. Pos' = Popped(Pos, Went(Pos), IF seg_stack = << >> THEN 0 ELSE Len(seg_stack) - 1)
      BY <2>1, <2>3, HereAt DEF Pos, Popped, Advance, PopSeg, PopTo
    <3>2. seg_stack = Pos.ss
      BY DEF Pos
    <3>3. QED
      BY <2>1, <2>3, <3>1, <3>2, HereAt DEF StepOf, AfterItem
  <2>4. QED
    BY <2>1, <2>2, <2>3, HereAt
<1>4. CASE PlaceReturn \/ EmitReturn
  <2>1. EndOfUse /\ Return /\ PopTo(Top.depth) /\ UNCHANGED seen
    BY <1>4 DEF PlaceReturn, EmitReturn
  <2>2. Pos' = Popped(Pos, [Front(walk) EXCEPT ![Len(walk) - 1].ei = @ + 1], Top.depth)
    BY <2>1 DEF Pos, Popped, Return, PopTo
  <2>3. ~AtItem(Pos) /\ Pos.walk = walk /\ Last(Pos.walk) = Top
    <3>1. Top.ei \in Nat /\ Len(Items) \in Nat /\ Top.ei > Len(Items)
      BY <2>1, TopItems DEF EndOfUse
    <3>2. InMod(Pos) = Items /\ Last(Pos.walk) = Top /\ Pos.walk = walk
      BY HereAt DEF Pos, Top
    <3>3. QED
      BY <3>1, <3>2 DEF AtItem
  <2>4. QED
    BY <2>2, <2>3 DEF StepOf
<1>5. CASE Use
  <2>1. At({"use"}) /\ UNCHANGED <<current_seg, seg_stack>>
        /\ IF Cur.ref \in seen THEN Advance /\ UNCHANGED seen ELSE Enter(Cur.ref)
    BY <1>5 DEF Use
  <2>2. Pos' = IF Cur.ref \in seen THEN Passed(Pos) ELSE Entered(Pos, Cur.ref)
    BY <2>1, HereAt DEF Pos, Passed, Entered, Enter, Advance
  <2>3. Pos.seen = seen
    BY DEF Pos
  <2>4. QED
    BY <2>1, <2>2, <2>3, HereAt DEF StepOf, AfterItem
<1>6. QED
  BY <1>1, <1>2, <1>3, <1>4, <1>5 DEF PlaceNext, PlaceStep, EmitStep

-----------------------------------------------------------------------------
(* What a walk has been past.  An item is past once its module has been      *)
(* entered and no call under way is still at it or before it.                *)

Past(m, e) == m \in seen /\ \A k \in 1 .. Len(walk) : walk[k].mod = m => e < walk[k].ei

Here(m, e) == At(Declares) /\ m = Top.mod /\ e = Top.ei

\* The three ways a walk moves.
LEMMA Moving ==
    ASSUME PlaceNext
    PROVE  /\ UNCHANGED layout
           /\ \/ At(Kinds) /\ Advance /\ UNCHANGED seen
              \/ At({"use"}) /\ Cur.ref \notin seen /\ Enter(Cur.ref)
              \/ EndOfUse /\ Return /\ UNCHANGED seen
BY DEF PlaceNext, PlaceStep, EmitStep, PlaceFn, PlaceData, PlaceGlobal, PlaceAt, PlaceReturn,
       EmitFn, EmitData, EmitGlobal, EmitAt, EmitReturn, Use, At, Kinds

\* At one of the kinds, the walk is at an item.
LEMMA AtMore ==
    ASSUME NEW kinds, NEW more, kinds \subseteq more, At(kinds)
    PROVE  At(more)
BY DEF At

\* What is past stays past.
LEMMA PastStays ==
    ASSUME Types, WalkInv, PlaceNext, NEW m \in Mod, NEW e \in Nat, Past(m, e)
    PROVE  Past(m, e)'
<1>1. Len(walk) \in Nat /\ \A k \in 1 .. Len(walk) : walk[k].ei \in Nat
  BY WalkTypes
<1>2. CASE At(Kinds) /\ Advance /\ UNCHANGED seen
  BY <1>1, <1>2, AdvanceWalk DEF Past
<1>3. CASE At({"use"}) /\ Cur.ref \notin seen /\ Enter(Cur.ref)
  <2>1. Cur.ref \in Mod
    BY <1>3, CurSeg
  <2>2. /\ Len(walk') = Len(walk) + 1 /\ \A k \in 1 .. Len(walk) : walk'[k] = walk[k]
        /\ walk'[Len(walk) + 1].mod = Cur.ref /\ seen' = seen \cup {Cur.ref}
    <3>1. /\ Len(walk') = Len(walk) + 1 /\ \A k \in 1 .. Len(walk) : walk'[k] = walk[k]
          /\ walk'[Len(walk) + 1] = [mod |-> Cur.ref, ei |-> 1, depth |-> Len(seg_stack)]
          /\ seen' = seen \cup {Cur.ref}
      BY <1>3, <2>1, EnterWalk
    <3>2. QED
      BY <3>1
  <2>3. QED
    BY <1>1, <1>3, <2>2 DEF Past
<1>4. CASE EndOfUse /\ Return /\ UNCHANGED seen
  <2>1. /\ Len(walk') = Len(walk) - 1
        /\ \A k \in 1 .. Len(walk) - 1 :
              /\ walk'[k].mod = walk[k].mod
              /\ walk'[k].ei = IF k = Len(walk) - 1 THEN walk[k].ei + 1 ELSE walk[k].ei
    BY <1>4, ReturnWalk
  <2>2. SUFFICES ASSUME NEW k \in 1 .. Len(walk) - 1, walk[k].mod = m
                 PROVE  e < walk'[k].ei
    BY <1>4, <2>1 DEF Past
  <2>3. k \in 1 .. Len(walk) /\ walk[k].ei \in Nat
    BY <1>1
  <2>4. e < walk[k].ei
    BY <2>2, <2>3 DEF Past
  <2>5. QED
    BY ONLY <2>1, <2>2, <2>3, <2>4, e \in Nat, k \in 1 .. Len(walk) - 1
<1>5. QED
  BY <1>2, <1>3, <1>4, Moving

\* The calls under way stay nested.
LEMMA CallsNext ==
    ASSUME Types, WalkInv, CallsInv, PlaceNext
    PROVE  CallsInv'
<1>1. Len(walk) \in Nat
  BY WalkTypes
<1>2. UNCHANGED layout
  BY Moving
<1>3. CASE At(Kinds) /\ Advance /\ UNCHANGED seen
  <2>1. /\ Len(walk') = Len(walk)
        /\ \A k \in 1 .. Len(walk) :
              /\ walk'[k].mod = walk[k].mod
              /\ walk'[k].ei = IF k = Len(walk) THEN walk[k].ei + 1 ELSE walk[k].ei
    BY <1>3, AdvanceWalk
  <2> SUFFICES ASSUME NEW k \in 1 .. Len(walk) - 1
               PROVE  LET it == layout.items[walk'[k].mod][walk'[k].ei] IN
                      it.kind = "use" /\ it.ref = walk'[k + 1].mod
    BY <1>1, <1>2, <2>1 DEF CallsInv
  <2>2. /\ walk'[k].mod = walk[k].mod /\ walk'[k].ei = walk[k].ei
        /\ walk'[k + 1].mod = walk[k + 1].mod
    BY <1>1, <2>1
  <2>3. QED
    BY <2>2 DEF CallsInv
<1>4. CASE At({"use"}) /\ Cur.ref \notin seen /\ Enter(Cur.ref)
  <2>1. Cur.ref \in Mod
    BY <1>4, CurSeg
  <2>2. /\ Len(walk') = Len(walk) + 1 /\ \A k \in 1 .. Len(walk) : walk'[k] = walk[k]
        /\ walk'[Len(walk) + 1] = [mod |-> Cur.ref, ei |-> 1, depth |-> Len(seg_stack)]
    BY <1>4, <2>1, EnterWalk
  <2> SUFFICES ASSUME NEW k \in 1 .. Len(walk)
               PROVE  LET it == layout.items[walk'[k].mod][walk'[k].ei] IN
                      it.kind = "use" /\ it.ref = walk'[k + 1].mod
    <3>1. Len(walk') - 1 = Len(walk)
      BY ONLY <1>1, <2>2
    <3>2. QED
      BY <1>2, <3>1 DEF CallsInv
  <2>3. CASE k = Len(walk)
    <3>1. walk'[k] = Top /\ walk'[k + 1].mod = Cur.ref
      BY <2>2, <2>3 DEF Top, Last
    <3>2. QED
      BY <1>4, <3>1 DEF At, Cur, Items
  <2>4. CASE k # Len(walk)
    <3>1. k \in 1 .. Len(walk) - 1 /\ walk'[k] = walk[k] /\ walk'[k + 1] = walk[k + 1]
      BY <1>1, <2>2, <2>4
    <3>2. QED
      BY <3>1 DEF CallsInv
  <2>5. QED
    BY <2>3, <2>4
<1>5. CASE EndOfUse /\ Return /\ UNCHANGED seen
  <2>1. /\ Len(walk') = Len(walk) - 1
        /\ \A k \in 1 .. Len(walk) - 1 :
              /\ walk'[k].mod = walk[k].mod
              /\ walk'[k].ei = IF k = Len(walk) - 1 THEN walk[k].ei + 1 ELSE walk[k].ei
    BY <1>5, ReturnWalk
  <2> SUFFICES ASSUME NEW k \in 1 .. Len(walk) - 2
               PROVE  LET it == layout.items[walk'[k].mod][walk'[k].ei] IN
                      it.kind = "use" /\ it.ref = walk'[k + 1].mod
    BY <1>1, <1>2, <2>1 DEF CallsInv
  <2>2. /\ k \in 1 .. Len(walk) - 1 /\ walk'[k].mod = walk[k].mod /\ walk'[k].ei = walk[k].ei
        /\ walk'[k + 1].mod = walk[k + 1].mod
    BY <1>1, <2>1
  <2>3. QED
    BY <2>2 DEF CallsInv
<1>6. QED
  BY <1>3, <1>4, <1>5, Moving

\* An object is past only after the step at it.
LEMMA PastHere ==
    ASSUME Types, WalkInv, PlaceNext, NEW m \in Mod, NEW e \in Nat, Here(m, e)
    PROVE  ~Past(m, e) /\ Past(m, e)' /\ e \in 1 .. Len(layout.items[m])
           /\ Cur = layout.items[m][e]
<1>1. /\ Len(walk) \in 1 .. Len(walk) /\ Top = walk[Len(walk)] /\ Top \in WalkFrame
      /\ Top.ei \in 1 .. Len(Items)
  BY CurType DEF Here
<1>2. ~Past(m, e) /\ e \in 1 .. Len(layout.items[m]) /\ Cur = layout.items[m][e]
  BY <1>1 DEF Here, Past, Items, Cur, WalkFrame
<1>3. Cur.kind \in Declares
  BY DEF Here, At
<1>4. At(Kinds) /\ Advance /\ UNCHANGED seen
  <2>1. ~EndOfUse
    BY <1>1 DEF EndOfUse
  <2>2. ~At({"use"})
    BY <1>3 DEF At, Declares
  <2>3. QED
    BY <2>1, <2>2, Moving
<1>5. m \in seen'
  BY <1>1, <1>4 DEF Here, WalkInv
<1>6. ASSUME NEW k \in 1 .. Len(walk'), walk'[k].mod = m
      PROVE  e < walk'[k].ei
  <2>1. k \in 1 .. Len(walk) /\ walk[k].mod = m
        /\ walk'[k].ei = IF k = Len(walk) THEN walk[k].ei + 1 ELSE walk[k].ei
    BY <1>4, <1>6, AdvanceWalk
  <2>2. k = Len(walk)
    BY <1>1, <2>1 DEF WalkInv, Here
  <2>3. QED
    BY <1>1, <2>1, <2>2 DEF Here, WalkFrame
<1>7. QED
  BY <1>2, <1>5, <1>6 DEF Past

\* Nothing but the object the walk is at comes to be past.
LEMMA PastBefore ==
    ASSUME Types, WalkInv, CallsInv, PlaceNext,
           NEW m \in Mod, NEW e \in 1 .. Len(layout.items[m]), Past(m, e)', layout.items[m][e].kind \in Declares
    PROVE  Past(m, e) \/ Here(m, e)
<1>1. /\ Len(walk) \in Nat /\ \A k \in 1 .. Len(walk) : walk[k].ei \in Nat /\ walk[k].mod \in Mod
      /\ e \in Nat
  <2>1. e \in Nat
    BY DEF Types, Layout
  <2>2. QED
    BY <2>1, WalkTypes
<1>2. CASE At(Kinds) /\ Advance /\ UNCHANGED seen
  <2> SUFFICES ASSUME ~Past(m, e) PROVE Here(m, e)
    OBVIOUS
  <2>1. PICK k \in 1 .. Len(walk) : walk[k].mod = m /\ ~(e < walk[k].ei)
    BY <1>2 DEF Past
  <2>2. k \in 1 .. Len(walk') /\ walk'[k].mod = m
        /\ walk'[k].ei = IF k = Len(walk) THEN walk[k].ei + 1 ELSE walk[k].ei
    BY <1>2, <2>1, AdvanceWalk
  <2>3. e < walk'[k].ei
    BY <2>2 DEF Past
  <2>4. k = Len(walk) /\ e = walk[k].ei
    BY <1>1, <2>1, <2>2, <2>3
  <2>5. Top = walk[k] /\ Cur = layout.items[m][e]
    BY <2>1, <2>4 DEF Top, Last, Cur, Items
  <2>6. QED
    BY <1>2, <2>1, <2>4, <2>5 DEF Here, At
<1>3. CASE At({"use"}) /\ Cur.ref \notin seen /\ Enter(Cur.ref)
  <2>1. Cur.ref \in Mod
    BY <1>3, CurSeg
  <2>2. /\ Len(walk') = Len(walk) + 1 /\ \A k \in 1 .. Len(walk) : walk'[k] = walk[k]
        /\ walk'[Len(walk) + 1] = [mod |-> Cur.ref, ei |-> 1, depth |-> Len(seg_stack)]
        /\ seen' = seen \cup {Cur.ref}
    BY <1>3, <2>1, EnterWalk
  <2>3. m # Cur.ref
    BY <1>1, <2>2 DEF Past
  <2>4. QED
    BY <1>1, <2>2, <2>3 DEF Past
<1>4. CASE EndOfUse /\ Return /\ UNCHANGED seen
  <2>1. /\ Len(walk') = Len(walk) - 1 /\ Len(walk) - 1 \in 1 .. Len(walk)
        /\ \A k \in 1 .. Len(walk) - 1 :
              /\ walk'[k].mod = walk[k].mod
              /\ walk'[k].ei = IF k = Len(walk) - 1 THEN walk[k].ei + 1 ELSE walk[k].ei
    BY <1>4, ReturnWalk
  <2> SUFFICES ASSUME NEW k \in 1 .. Len(walk), walk[k].mod = m PROVE e < walk[k].ei
    BY <1>4 DEF Past
  <2>2. CASE k = Len(walk)
    <3>1. Top.ei > Len(layout.items[Top.mod]) /\ Len(walk) > 0
      BY ONLY <1>1, <1>4 DEF EndOfUse, Items
    <3>2. Top = walk[k]
      BY <2>2, <3>1, TopType
    <3>3. k \in 1 .. Len(walk) /\ walk[k].mod = m
      OBVIOUS
    <3>4. QED
      BY ONLY <1>1, <3>1, <3>2, <3>3
  <2>3. CASE k < Len(walk)
    <3>1. k \in 1 .. Len(walk') /\ walk'[k].mod = m
      BY <1>1, <2>1, <2>3
    <3>2. e < walk'[k].ei
      BY <3>1 DEF Past
    <3>3. layout.items[walk[k].mod][walk[k].ei].kind = "use"
      BY <1>1, <2>3 DEF CallsInv
    <3>4. e # walk[k].ei
      BY <3>3 DEF Declares
    <3>5. QED
      BY <1>1, <2>1, <2>3, <3>2, <3>4, SMTT(30)
  <2>4. QED
    BY <1>1, <2>2, <2>3
<1>5. QED
  BY <1>2, <1>3, <1>4, Moving

\* An object is declared by one entry.
LEMMA OneEntry ==
    ASSUME Types, NEW m \in Mod, NEW j \in 1 .. Len(layout.items[m]),
           NEW n \in Mod, NEW k \in 1 .. Len(layout.items[n]),
           layout.items[m][j].kind \in Declares, layout.items[n][k].kind \in Declares,
           layout.items[m][j].ref = layout.items[n][k].ref
    PROVE  m = n /\ j = k
<1>1. DeclaredOnce(layout.items) /\ \A x \in Mod : layout.items[x] \in Seq(Item)
  BY DEF Types, Layout
<1>2. j \in DOMAIN layout.items[m] /\ k \in DOMAIN layout.items[n]
  BY <1>1
<1>3. {layout.items[m][j].kind, layout.items[n][k].kind} \subseteq Declares
  OBVIOUS
<1>4. QED
  BY <1>1, <1>2, <1>3 DEF DeclaredOnce

-----------------------------------------------------------------------------
(* The second walk retraces the first.  T is the way the placement walk went; *)
(* what it decided at its positions is what emission finds there.             *)

Trace(T) == T[1] = Start /\ \A z \in 1 .. Len(T) - 1 : T[z + 1] = StepOf(T[z])

\* Placement's decision about the function or data block at p.
Decided(p) ==
    AtItem(p) /\ ItemAt(p).kind \in {"fn", "data"} =>
        \/ /\ emit_seg[ItemAt(p).ref] = SegIn(p)
           /\ ItemAt(p).kind = "data" => SegIn(p) # UNKNOWN
        \/ ItemAt(p).kind = "data" /\ SegIn(p) = UNKNOWN /\ bind_errors > 0

Gone(p) ==
    AtItem(p) /\ ItemAt(p).kind \in Declares =>
        /\ Last(p.walk).mod \in Mod /\ Last(p.walk).ei \in 1 .. Len(InMod(p))
        /\ Past(Last(p.walk).mod, Last(p.walk).ei)

Ended(p) == Len(p.walk) = 1 /\ ~AtItem(p)

\* While the walk is under way: T leads to the present position.
Underway ==
    \E T \in Seq(Position) :
        /\ Len(T) > 0 /\ Trace(T) /\ T[Len(T)] = Pos
        /\ \A z \in 1 .. Len(T) - 1 : Decided(T[z]) /\ Gone(T[z])

\* Afterwards: T is the whole way, and emission is somewhere on it.
Retraced ==
    /\ bind_errors = 0
    /\ \E T \in Seq(Position) :
          /\ Len(T) > 0 /\ Trace(T) /\ Ended(T[Len(T)])
          /\ \A z \in 1 .. Len(T) - 1 : Decided(T[z])
          /\ stage = "emit" => \E k \in 1 .. Len(T) : T[k] = Pos

PathInv ==
    /\ stage \in {"place", "sort", "emit", "done", "failed"}
    /\ stage \notin {"place", "emit"} => walk = << >>
    /\ stage = "place" => Underway
    /\ stage \in {"sort", "emit"} => Retraced

\* A way depends on the layout only.
LEMMA LayoutKept ==
    ASSUME layout' = layout
    PROVE  /\ \A T : Trace(T)' <=> Trace(T)
           /\ \A p : /\ (AtItem(p)' <=> AtItem(p)) /\ (Ended(p)' <=> Ended(p))
                     /\ ItemAt(p)' = ItemAt(p) /\ InMod(p)' = InMod(p) /\ SegIn(p)' = SegIn(p)
<1>1. \A p : /\ (AtItem(p)' <=> AtItem(p)) /\ ItemAt(p)' = ItemAt(p)
             /\ InMod(p)' = InMod(p) /\ SegIn(p)' = SegIn(p)
  BY DEF AtItem, ItemAt, InMod, SegIn
<1>2. \A p : StepOf(p)' = StepOf(p)
  BY <1>1 DEF StepOf
<1>3. \A T : Trace(T)' <=> Trace(T)
  BY <1>2 DEF Trace, Start
<1>4. QED
  BY <1>1, <1>3 DEF Ended

\* What placement decided it does not decide again.
LEMMA DecidedStays ==
    ASSUME Types, WalkInv, PlaceNext, stage = "place", NEW p \in Position, Decided(p), Gone(p)
    PROVE  Decided(p)' /\ Gone(p)'
<1>1. layout' = layout
  BY Moving
<1>2. Gone(p)'
  <2>1. (AtItem(p)' <=> AtItem(p)) /\ ItemAt(p)' = ItemAt(p) /\ InMod(p)' = InMod(p)
    BY <1>1 DEF AtItem, ItemAt, InMod
  <2>2. ASSUME AtItem(p), ItemAt(p).kind \in Declares
        PROVE  /\ Last(p.walk).mod \in Mod /\ Last(p.walk).ei \in 1 .. Len(InMod(p))
               /\ Past(Last(p.walk).mod, Last(p.walk).ei)'
    <3>1. PICK m \in Mod, e \in 1 .. Len(InMod(p)) :
              m = Last(p.walk).mod /\ e = Last(p.walk).ei /\ Past(m, e)
      BY <2>2 DEF Gone
    <3>2. e \in Nat
      BY DEF Position
    <3>3. Past(m, e)'
      BY <3>1, <3>2, PastStays
    <3>4. QED
      BY <3>1, <3>3
  <2>3. QED
    BY <2>1, <2>2 DEF Gone
<1>3. Decided(p)'
  <2> SUFFICES ASSUME AtItem(p), ItemAt(p).kind \in {"fn", "data"}
               PROVE  \/ /\ emit_seg'[ItemAt(p).ref] = SegIn(p)
                         /\ ItemAt(p).kind = "data" => SegIn(p) # UNKNOWN
                      \/ ItemAt(p).kind = "data" /\ SegIn(p) = UNKNOWN /\ bind_errors' > 0
    BY <1>1 DEF Decided, AtItem, ItemAt, InMod, SegIn
  <2>1. bind_errors \in Nat /\ (bind_errors' = bind_errors \/ bind_errors' = bind_errors + 1)
    BY DEF Types, PlaceNext, PlaceStep, EmitStep, PlaceFn, PlaceData, PlaceGlobal, PlaceAt,
           PlaceReturn, EmitFn, EmitData, EmitGlobal, EmitAt, EmitReturn, Use
  <2>2. CASE emit_seg' = emit_seg
    BY <2>1, <2>2 DEF Decided
  <2>3. CASE PlaceFn \/ PlaceData
    <3>1. At(Declares) /\ Cur.ref \in Ref
      BY <2>3, CurSeg DEF PlaceFn, PlaceData, At, Declares
    <3>2. Len(walk) > 0 /\ Len(walk) \in Nat
      BY <3>1, CurType DEF Types
    <3>3. Top.mod \in Mod /\ Top.ei \in Nat /\ Here(Top.mod, Top.ei)
      BY <3>1, <3>2, TopType, TopItems DEF Here
    <3>4. ItemAt(p).ref # Cur.ref
      <4> SUFFICES ASSUME ItemAt(p).ref = Cur.ref PROVE FALSE
        OBVIOUS
      <4>1. /\ Last(p.walk).mod \in Mod /\ Last(p.walk).ei \in 1 .. Len(InMod(p))
            /\ Past(Last(p.walk).mod, Last(p.walk).ei)
        BY DEF Gone, Declares
      <4>2. ~Past(Top.mod, Top.ei) /\ Top.ei \in 1 .. Len(layout.items[Top.mod])
        BY <3>3, PastHere
      <4>3. layout.items[Top.mod][Top.ei] = Cur /\ Cur.kind \in Declares
        BY <3>1 DEF Cur, Items, At
      <4>4. Last(p.walk).mod = Top.mod /\ Last(p.walk).ei = Top.ei
        BY <3>3, <4>1, <4>2, <4>3, OneEntry DEF InMod, ItemAt, Declares
      <4>5. QED
        BY <4>1, <4>2, <4>4
    <3>5. ItemAt(p).ref \in Ref
      <4>1. Last(p.walk).mod \in Mod /\ Last(p.walk).ei \in 1 .. Len(InMod(p))
        BY DEF Gone, Declares
      <4>2. ItemAt(p) \in Item
        BY <4>1 DEF ItemAt, InMod, Types, Layout
      <4>3. QED
        BY <4>2, ItemKinds DEF Declares
    <3>6. emit_seg'[ItemAt(p).ref] = emit_seg[ItemAt(p).ref]
      BY <2>3, <3>1, <3>4, <3>5 DEF PlaceFn, PlaceData, Types
    <3>7. QED
      BY <2>1, <3>6 DEF Decided
  <2>4. QED
    BY <2>2, <2>3 DEF PlaceNext, PlaceStep, EmitStep, PlaceGlobal, PlaceAt,
           PlaceReturn, EmitFn, EmitData, EmitGlobal, EmitAt, EmitReturn, Use
<1>4. QED
  BY <1>2, <1>3

\* What it decides at its position.
LEMMA DecidedHere ==
    ASSUME Types, WalkInv, PlaceNext, stage = "place", NEW p \in Position, p = Pos
    PROVE  Decided(p)' /\ Gone(p)'
<1>1. layout' = layout
  BY Moving
<1>2. (AtItem(p)' <=> AtItem(p)) /\ ItemAt(p)' = ItemAt(p) /\ InMod(p)' = InMod(p)
      /\ SegIn(p)' = SegIn(p)
  BY <1>1 DEF AtItem, ItemAt, InMod, SegIn
<1>3. ItemAt(p) = Cur /\ SegIn(p) = SegOfFn /\ InMod(p) = Items /\ Last(p.walk) = Top
      /\ p.walk = walk
  BY HereAt DEF Pos, Top
<1>4. ASSUME AtItem(p), ItemAt(p).kind \in Declares
      PROVE  /\ Top.mod \in Mod /\ Top.ei \in 1 .. Len(Items) /\ At(Declares)
             /\ \E m \in Mod, e \in Nat : m = Top.mod /\ e = Top.ei /\ Past(m, e)'
  <2>1. At(Declares)
    BY <1>3, <1>4 DEF At, AtItem
  <2>2. PICK m \in Mod, e \in Nat : m = Top.mod /\ e = Top.ei
    BY <2>1, CurType, TopType DEF WalkFrame
  <2>3. Past(m, e)'
    BY <2>1, <2>2, PastHere DEF Here
  <2>4. QED
    BY <2>1, <2>2, <2>3, CurType
<1>5. Gone(p)'
  BY <1>2, <1>3, <1>4 DEF Gone
<1>6. ASSUME AtItem(p), ItemAt(p).kind \in {"fn", "data"}
      PROVE  \/ /\ emit_seg'[Cur.ref] = SegOfFn
                /\ Cur.kind = "data" => SegOfFn # UNKNOWN
             \/ Cur.kind = "data" /\ SegOfFn = UNKNOWN /\ bind_errors' > 0
  <2>1. At(Declares) /\ Cur.kind \in {"fn", "data"} /\ Cur.ref \in Ref
    BY <1>3, <1>4, <1>6, CurSeg DEF Declares
  <2>2. ~EndOfUse
    BY <2>1, CurType DEF EndOfUse
  <2>3. PlaceFn \/ PlaceData
    BY <2>1, <2>2 DEF PlaceNext, PlaceStep, EmitStep, PlaceGlobal, PlaceAt,
           PlaceReturn, EmitFn, EmitData, EmitGlobal, EmitAt, EmitReturn, Use, At
  <2>4. CASE PlaceFn
    BY <2>1, <2>4 DEF PlaceFn, Types, At
  <2>5. CASE PlaceData
    <3>1. CASE HasAt \/ current_seg # UNKNOWN
      BY <2>1, <2>5, <3>1 DEF PlaceData, Types, SegOfFn, HasAt
    <3>2. CASE ~(HasAt \/ current_seg # UNKNOWN)
      BY <2>1, <2>5, <3>2 DEF PlaceData, Types, SegOfFn, At
    <3>3. QED
      BY <3>1, <3>2
  <2>6. QED
    BY <2>3, <2>4, <2>5
<1>7. QED
  BY <1>2, <1>3, <1>5, <1>6 DEF Decided

\* At the end of the walk neither walk takes a step.
LEMMA NotEnded ==
    ASSUME Types, WalkInv, PlaceNext
    PROVE  ~Ended(Pos)
<1>1. Pos.walk = walk /\ Last(Pos.walk) = Top /\ (walk # << >> => (AtItem(Pos) <=> Top.ei <= Len(Items)))
  BY HereAt DEF Pos, Top, AtItem
<1>2. ASSUME Len(walk) = 1 PROVE walk # << >> /\ ~EndOfUse
  BY <1>2 DEF EndOfUse
<1>3. QED
  BY <1>1, <1>2, Moving DEF Ended, At

\* Emission finds the segments placement decided.
LEMMA EmissionAgrees ==
    ASSUME Types, WalkInv, stage = "emit", bind_errors = 0, PlaceNext, Decided(Pos)
    PROVE  emit_seg' = emit_seg /\ bind_errors' = bind_errors
<1>1. CASE EmitFn
  <2>1. At({"fn"}) /\ emit_seg' = [emit_seg EXCEPT ![Cur.ref] = SegOfFn] /\ bind_errors' = bind_errors
    BY <1>1 DEF EmitFn
  <2>2. emit_seg[Cur.ref] = SegOfFn
    BY <2>1, HereAt DEF Decided
  <2>3. QED
    BY <2>1, <2>2 DEF Types
<1>2. QED
  BY <1>1 DEF PlaceNext, PlaceStep, EmitStep, PlaceFn, PlaceData, PlaceGlobal, PlaceAt,
         PlaceReturn, EmitData, EmitGlobal, EmitAt, EmitReturn, Use

\* The way of the placement walk and what it decided, step by step.
LEMMA PathNext ==
    ASSUME Types, WalkInv, PathInv, [BindNext]_mainVars
    PROVE  PathInv'
<1>0. Types' /\ WalkInv'
  BY PlacedNext
<1>1. CASE UNCHANGED placeVars
  <2>1. UNCHANGED <<layout, stage, walk, seen, emit_seg, bind_errors>> /\ Pos' = Pos
    BY <1>1 DEF placeVars, placing, Pos
  <2>2. \A T : Trace(T)' <=> Trace(T)
    BY <2>1, LayoutKept
  <2>3. \A p : (Ended(p)' <=> Ended(p)) /\ (Decided(p)' <=> Decided(p)) /\ (Gone(p)' <=> Gone(p))
    BY <2>1, LayoutKept DEF Decided, Gone, Past
  <2>4. (Underway' <=> Underway) /\ (Retraced' <=> Retraced)
    BY <2>1, <2>2, <2>3 DEF Underway, Retraced
  <2>5. QED
    BY <2>1, <2>4 DEF PathInv
<1>2. CASE Placing /\ stage = "place"
  <2>1. PICK T \in Seq(Position) :
            /\ Len(T) > 0 /\ Trace(T) /\ T[Len(T)] = Pos
            /\ \A z \in 1 .. Len(T) - 1 : Decided(T[z]) /\ Gone(T[z])
    BY <1>2 DEF PathInv, Underway
  <2>2. PlaceNext /\ stage' = stage /\ layout' = layout
    BY <1>2 DEF Placing, PlaceNext, PlaceStep, EmitStep, PlaceFn, PlaceData, PlaceGlobal,
           PlaceAt, PlaceReturn, EmitFn, EmitData, EmitGlobal, EmitAt, EmitReturn, Use
  <2>3. PICK q \in Position : q = Pos' /\ q = StepOf(Pos)
    <3>1. Pos' \in Position
      BY <1>0 DEF Types, Pos, Position
    <3>2. QED
      BY <2>2, <3>1, StepsAlike
  <2> DEFINE U == Append(T, q)
  <2>4. /\ U \in Seq(Position) /\ Len(U) = Len(T) + 1 /\ U[Len(U)] = q
        /\ \A z \in 1 .. Len(T) : U[z] = T[z] /\ U[z] \in Position
    OBVIOUS
  <2> HIDE DEF U
  <2>5. U[1] = Start /\ \A z \in 1 .. Len(U) - 1 : U[z + 1] = StepOf(U[z])
    <3>1. Len(T) \in Nat
      OBVIOUS
    <3>2. U[1] = Start
      BY <2>1, <2>4, <3>1 DEF Trace
    <3>3. ASSUME NEW z \in 1 .. Len(T) PROVE U[z + 1] = StepOf(U[z])
      <4>1. CASE z = Len(T)
        BY <2>1, <2>3, <2>4, <4>1
      <4>2. CASE z # Len(T)
        <5>1. z \in 1 .. Len(T) - 1 /\ z + 1 \in 1 .. Len(T)
          BY <3>1, <4>2
        <5>2. QED
          BY <2>1, <2>4, <5>1 DEF Trace
      <4>3. QED
        BY <4>1, <4>2
    <3>4. QED
      BY <2>4, <3>1, <3>2, <3>3
  <2>6. Trace(U)'
    BY <2>2, <2>5, LayoutKept DEF Trace
  <2>7. ASSUME NEW z \in 1 .. Len(U) - 1 PROVE Decided(U[z])' /\ Gone(U[z])'
    <3>1. Len(T) \in Nat /\ z \in 1 .. Len(T)
      BY <2>4
    <3>2. PICK p \in Position : p = U[z] /\ p = T[z]
      BY <2>4, <3>1
    <3>3. CASE z = Len(T)
      BY <1>2, <2>1, <2>2, <3>2, <3>3, DecidedHere
    <3>4. CASE z # Len(T)
      <4>1. Decided(p) /\ Gone(p)
        BY <2>1, <3>1, <3>2, <3>4
      <4>2. QED
        BY <1>2, <2>2, <3>2, <4>1, DecidedStays
    <3>5. QED
      BY <3>3, <3>4
  <2>8. Len(U) > 0 /\ U[Len(U)] = Pos'
    BY <2>3, <2>4
  <2>9. Underway'
    BY <2>4, <2>6, <2>7, <2>8 DEF Underway
  <2>10. QED
    BY <1>2, <2>2, <2>9 DEF PathInv
<1>3. CASE Placing /\ stage = "emit"
  <2>1. PICK T \in Seq(Position) :
            /\ Len(T) > 0 /\ Trace(T) /\ Ended(T[Len(T)])
            /\ \A z \in 1 .. Len(T) - 1 : Decided(T[z])
            /\ \E k \in 1 .. Len(T) : T[k] = Pos
    BY <1>3 DEF PathInv, Retraced
  <2>2. PICK k \in 1 .. Len(T) : T[k] = Pos
    BY <2>1
  <2>3. PlaceNext /\ stage' = stage /\ layout' = layout
    BY <1>3 DEF Placing, PlaceNext, PlaceStep, EmitStep, PlaceFn, PlaceData, PlaceGlobal,
           PlaceAt, PlaceReturn, EmitFn, EmitData, EmitGlobal, EmitAt, EmitReturn, Use
  <2>4. k \in 1 .. Len(T) - 1
    BY <2>1, <2>2, <2>3, NotEnded
  <2>5. T[k + 1] = Pos' /\ k + 1 \in 1 .. Len(T)
    BY <2>2, <2>3, <2>4, <2>1, StepsAlike DEF Trace
  <2>6. emit_seg' = emit_seg /\ bind_errors' = bind_errors
    <3>1. Decided(Pos) /\ bind_errors = 0
      BY <1>3, <2>1, <2>2, <2>4 DEF PathInv, Retraced
    <3>2. QED
      BY <1>3, <2>3, <3>1, EmissionAgrees
  <2>7. Trace(T)' /\ Ended(T[Len(T)])' /\ \A z \in 1 .. Len(T) - 1 : Decided(T[z])'
    BY <2>1, <2>3, <2>6, LayoutKept DEF Decided
  <2>8. Retraced'
    BY <1>3, <2>1, <2>3, <2>5, <2>6, <2>7 DEF Retraced, PathInv
  <2>9. QED
    BY <1>3, <2>3, <2>8 DEF PathInv
<1>4. CASE Placing /\ stage \notin {"place", "emit"}
  BY <1>4 DEF PathInv, Placing, PlaceNext, PlaceStep, EmitStep, PlaceFn, PlaceData, PlaceGlobal,
         PlaceAt, PlaceReturn, EmitFn, EmitData, EmitGlobal, EmitAt, EmitReturn, Use, At
<1>5. CASE EndPlacement
  <2>1. PICK T \in Seq(Position) :
            /\ Len(T) > 0 /\ Trace(T) /\ T[Len(T)] = Pos
            /\ \A z \in 1 .. Len(T) - 1 : Decided(T[z]) /\ Gone(T[z])
    BY <1>5 DEF PathInv, Underway, EndPlacement
  <2>2. stage = "place" /\ EndOfWalk /\ walk' = << >>
        /\ stage' = (IF bind_errors > 0 THEN "failed" ELSE "sort")
        /\ UNCHANGED <<layout, emit_seg, bind_errors>>
    BY <1>5 DEF EndPlacement
  <2>3. Ended(T[Len(T)])
    <3>1. Top.ei \in Nat /\ Len(Items) \in Nat /\ Top.ei > Len(Items)
      <4>1. Len(walk) > 0 /\ Top.ei > Len(Items)
        BY <2>2 DEF EndOfWalk
      <4>2. QED
        BY <4>1, TopItems
    <3>2. InMod(Pos) = Items /\ Last(Pos.walk) = Top /\ Pos.walk = walk
      BY HereAt DEF Pos, Top
    <3>3. QED
      BY <2>1, <2>2, <3>1, <3>2 DEF AtItem, Ended, EndOfWalk
  <2>4. Trace(T)' /\ Ended(T[Len(T)])' /\ \A z \in 1 .. Len(T) - 1 : Decided(T[z])'
    BY <2>1, <2>2, <2>3, LayoutKept DEF Decided
  <2>5. CASE bind_errors > 0
    BY <2>2, <2>5 DEF PathInv
  <2>6. CASE ~(bind_errors > 0)
    <3>1. bind_errors' = 0
      BY <2>2, <2>6 DEF Types
    <3>2. Retraced'
      BY <2>1, <2>2, <2>4, <2>6, <3>1 DEF Retraced
    <3>3. QED
      BY <2>2, <2>6, <3>2 DEF PathInv
  <2>7. QED
    BY <2>5, <2>6
<1>6. CASE BeginEmission
  <2>1. stage = "sort" /\ stage' = "emit" /\ Begin /\ UNCHANGED <<layout, emit_seg, bind_errors>>
    BY <1>6 DEF BeginEmission
  <2>2. PICK T \in Seq(Position) :
            /\ Len(T) > 0 /\ Trace(T) /\ Ended(T[Len(T)])
            /\ \A z \in 1 .. Len(T) - 1 : Decided(T[z])
    BY <2>1 DEF PathInv, Retraced
  <2>3. T[1] = Pos' /\ 1 \in 1 .. Len(T)
    BY <2>1, <2>2 DEF Trace, Begin, Pos, Start
  <2>4. Trace(T)' /\ Ended(T[Len(T)])' /\ \A z \in 1 .. Len(T) - 1 : Decided(T[z])'
    BY <2>1, <2>2, LayoutKept DEF Decided
  <2>5. bind_errors' = 0
    BY <2>1 DEF PathInv, Retraced
  <2>6. Retraced'
    BY <2>1, <2>2, <2>3, <2>4, <2>5 DEF Retraced
  <2>7. QED
    BY <2>1, <2>6 DEF PathInv
<1>7. CASE EndEmission \/ AbiFailed
  BY <1>7 DEF EndEmission, AbiFailed, PathInv, placing
<1>8. QED
  BY <1>1, <1>2, <1>3, <1>4, <1>5, <1>6, <1>7
     DEF BindNext, SortStep, Preferring, Clobbering, Exited, mainVars, PathInv, Placing

\* The first walk begins at the root, on the path it is to take.
LEMMA PathInit ==
    ASSUME BindInit
    PROVE  PathInv /\ CallsInv
<1>1. Types /\ stage = "place" /\ Pos = Start /\ Len(walk) = 1
  BY PlacedInit DEF BindInit, PlaceInit, Pos, Start
<1>2. Pos \in Position
  BY <1>1, HereAt
<1> DEFINE T == <<Pos>>
<1>3. T \in Seq(Position) /\ Len(T) = 1 /\ T[1] = Pos
  BY <1>2
<1> HIDE DEF T
<1>4. Underway
  <2>1. Trace(T) /\ T[Len(T)] = Pos
    BY <1>1, <1>3 DEF Trace
  <2>2. \A z \in 1 .. Len(T) - 1 : Decided(T[z]) /\ Gone(T[z])
    BY <1>3
  <2>3. QED
    BY <1>3, <2>1, <2>2 DEF Underway
<1>5. CallsInv
  BY <1>1 DEF CallsInv
<1>6. QED
  BY ONLY <1>1, <1>4, <1>5 DEF PathInv

\* The calls stay nested through all of main().
LEMMA NestedNext ==
    ASSUME Types, WalkInv, CallsInv, [BindNext]_mainVars
    PROVE  CallsInv'
<1>1. CASE Placing
  BY <1>1, CallsNext DEF Placing
<1>2. CASE UNCHANGED <<walk, layout>>
  BY <1>2 DEF CallsInv
<1>3. CASE Len(walk') \in {0, 1}
  BY <1>3 DEF CallsInv
<1>4. QED
  BY <1>1, <1>2, <1>3
     DEF BindNext, EndPlacement, SortStep, Preferring, AbiFailed, Clobbering, BeginEmission,
         Begin, EndEmission, Exited, mainVars, placeVars, placing

\* No step but one of placement changes the segment of a function or data block.
LEMMA StepAgrees ==
    ASSUME Types, WalkInv, PathInv, [BindNext]_mainVars
    PROVE  emit_seg' = emit_seg \/ stage = "place"
<1>1. CASE Placing /\ stage = "emit"
  <2>1. PICK T \in Seq(Position) :
            /\ Len(T) > 0 /\ Ended(T[Len(T)])
            /\ \A z \in 1 .. Len(T) - 1 : Decided(T[z])
            /\ \E k \in 1 .. Len(T) : T[k] = Pos
    BY <1>1 DEF PathInv, Retraced
  <2>2. ~Ended(Pos)
    BY <1>1, NotEnded DEF Placing
  <2>3. Decided(Pos) /\ bind_errors = 0
    BY <1>1, <2>1, <2>2 DEF PathInv, Retraced
  <2>4. QED
    BY <1>1, <2>3, EmissionAgrees DEF Placing
<1>2. CASE Placing /\ stage \notin {"place", "emit"}
  BY <1>2 DEF PathInv, Placing, PlaceNext, PlaceStep, EmitStep, PlaceFn, PlaceData, PlaceGlobal,
         PlaceAt, PlaceReturn, EmitFn, EmitData, EmitGlobal, EmitAt, EmitReturn, Use, At
<1>3. CASE ~Placing
  BY <1>3 DEF BindNext, EndPlacement, SortStep, Preferring, AbiFailed, Clobbering,
         BeginEmission, EndEmission, Exited, mainVars, placeVars
<1>4. QED
  BY <1>1, <1>2, <1>3

\* Emission finds every segment as placement left it, whatever modules use each
\* other and whatever blocks they open and close: emit_module() retraces the walk
\* of place_module().
THEOREM WalksAgreeCorrect == BindSpec => WalksAgree
<1>1. BindInit => Types /\ WalkInv /\ PathInv
  BY PlacedInit, PathInit
<1>2. Types /\ WalkInv /\ PathInv /\ [BindNext]_mainVars => (Types /\ WalkInv /\ PathInv)'
  BY PlacedNext, PathNext
<1>3. Types /\ WalkInv /\ PathInv /\ [BindNext]_mainVars
      => [\A r \in Ref : emit_seg'[r] # emit_seg[r] => stage = "place"]_placeVars
  BY StepAgrees
<1>4. QED
  BY <1>1, <1>2, <1>3, PTL DEF BindSpec, WalksAgree

-----------------------------------------------------------------------------
(* The assembler's blocks are the binder's. *)

\* Block for block, where the binder knows the segment the assembler has it.
Agrees(a, ss, cs) ==
    /\ Len(a.stack) = Len(ss)
    /\ \A j \in 1 .. Len(ss) : ss[j] # UNKNOWN => a.stack[j].seg = ss[j]
    /\ cs # UNKNOWN => a.seg = cs

\* A block opened in the binder and in the output.
LEMMA PushAgrees ==
    ASSUME NEW a \in Asm, NEW ss \in Seq(Segs), NEW cs \in Segs, NEW s, Agrees(a, ss, cs)
    PROVE  Agrees(Org(a, s), Append(ss, cs), s)
<1> DEFINE o == [base |-> a.base, seg |-> a.seg]
<1>1. a.stack \in Seq(OrgFrame) /\ o \in OrgFrame
  BY DEF Asm, OrgFrame
<1>2. Org(a, s).stack = Append(a.stack, o) /\ Org(a, s).seg = s
  BY DEF Org, Asm
<1>3. o.seg = a.seg
  OBVIOUS
<1> HIDE DEF o
<1>4. ASSUME NEW j \in 1 .. Len(ss) + 1, Append(ss, cs)[j] # UNKNOWN
      PROVE  Append(a.stack, o)[j].seg = Append(ss, cs)[j]
  <2>1. CASE j = Len(ss) + 1
    BY <1>1, <1>3, <1>4, <2>1 DEF Agrees
  <2>2. CASE j \in 1 .. Len(ss)
    <3>1. Append(ss, cs)[j] = ss[j] /\ Append(a.stack, o)[j] = a.stack[j]
      BY <1>1, <2>2 DEF Agrees
    <3>2. QED
      BY <1>4, <2>2, <3>1 DEF Agrees
  <2>3. j = Len(ss) + 1 \/ j \in 1 .. Len(ss)
    OBVIOUS
  <2>4. QED
    BY <2>1, <2>2, <2>3
<1>5. Len(Append(a.stack, o)) = Len(Append(ss, cs)) /\ Len(Append(ss, cs)) = Len(ss) + 1
  BY <1>1 DEF Agrees
<1>6. QED
  BY <1>2, <1>4, <1>5 DEF Agrees

\* What endorg leaves: all but the last blocks.
LEMMA EndorgsIs ==
    ASSUME NEW a \in Asm, NEW n \in Nat, n < Len(a.stack)
    PROVE  LET b == Endorgs(a, Len(a.stack) - n) IN
           /\ b.stack = SubSeq(a.stack, 1, n) /\ b.stack \in Seq(OrgFrame) /\ Len(b.stack) = n
           /\ \A j \in 1 .. n : b.stack[j] = a.stack[j]
           /\ n + 1 \in 1 .. Len(a.stack)
           /\ b.base = a.stack[n + 1].base /\ b.seg = a.stack[n + 1].seg
           /\ b.labels = a.labels
<1>1. a.stack \in Seq(OrgFrame) /\ Len(a.stack) \in Nat /\ n + 1 \in 1 .. Len(a.stack)
  BY DEF Asm
<1>2. (IF Len(a.stack) - n > Len(a.stack) THEN 0 ELSE Len(a.stack) - (Len(a.stack) - n)) = n
  BY <1>1
<1>3. Endorgs(a, Len(a.stack) - n) =
          [a EXCEPT !.base = a.stack[n + 1].base, !.seg = a.stack[n + 1].seg,
                    !.stack = SubSeq(a.stack, 1, n)]
  <2>1. PICK x : x = Len(a.stack) - n
    OBVIOUS
  <2>2. (IF x > Len(a.stack) THEN 0 ELSE Len(a.stack) - x) = n /\ n # Len(a.stack)
    BY <1>1, <1>2, <2>1
  <2>3. Endorgs(a, x) = [a EXCEPT !.base = a.stack[n + 1].base, !.seg = a.stack[n + 1].seg,
                                  !.stack = SubSeq(a.stack, 1, n)]
    BY <2>2 DEF Endorgs
  <2>4. QED
    BY <2>1, <2>3
<1>4. SubSeq(a.stack, 1, n) \in Seq(OrgFrame) /\ Len(SubSeq(a.stack, 1, n)) = n
      /\ \A j \in 1 .. n : SubSeq(a.stack, 1, n)[j] = a.stack[j]
  BY <1>1
<1>5. QED
  BY <1>1, <1>3, <1>4 DEF Asm

\* Blocks closed in the binder and in the output.
LEMMA PopAgrees ==
    ASSUME NEW a \in Asm, NEW ss \in Seq(Segs), NEW cs \in Segs, Agrees(a, ss, cs),
           NEW n \in Nat, n < Len(ss)
    PROVE  Agrees(Endorgs(a, Len(ss) - n), SubSeq(ss, 1, n), ss[n + 1])
<1>1. Len(a.stack) = Len(ss) /\ n + 1 \in 1 .. Len(ss)
  BY DEF Agrees
<1> DEFINE b == Endorgs(a, Len(ss) - n)
<1>2. /\ Len(b.stack) = n /\ \A j \in 1 .. n : b.stack[j] = a.stack[j]
      /\ b.seg = a.stack[n + 1].seg
  <2>1. n < Len(a.stack)
    BY <1>1
  <2>2. LET c == Endorgs(a, Len(a.stack) - n) IN
        /\ Len(c.stack) = n /\ \A j \in 1 .. n : c.stack[j] = a.stack[j]
        /\ c.seg = a.stack[n + 1].seg
    BY ONLY <2>1, EndorgsIs, a \in Asm, n \in Nat
  <2>3. QED
    BY <1>1, <2>2
<1>3. Len(SubSeq(ss, 1, n)) = n /\ \A j \in 1 .. n : SubSeq(ss, 1, n)[j] = ss[j]
  BY <1>1
<1> HIDE DEF b
<1>4. PICK d, t : d = b /\ t = SubSeq(ss, 1, n)
  OBVIOUS
<1>5. Agrees(d, t, ss[n + 1])
  <2>1. \A j \in 1 .. n : j \in 1 .. Len(ss)
    BY <1>1
  <2>2. \A j \in 1 .. Len(ss) : ss[j] # UNKNOWN => a.stack[j].seg = ss[j]
    BY DEF Agrees
  <2>3. QED
    BY ONLY <1>1, <1>2, <1>3, <1>4, <2>1, <2>2 DEF Agrees
<1>6. QED
  BY <1>4, <1>5 DEF b

\* What emission writes about the object at its position: a block of its own, or
\* the segment its data was placed in.
LEMMA EmitsHere ==
    ASSUME Types, WalkInv, Tame, bind_errors = 0, Decided(Pos), stage = "emit", PlaceNext
    PROVE  \/ /\ asm' = asm /\ UNCHANGED <<current_seg, seg_stack>>
              /\ At({"use"})
           \/ \E r \in Ref, b \in Asm :
                 /\ At(Declares) /\ r = Cur.ref /\ Cur \in Item
                 /\ asm' = Label(b, r)
                 /\ \/ b = Org(asm, Cur.seg) /\ PushSeg(Cur.seg) /\ Cur.kind \in {"data", "glob"}
                       /\ Cur.seg # UNKNOWN /\ (Cur.kind = "data" => emit_seg[r] = Cur.seg)
                    \/ b = asm /\ UNCHANGED <<current_seg, seg_stack>> /\ Cur.seg = UNKNOWN
                       /\ (Cur.kind = "fn" => emit_seg[r] = current_seg)
                       /\ Cur.kind \in {"fn", "glob"}
                    \/ b = [asm EXCEPT !.seg = current_seg] /\ current_seg # UNKNOWN
                       /\ UNCHANGED <<current_seg, seg_stack>> /\ Cur.seg = UNKNOWN
                       /\ emit_seg[r] = current_seg /\ Cur.kind = "data"
           \/ At({"at"}) /\ PushSeg(Cur.seg) /\ asm' = Org(asm, Cur.seg) /\ Cur.seg \in Seg
           \/ At({"endat"}) /\ PopSeg /\ asm' = Endorgs(asm, 1)
           \/ /\ EndOfUse /\ PopTo(Top.depth) /\ Top.depth \in Nat
              /\ asm' = IF Len(seg_stack) > Top.depth
                        THEN Endorgs(asm, Len(seg_stack) - Top.depth) ELSE asm
<1>0. asm \in Asm
  BY DEF Types
<1>1. CASE EmitFn
  <2>1. At({"fn"}) /\ UNCHANGED <<current_seg, seg_stack>>
        /\ asm' = Label(IF HasAt THEN Org(asm, Cur.seg) ELSE asm, Cur.ref)
    BY <1>1 DEF EmitFn
  <2>2. Cur.seg = UNKNOWN
    <3>1. Top.mod \in Mod /\ Top.ei \in 1 .. Len(Items) /\ Items \in Seq(Item)
      BY <2>1, CurType DEF WalkFrame
    <3>2. QED
      BY <2>1, <3>1 DEF Tame, Items, Cur, At
  <2>3. emit_seg[Cur.ref] = current_seg
    BY <2>1, <2>2, HereAt DEF Decided, SegOfFn, HasAt
  <2>4. At(Declares) /\ Cur \in Item /\ Cur.kind = "fn" /\ Cur.ref \in Ref
    BY <2>1, CurType, CurSeg DEF At, Declares
  <2>5. asm' = Label(asm, Cur.ref)
    BY <2>1, <2>2 DEF HasAt
  <2>6. QED
    BY <1>0, <2>1, <2>2, <2>3, <2>4, <2>5
<1>2. CASE EmitData
  <2>1. /\ At({"data"})
        /\ IF HasAt THEN PushSeg(Cur.seg) ELSE UNCHANGED <<current_seg, seg_stack>>
        /\ asm' = Label(IF HasAt THEN Org(asm, Cur.seg)
                        ELSE [asm EXCEPT !.seg = emit_seg[Cur.ref]], Cur.ref)
    BY <1>2 DEF EmitData
  <2>2. At(Declares) /\ Cur \in Item /\ Cur.kind = "data" /\ Cur.ref \in Ref
        /\ Cur.seg \in AsmSegs
    BY <2>1, CurType, CurSeg DEF At, Declares
  <2>3. emit_seg[Cur.ref] = SegOfFn /\ SegOfFn # UNKNOWN
    BY <2>1, HereAt DEF Decided
  <2>4. CASE HasAt
    BY <1>0, <2>1, <2>2, <2>3, <2>4, AsmTypes DEF SegOfFn, HasAt
  <2>5. CASE ~HasAt
    <3>1. current_seg \in AsmSegs /\ emit_seg[Cur.ref] = current_seg /\ current_seg # UNKNOWN
          /\ Cur.seg = UNKNOWN
      BY <2>3, <2>5 DEF Types, Segs, AsmSegs, SegOfFn, HasAt
    <3>2. [asm EXCEPT !.seg = current_seg] \in Asm
      BY <1>0, <3>1, AsmTypes
    <3>3. asm' = Label([asm EXCEPT !.seg = current_seg], Cur.ref)
          /\ UNCHANGED <<current_seg, seg_stack>>
      BY <2>1, <2>5, <3>1
    <3>4. QED
      BY <2>2, <3>1, <3>2, <3>3
  <2>6. QED
    BY <2>4, <2>5
<1>3. CASE EmitGlobal
  <2>1. /\ At({"glob"})
        /\ IF HasAt THEN PushSeg(Cur.seg) ELSE UNCHANGED <<current_seg, seg_stack>>
        /\ asm' = Label(IF HasAt THEN Org(asm, Cur.seg) ELSE asm, Cur.ref)
    BY <1>3 DEF EmitGlobal
  <2>2. At(Declares) /\ Cur \in Item /\ Cur.kind = "glob" /\ Cur.ref \in Ref
        /\ Cur.seg \in AsmSegs
    BY <2>1, CurType, CurSeg DEF At, Declares
  <2>3. CASE HasAt
    BY <1>0, <2>1, <2>2, <2>3, AsmTypes DEF HasAt
  <2>4. CASE ~HasAt
    BY <1>0, <2>1, <2>2, <2>4 DEF HasAt
  <2>5. QED
    BY <2>3, <2>4
<1>4. CASE EmitAt
  <2>1. /\ At({"at", "endat"})
        /\ IF Cur.kind = "at" THEN PushSeg(Cur.seg) /\ asm' = Org(asm, Cur.seg)
           ELSE PopSeg /\ asm' = Endorgs(asm, 1)
    BY <1>4 DEF EmitAt
  <2>2. CASE Cur.kind = "at"
    BY <2>1, <2>2, CurSeg DEF At
  <2>3. CASE Cur.kind # "at"
    BY <2>1, <2>3 DEF At
  <2>4. QED
    BY <2>2, <2>3
<1>5. CASE EmitReturn
  <2>1. Top.depth \in Nat
    BY <1>5, TopType DEF EmitReturn, EndOfUse
  <2>2. QED
    BY <1>5, <2>1 DEF EmitReturn
<1>6. CASE Use
  BY <1>6 DEF Use
<1>7. QED
  BY <1>1, <1>2, <1>3, <1>4, <1>5, <1>6
     DEF PlaceNext, PlaceStep, EmitStep, PlaceFn, PlaceData, PlaceGlobal, PlaceAt, PlaceReturn

\* During emission the decisions of placement are there and stay.
LEMMA EmissionKnows ==
    ASSUME Types, WalkInv, PathInv, stage = "emit", PlaceNext
    PROVE  bind_errors = 0 /\ Decided(Pos) /\ emit_seg' = emit_seg /\ stage' = stage
<1>1. PICK T \in Seq(Position) :
          /\ Len(T) > 0 /\ Ended(T[Len(T)])
          /\ \A z \in 1 .. Len(T) - 1 : Decided(T[z])
          /\ \E k \in 1 .. Len(T) : T[k] = Pos
  BY DEF PathInv, Retraced
<1>2. Decided(Pos) /\ bind_errors = 0
  BY <1>1, NotEnded DEF PathInv, Retraced
<1>3. QED
  BY <1>2, EmissionAgrees DEF PlaceNext, PlaceStep, EmitStep, PlaceFn, PlaceData, PlaceGlobal,
     PlaceAt, PlaceReturn, EmitFn, EmitData, EmitGlobal, EmitAt, EmitReturn, Use

\* Globals are placed by no one.
GlobsUnplaced ==
    \A m \in Mod : \A k \in 1 .. Len(layout.items[m]) :
        layout.items[m][k].kind = "glob" => emit_seg[layout.items[m][k].ref] = UNKNOWN

Believed ==
    \A k \in 1 .. Len(asm.labels) :
        emit_seg[asm.labels[k][1]] # UNKNOWN => asm.labels[k][2] = emit_seg[asm.labels[k][1]]

BlocksInv ==
    /\ GlobsUnplaced
    /\ stage \in {"place", "sort"} => asm.stack = << >> /\ asm.labels = << >>
    /\ stage = "emit" /\ Tame => Agrees(asm, seg_stack, current_seg)
    /\ Tame => Believed

\* Placement assigns a segment to what is declared as function or data only.
LEMMA GlobsStay ==
    ASSUME Types, WalkInv, GlobsUnplaced, PlaceFn \/ PlaceData
    PROVE  GlobsUnplaced'
<1>1. layout' = layout /\ At({"fn", "data"})
  BY DEF PlaceFn, PlaceData, At
<1>2. \A r \in Ref : r # Cur.ref => emit_seg'[r] = emit_seg[r]
  BY DEF PlaceFn, PlaceData, Types
<1> SUFFICES ASSUME NEW m \in Mod, NEW k \in 1 .. Len(layout.items[m]),
                    layout.items[m][k].kind = "glob"
             PROVE  emit_seg'[layout.items[m][k].ref] = UNKNOWN
  BY <1>1 DEF GlobsUnplaced
<1>3. layout.items[m][k].ref \in Ref
  <2>1. layout.items[m][k] \in Item
    BY DEF Types, Layout
  <2>2. QED
    BY <2>1, ItemKinds DEF Declares
<1>4. layout.items[m][k].ref # Cur.ref
  <2> SUFFICES ASSUME layout.items[m][k].ref = Cur.ref PROVE FALSE
    OBVIOUS
  <2>1. Top.mod \in Mod /\ Top.ei \in 1 .. Len(layout.items[Top.mod])
        /\ Cur = layout.items[Top.mod][Top.ei]
    BY <1>1, CurType DEF WalkFrame, Items, Cur
  <2>2. Cur.kind \in {"fn", "data"}
    BY <1>1 DEF At
  <2>3. Top.mod = m /\ Top.ei = k
    BY <2>1, <2>2, OneEntry DEF Declares
  <2>4. QED
    BY <2>1, <2>2, <2>3
<1>5. QED
  BY <1>2, <1>3, <1>4 DEF GlobsUnplaced

\* A label in the segment of its object keeps the labels right.
LEMMA LabelRight ==
    ASSUME Types, Believed, NEW r \in Ref, NEW b \in Asm, asm' = Label(b, r),
           b.labels = asm.labels, emit_seg' = emit_seg,
           emit_seg[r] # UNKNOWN => b.seg = emit_seg[r]
    PROVE  Believed'
<1>1. asm.labels \in Seq(Ref \X AsmSegs) /\ <<r, b.seg>> \in Ref \X AsmSegs
  BY DEF Types, Asm
<1>2. asm'.labels = Append(asm.labels, <<r, b.seg>>)
  BY DEF Label, Asm
<1>3. ASSUME NEW k \in 1 .. Len(asm.labels) + 1
      PROVE  \/ k \in 1 .. Len(asm.labels) /\ asm'.labels[k] = asm.labels[k]
             \/ k = Len(asm.labels) + 1 /\ asm'.labels[k] = <<r, b.seg>>
  BY <1>1, <1>2
<1>4. Len(asm'.labels) = Len(asm.labels) + 1
  BY <1>1, <1>2
<1>5. QED
  BY <1>3, <1>4 DEF Believed

\* Emission keeps the blocks in step and puts labels where placement said.
LEMMA BlocksEmitted ==
    ASSUME Types, WalkInv, PathInv, BlocksInv, Tame, stage = "emit", PlaceNext
    PROVE  Agrees(asm, seg_stack, current_seg)' /\ Believed'
<1>0. /\ asm \in Asm /\ seg_stack \in Seq(Segs) /\ current_seg \in Segs
      /\ Agrees(asm, seg_stack, current_seg) /\ Believed /\ Len(seg_stack) \in Nat
  BY DEF Types, BlocksInv
<1>1. bind_errors = 0 /\ Decided(Pos) /\ emit_seg' = emit_seg
  BY EmissionKnows
<1>2. CASE asm' = asm /\ UNCHANGED <<current_seg, seg_stack>>
  BY <1>0, <1>1, <1>2 DEF Believed, Agrees
<1>3. ASSUME NEW r \in Ref, NEW b \in Asm, At(Declares), r = Cur.ref, Cur \in Item, asm' = Label(b, r)
      PROVE  /\ \/ /\ b = Org(asm, Cur.seg) /\ PushSeg(Cur.seg) /\ Cur.kind \in {"data", "glob"}
                   /\ Cur.seg # UNKNOWN /\ (Cur.kind = "data" => emit_seg[r] = Cur.seg)
                \/ /\ b = asm /\ UNCHANGED <<current_seg, seg_stack>> /\ Cur.seg = UNKNOWN
                   /\ (Cur.kind = "fn" => emit_seg[r] = current_seg)
                   /\ Cur.kind \in {"fn", "glob"}
                \/ /\ b = [asm EXCEPT !.seg = current_seg] /\ current_seg # UNKNOWN
                   /\ UNCHANGED <<current_seg, seg_stack>> /\ Cur.seg = UNKNOWN
                   /\ emit_seg[r] = current_seg /\ Cur.kind = "data"
             => Agrees(asm, seg_stack, current_seg)' /\ Believed'
  <2>1. asm'.stack = b.stack /\ asm'.seg = b.seg
    BY <1>3 DEF Label, Asm
  <2>2. Cur.kind = "glob" => emit_seg[r] = UNKNOWN
    <3>1. Top.mod \in Mod /\ Top.ei \in 1 .. Len(layout.items[Top.mod])
          /\ Cur = layout.items[Top.mod][Top.ei]
      BY <1>3, CurType DEF WalkFrame, Items, Cur
    <3>2. QED
      BY <1>3, <3>1 DEF BlocksInv, GlobsUnplaced
  <2>3. CASE /\ b = Org(asm, Cur.seg) /\ PushSeg(Cur.seg) /\ Cur.kind \in {"data", "glob"}
             /\ Cur.seg # UNKNOWN /\ (Cur.kind = "data" => emit_seg[r] = Cur.seg)
    <3>1. Agrees(b, Append(seg_stack, current_seg), Cur.seg)
      BY <1>0, <2>3, PushAgrees
    <3>2. b.labels = asm.labels /\ b.seg = Cur.seg
      BY <1>0, <2>3 DEF Org, Asm
    <3>3. Believed'
      BY <1>0, <1>1, <1>3, <2>2, <2>3, <3>2, LabelRight
    <3>4. QED
      BY <2>1, <2>3, <3>1, <3>3 DEF Agrees, PushSeg
  <2>4. CASE /\ b = asm /\ UNCHANGED <<current_seg, seg_stack>> /\ Cur.seg = UNKNOWN
             /\ (Cur.kind = "fn" => emit_seg[r] = current_seg)
             /\ Cur.kind \in {"fn", "glob"}
    <3>1. emit_seg[r] # UNKNOWN => b.seg = emit_seg[r]
      BY <1>0, <2>2, <2>4 DEF Agrees
    <3>2. Believed'
      BY <1>0, <1>1, <1>3, <2>4, <3>1, LabelRight
    <3>3. QED
      BY <1>0, <2>1, <2>4, <3>2 DEF Agrees
  <2>5. CASE /\ b = [asm EXCEPT !.seg = current_seg] /\ current_seg # UNKNOWN
             /\ UNCHANGED <<current_seg, seg_stack>> /\ Cur.seg = UNKNOWN
             /\ emit_seg[r] = current_seg /\ Cur.kind = "data"
    <3>1. b.labels = asm.labels /\ b.seg = current_seg /\ b.stack = asm.stack
      BY <1>0, <2>5 DEF Asm
    <3>2. Believed'
      BY <1>0, <1>1, <1>3, <2>5, <3>1, LabelRight
    <3>3. QED
      BY <1>0, <2>1, <2>5, <3>1, <3>2 DEF Agrees
  <2>6. QED
    BY <2>3, <2>4, <2>5
<1>4. CASE At({"at"}) /\ PushSeg(Cur.seg) /\ asm' = Org(asm, Cur.seg)
  <2>1. asm'.labels = asm.labels
    BY <1>0, <1>4 DEF Org, Asm
  <2>2. Agrees(Org(asm, Cur.seg), Append(seg_stack, current_seg), Cur.seg)
    BY <1>0, PushAgrees
  <2>3. QED
    BY <1>0, <1>1, <1>4, <2>1, <2>2 DEF PushSeg, Believed
<1>5. ASSUME NEW n \in Nat, PopTo(n),
             asm' = IF Len(seg_stack) > n THEN Endorgs(asm, Len(seg_stack) - n) ELSE asm
      PROVE  Agrees(asm, seg_stack, current_seg)' /\ Believed'
  <2>1. CASE Len(seg_stack) > n
    <3>1. Agrees(Endorgs(asm, Len(seg_stack) - n), SubSeq(seg_stack, 1, n), seg_stack[n + 1])
      BY <1>0, <2>1, PopAgrees
    <3>2. asm'.labels = asm.labels
      <4>1. n < Len(asm.stack) /\ Len(asm.stack) = Len(seg_stack)
        BY <1>0, <2>1 DEF Agrees
      <4>2. QED
        BY <1>0, <1>5, <2>1, <4>1, EndorgsIs
    <3>3. QED
      BY <1>0, <1>1, <1>5, <2>1, <3>1, <3>2 DEF PopTo, Believed
  <2>2. CASE ~(Len(seg_stack) > n)
    BY <1>0, <1>1, <1>5, <2>2 DEF PopTo, Believed
  <2>3. QED
    BY <2>1, <2>2
<1>6. CASE At({"endat"}) /\ PopSeg /\ asm' = Endorgs(asm, 1)
  <2>1. CASE seg_stack = << >>
    <3>1. Len(asm.stack) = 0
      BY <1>0, <2>1 DEF Agrees
    <3>2. Endorgs(asm, 1) = asm
      BY <3>1 DEF Endorgs
    <3>3. QED
      BY <1>0, <1>5, <1>6, <2>1, <3>2 DEF PopSeg
  <2>2. CASE seg_stack # << >>
    <3>1. Len(seg_stack) > 0 /\ Len(seg_stack) - 1 \in Nat
          /\ Len(seg_stack) - (Len(seg_stack) - 1) = 1
      BY <1>0, <2>2
    <3>2. QED
      BY <1>5, <1>6, <2>2, <3>1 DEF PopSeg
  <2>3. QED
    BY <2>1, <2>2
<1>7. QED
  BY <1>1, <1>2, <1>3, <1>4, <1>5, <1>6, EmitsHere

\* The blocks through all of main().
LEMMA BlocksNext ==
    ASSUME Types, WalkInv, PathInv, BlocksInv, [BindNext]_mainVars
    PROVE  BlocksInv'
<1>1. CASE Placing /\ stage = "emit"
  <2>1. emit_seg' = emit_seg /\ layout' = layout /\ stage' = stage
    BY <1>1, EmissionKnows, Moving DEF Placing
  <2>2. Tame => Agrees(asm, seg_stack, current_seg)' /\ Believed'
    BY <1>1, BlocksEmitted DEF Placing
  <2>3. QED
    BY <1>1, <2>1, <2>2 DEF BlocksInv, GlobsUnplaced, Tame
<1>2. CASE Placing /\ stage = "place"
  <2>1. asm' = asm /\ layout' = layout /\ stage' = stage
    BY <1>2 DEF Placing, PlaceNext, PlaceStep, EmitStep, PlaceFn, PlaceData, PlaceGlobal,
         PlaceAt, PlaceReturn, EmitFn, EmitData, EmitGlobal, EmitAt, EmitReturn, Use
  <2>2. emit_seg' = emit_seg \/ PlaceFn \/ PlaceData
    BY <1>2 DEF Placing, PlaceNext, PlaceStep, EmitStep, PlaceGlobal,
         PlaceAt, PlaceReturn, EmitFn, EmitData, EmitGlobal, EmitAt, EmitReturn, Use
  <2>3. GlobsUnplaced'
    BY <2>1, <2>2, GlobsStay DEF BlocksInv, GlobsUnplaced
  <2>4. Believed'
    BY <1>2, <2>1 DEF BlocksInv, Believed
  <2>5. QED
    BY <1>2, <2>1, <2>3, <2>4 DEF BlocksInv
<1>3. CASE Placing /\ stage \notin {"place", "emit"}
  BY <1>3 DEF PathInv, Placing, PlaceNext, PlaceStep, EmitStep, PlaceFn, PlaceData, PlaceGlobal,
         PlaceAt, PlaceReturn, EmitFn, EmitData, EmitGlobal, EmitAt, EmitReturn, Use, At
<1>4. CASE BeginEmission
  <2>1. /\ stage = "sort" /\ UNCHANGED <<layout, emit_seg, asm>>
        /\ current_seg' = UNKNOWN /\ seg_stack' = << >>
    BY <1>4 DEF BeginEmission, Begin
  <2>2. Agrees(asm, seg_stack, current_seg)'
    BY <2>1 DEF BlocksInv, Agrees
  <2>3. QED
    BY <1>4, <2>1, <2>2 DEF BlocksInv, GlobsUnplaced, Believed, Tame, BeginEmission
<1>5. CASE /\ UNCHANGED <<layout, emit_seg, asm, seg_stack, current_seg>>
           /\ stage' = stage \/ stage' \in {"done", "failed"} \/ (stage = "place" /\ stage' = "sort")
  BY <1>5 DEF BlocksInv, GlobsUnplaced, Believed, Tame, Agrees
<1>6. QED
  BY <1>1, <1>2, <1>3, <1>4, <1>5
     DEF BindNext, EndPlacement, SortStep, Preferring, AbiFailed, Clobbering, EndEmission,
         Exited, mainVars, placeVars, placing

\* Every label a build of tame modules writes is in the segment near and far were
\* decided by: emit_module() puts no object elsewhere than place_module() did.
THEOREM SegmentsBelievedCorrect == BindSpec => []SegmentsBelieved
<1>1. BindInit => Types /\ WalkInv /\ PathInv
  BY PlacedInit, PathInit
<1>2. BindInit => BlocksInv
  <2> SUFFICES ASSUME BindInit PROVE BlocksInv
    OBVIOUS
  <2>1. Types /\ stage = "place" /\ asm.stack = << >> /\ asm.labels = << >>
        /\ emit_seg = [r \in Ref |-> UNKNOWN]
    BY PlacedInit DEF BindInit, PlaceInit
  <2>2. GlobsUnplaced
    <3> SUFFICES ASSUME NEW m \in Mod, NEW k \in 1 .. Len(layout.items[m]),
                        layout.items[m][k].kind = "glob"
                 PROVE  emit_seg[layout.items[m][k].ref] = UNKNOWN
      BY DEF GlobsUnplaced
    <3>1. layout.items[m][k] \in Item
      BY <2>1 DEF Types, Layout
    <3>2. QED
      BY <2>1, <3>1, ItemKinds DEF Declares
  <2>3. QED
    BY <2>1, <2>2 DEF BlocksInv, Believed
<1>3. Types /\ WalkInv /\ PathInv /\ BlocksInv /\ [BindNext]_mainVars
      => (Types /\ WalkInv /\ PathInv /\ BlocksInv)'
  BY PlacedNext, PathNext, BlocksNext
<1>4. Types /\ BlocksInv => SegmentsBelieved
  <2> SUFFICES ASSUME Types, BlocksInv, Tame, NEW k \in DOMAIN asm.labels,
                      emit_seg[asm.labels[k][1]] # UNKNOWN
               PROVE  asm.labels[k][2] = emit_seg[asm.labels[k][1]]
    BY DEF SegmentsBelieved
  <2>1. k \in 1 .. Len(asm.labels)
    BY DEF Types, Asm
  <2>2. QED
    BY <2>1 DEF BlocksInv, Believed
<1>5. QED
  BY <1>1, <1>2, <1>3, <1>4, PTL DEF BindSpec

-----------------------------------------------------------------------------
(* A used module's blocks end with it. *)

Opens(it) == it.kind \in {"at", "data", "glob"} /\ it.seg # UNKNOWN

\* Counting one item more.
LEMMA CountOneMore ==
    ASSUME NEW n \in Nat \ {0}, NEW P, P \subseteq 1 .. n
    PROVE  LET low == {k \in 1 .. n - 1 : k \in P}
               all == {k \in 1 .. n : k \in P}
           IN  /\ Cardinality(all) = Cardinality(low) + (IF n \in P THEN 1 ELSE 0)
               /\ Cardinality(low) \in Nat
<1> DEFINE low == {k \in 1 .. n - 1 : k \in P}
           all == {k \in 1 .. n : k \in P}
<1>1. IsFiniteSet(low) /\ Cardinality(low) \in Nat
  <2>1. IsFiniteSet(1 .. n - 1) /\ low \subseteq 1 .. n - 1
    <3>1. 1 \in Int /\ n - 1 \in Int
      OBVIOUS
    <3>2. QED
      BY <3>1, FS_Interval
  <2>2. QED
    BY <2>1, FS_Subset, FS_CardinalityType
<1>2. ASSUME n \in P PROVE Cardinality(all) = Cardinality(low) + 1
  <2>1. all = low \cup {n} /\ n \notin low
    BY <1>2
  <2> HIDE DEF low, all
  <2>2. QED
    BY <1>1, <2>1, FS_AddElement
<1>3. ASSUME n \notin P PROVE Cardinality(all) = Cardinality(low)
  <2>1. all = low
    BY <1>3
  <2>2. QED
    BY <2>1
<1>4. Cardinality(all) = Cardinality(low) + (IF n \in P THEN 1 ELSE 0)
  <2> HIDE DEF low, all
  <2>1. QED
    BY <1>1, <1>2, <1>3
<1>5. QED
  BY <1>1, <1>4

\* Passing an item opens or closes at most one block.
LEMMA OpenedStep ==
    ASSUME NEW s \in Seq(Item), NEW n \in 1 .. Len(s)
    PROVE  /\ Opened(s, n) = Opened(s, n - 1) + (IF Opens(s[n]) THEN 1 ELSE 0)
           /\ Closed(s, n) = Closed(s, n - 1) + (IF s[n].kind = "endat" THEN 1 ELSE 0)
           /\ Opened(s, n - 1) \in Nat /\ Closed(s, n - 1) \in Nat
<1> DEFINE P == {k \in 1 .. n : s[k].kind \in {"at", "data", "glob"} /\ s[k].seg # UNKNOWN}
           Q == {k \in 1 .. n : s[k].kind = "endat"}
<1>1. n \in Nat \ {0}
  OBVIOUS
<1>2. Opened(s, n) = Cardinality({k \in 1 .. n : k \in P})
  BY DEF Opened
<1>3. Opened(s, n - 1) = Cardinality({k \in 1 .. n - 1 : k \in P})
  <2>1. {k \in 1 .. n - 1 : s[k].kind \in {"at", "data", "glob"} /\ s[k].seg # UNKNOWN}
        = {k \in 1 .. n - 1 : k \in P}
    OBVIOUS
  <2>2. QED
    BY <2>1 DEF Opened
<1>4. Closed(s, n) = Cardinality({k \in 1 .. n : k \in Q})
  BY DEF Closed
<1>5. Closed(s, n - 1) = Cardinality({k \in 1 .. n - 1 : k \in Q})
  <2>1. {k \in 1 .. n - 1 : s[k].kind = "endat"} = {k \in 1 .. n - 1 : k \in Q}
    OBVIOUS
  <2>2. QED
    BY <2>1 DEF Closed
<1>6. (n \in P <=> Opens(s[n])) /\ (n \in Q <=> s[n].kind = "endat")
      /\ P \subseteq 1 .. n /\ Q \subseteq 1 .. n
  BY DEF Opens
<1> HIDE DEF P, Q
<1>7. /\ Cardinality({k \in 1 .. n : k \in P}) =
            Cardinality({k \in 1 .. n - 1 : k \in P}) + (IF n \in P THEN 1 ELSE 0)
      /\ Cardinality({k \in 1 .. n - 1 : k \in P}) \in Nat
  BY <1>1, <1>6, CountOneMore
<1>8. /\ Cardinality({k \in 1 .. n : k \in Q}) =
            Cardinality({k \in 1 .. n - 1 : k \in Q}) + (IF n \in Q THEN 1 ELSE 0)
      /\ Cardinality({k \in 1 .. n - 1 : k \in Q}) \in Nat
  BY <1>1, <1>6, CountOneMore
<1>9. QED
  BY <1>2, <1>3, <1>4, <1>5, <1>6, <1>7, <1>8

\* Before the first item nothing is opened or closed.
LEMMA OpenedZero ==
    ASSUME NEW s
    PROVE  Opened(s, 0) = 0 /\ Closed(s, 0) = 0
<1>1. {k \in 1 .. 0 : s[k].kind \in {"at", "data", "glob"} /\ s[k].seg # UNKNOWN} = {}
      /\ {k \in 1 .. 0 : s[k].kind = "endat"} = {}
  OBVIOUS
<1>2. QED
  BY <1>1, FS_EmptySet DEF Opened, Closed

\* What an item does to the segment stack.
LEMMA StackMoves ==
    ASSUME Types, WalkInv, PlaceNext, At(Kinds)
    PROVE  \/ Opens(Cur) /\ PushSeg(Cur.seg) /\ Cur.kind # "endat"
           \/ Cur.kind = "endat" /\ PopSeg
           \/ ~Opens(Cur) /\ Cur.kind # "endat" /\ UNCHANGED <<current_seg, seg_stack>>
<1>1. ~EndOfUse
  BY CurType DEF EndOfUse
<1>2. CASE PlaceFn \/ EmitFn
  BY <1>2 DEF PlaceFn, EmitFn, At, Opens
<1>3. CASE PlaceData \/ EmitData
  BY <1>3 DEF PlaceData, EmitData, At, Opens, HasAt
<1>4. CASE PlaceGlobal \/ EmitGlobal
  BY <1>4 DEF PlaceGlobal, EmitGlobal, At, Opens, HasAt
<1>5. CASE PlaceAt \/ EmitAt
  <2>1. Cur.kind = "at" => Cur.seg # UNKNOWN
    BY CurType DEF Item
  <2>2. QED
    BY <1>5, <2>1 DEF PlaceAt, EmitAt, At, Opens
<1>6. CASE Use
  BY <1>6 DEF Use, At, Opens
<1>7. QED
  BY <1>1, <1>2, <1>3, <1>4, <1>5, <1>6 DEF PlaceNext, PlaceStep, EmitStep, PlaceReturn, EmitReturn

\* In tame modules no end at closes more than the module has opened.
LEMMA TameAt ==
    ASSUME Types, Tame, NEW m \in Mod, NEW n \in 0 .. Len(layout.items[m])
    PROVE  /\ Opened(layout.items[m], n) \in Nat /\ Closed(layout.items[m], n) \in Nat
           /\ Closed(layout.items[m], n) <= Opened(layout.items[m], n)
<1>1. PICK s \in Seq(Item) : s = layout.items[m]
  BY DEF Types, Layout
<1>2. CASE n = 0
  BY <1>2, OpenedZero
<1>3. CASE n # 0
  <2>1. n \in 1 .. Len(s)
    BY <1>1, <1>3
  <2>2. Closed(s, n) <= Opened(s, n)
    BY <1>1, <2>1 DEF Tame
  <2>3. Opened(s, n) \in Nat /\ Closed(s, n) \in Nat
    <3>1. /\ Opened(s, n) = Opened(s, n - 1) + (IF Opens(s[n]) THEN 1 ELSE 0)
          /\ Closed(s, n) = Closed(s, n - 1) + (IF s[n].kind = "endat" THEN 1 ELSE 0)
          /\ Opened(s, n - 1) \in Nat /\ Closed(s, n - 1) \in Nat
      BY ONLY <2>1, s \in Seq(Item), OpenedStep
    <3>2. QED
      BY ONLY <3>1
  <2>4. QED
    BY ONLY <1>1, <2>2, <2>3
<1>4. QED
  BY <1>2, <1>3

\* The blocks a call has open are those between its depth and the next call's.
Height(k) == IF k = Len(walk) THEN Len(seg_stack) ELSE walk[k + 1].depth
DepthInv ==
    Tame =>
    /\ \A k \in 1 .. Len(walk) :
          Opened(layout.items[walk[k].mod], walk[k].ei - 1) + walk[k].depth
          = Closed(layout.items[walk[k].mod], walk[k].ei - 1) + Height(k)
    /\ \A j, k \in 1 .. Len(walk) : j <= k => walk[j].depth <= walk[k].depth

\* Every call's depth is at most the height of the segment stack.
LEMMA DepthBelow ==
    ASSUME Types, WalkInv, DepthInv, Tame, NEW k \in 1 .. Len(walk)
    PROVE  walk[k].depth <= Len(seg_stack) /\ walk[k].depth <= Top.depth /\ Top.depth \in Nat
<1>1. Len(walk) \in 1 .. Len(walk) /\ Len(seg_stack) \in Nat /\ Top = walk[Len(walk)]
      /\ Top.mod \in Mod /\ Top.ei \in Nat /\ Top.depth \in Nat /\ walk[k].depth \in Nat
      /\ Len(walk) > 0
  BY WalkTypes, TopType DEF Types
<1>2. Top.ei - 1 \in 0 .. Len(layout.items[Top.mod])
  BY <1>1, TopItems DEF Items
<1>3. Opened(layout.items[Top.mod], Top.ei - 1) + Top.depth
      = Closed(layout.items[Top.mod], Top.ei - 1) + Len(seg_stack)
  BY <1>1 DEF DepthInv, Height
<1>4. Top.depth <= Len(seg_stack)
  <2>1. /\ Opened(layout.items[Top.mod], Top.ei - 1) \in Nat
        /\ Closed(layout.items[Top.mod], Top.ei - 1) \in Nat
        /\ Closed(layout.items[Top.mod], Top.ei - 1) <= Opened(layout.items[Top.mod], Top.ei - 1)
    BY <1>1, <1>2, TameAt
  <2>2. QED
    BY <1>1, <1>3, <2>1
<1>5. walk[k].depth <= Top.depth
  BY <1>1 DEF DepthInv
<1>6. QED
  BY <1>1, <1>4, <1>5

\* Passing an item of the module at the top keeps the depths right.
LEMMA DepthAdvance ==
    ASSUME Types, WalkInv, DepthInv, Tame, PlaceNext, At(Kinds), Advance
    PROVE  /\ DepthInv'
           /\ Cur.kind = "endat" => Len(seg_stack) > Top.depth
<1>1. /\ Len(walk) \in 1 .. Len(walk) /\ Top = walk[Len(walk)] /\ Top \in WalkFrame
      /\ Top.ei \in 1 .. Len(Items) /\ Items \in Seq(Item) /\ Top.mod \in Mod
  BY CurType DEF WalkFrame
<1>2. /\ Len(walk') = Len(walk)
      /\ \A k \in 1 .. Len(walk) :
            /\ walk'[k].mod = walk[k].mod /\ walk'[k].depth = walk[k].depth
            /\ walk'[k].ei = IF k = Len(walk) THEN walk[k].ei + 1 ELSE walk[k].ei
  BY AdvanceWalk
<1>3. layout' = layout
  BY Moving
<1>4. Len(seg_stack) \in Nat /\ Top.depth \in Nat /\ Len(walk) \in Nat
  BY <1>1 DEF Types, WalkFrame
<1>5. /\ Opened(Items, Top.ei) = Opened(Items, Top.ei - 1) + (IF Opens(Cur) THEN 1 ELSE 0)
      /\ Closed(Items, Top.ei) = Closed(Items, Top.ei - 1) + (IF Cur.kind = "endat" THEN 1 ELSE 0)
      /\ Opened(Items, Top.ei - 1) \in Nat /\ Closed(Items, Top.ei - 1) \in Nat
  BY <1>1, OpenedStep DEF Cur
<1>6. Opened(Items, Top.ei - 1) + Top.depth = Closed(Items, Top.ei - 1) + Len(seg_stack)
  BY <1>1 DEF DepthInv, Height, Items
<1>7. Closed(Items, Top.ei) <= Opened(Items, Top.ei)
  BY <1>1, TameAt DEF Items
<1>8. ASSUME Cur.kind = "endat" PROVE Len(seg_stack) > Top.depth
  <2>1. ~Opens(Cur)
    BY <1>8 DEF Opens
  <2>2. QED
    BY <1>4, <1>5, <1>6, <1>7, <1>8, <2>1
<1>9. Len(seg_stack') = Len(seg_stack) + (IF Opens(Cur) THEN 1 ELSE 0)
                        - (IF Cur.kind = "endat" THEN 1 ELSE 0)
  <2>1. CASE Opens(Cur) /\ PushSeg(Cur.seg) /\ Cur.kind # "endat"
    <3>1. Len(seg_stack') = Len(seg_stack) + 1
      BY <2>1 DEF PushSeg, Types
    <3>2. QED
      BY <1>4, <2>1, <3>1
  <2>2. CASE Cur.kind = "endat" /\ PopSeg
    <3>1. Len(seg_stack) > 0 /\ ~Opens(Cur)
      BY <1>4, <1>8, <2>2 DEF Opens
    <3>2. PICK n \in Nat : n = Len(seg_stack) - 1 /\ PopTo(n)
      BY <1>4, <2>2, <3>1 DEF PopSeg
    <3>3. seg_stack' = SubSeq(seg_stack, 1, n) /\ seg_stack \in Seq(Segs) /\ n \in 0 .. Len(seg_stack)
      BY <1>4, <3>2 DEF PopTo, Types
    <3>4. Len(seg_stack') = Len(seg_stack) - 1
      BY <3>2, <3>3
    <3>5. QED
      BY <1>4, <2>2, <3>1, <3>4
  <2>3. CASE ~Opens(Cur) /\ Cur.kind # "endat" /\ UNCHANGED <<current_seg, seg_stack>>
    BY <1>4, <2>3
  <2>4. QED
    BY <2>1, <2>2, <2>3, StackMoves
<1>10. Opened(Items, Top.ei) + Top.depth = Closed(Items, Top.ei) + Len(seg_stack')
  <2>1. PICK u \in {0, 1}, v \in {0, 1} :
            u = (IF Opens(Cur) THEN 1 ELSE 0) /\ v = (IF Cur.kind = "endat" THEN 1 ELSE 0)
    OBVIOUS
  <2>2. /\ Opened(Items, Top.ei) = Opened(Items, Top.ei - 1) + u
        /\ Closed(Items, Top.ei) = Closed(Items, Top.ei - 1) + v
        /\ Len(seg_stack') = Len(seg_stack) + u - v
    BY <1>5, <1>9, <2>1
  <2>3. PICK o \in Nat, c \in Nat, d \in Nat, h \in Nat :
            /\ o = Opened(Items, Top.ei - 1) /\ c = Closed(Items, Top.ei - 1)
            /\ d = Top.depth /\ h = Len(seg_stack)
    BY <1>4, <1>5
  <2>4. o + d = c + h
    BY <1>6, <2>3
  <2>5. (o + u) + d = (c + v) + (h + u - v)
    BY <2>4
  <2>6. QED
    BY <2>2, <2>3, <2>5
<1>11. ASSUME NEW k \in 1 .. Len(walk)
       PROVE  Opened(layout.items[walk'[k].mod], walk'[k].ei - 1) + walk'[k].depth
              = Closed(layout.items[walk'[k].mod], walk'[k].ei - 1)
                + (IF k = Len(walk) THEN Len(seg_stack') ELSE walk'[k + 1].depth)
  <2>1. CASE k = Len(walk)
    <3>1. walk'[k].mod = Top.mod /\ walk'[k].depth = Top.depth /\ walk'[k].ei = Top.ei + 1
      BY <1>1, <1>2, <2>1
    <3>2. walk'[k].ei - 1 = Top.ei
      BY <1>1, <3>1
    <3>3. QED
      BY <1>10, <2>1, <3>1, <3>2 DEF Items
  <2>2. CASE k # Len(walk)
    <3>1. k + 1 \in 1 .. Len(walk) /\ walk'[k + 1].depth = walk[k + 1].depth
          /\ walk'[k].mod = walk[k].mod /\ walk'[k].depth = walk[k].depth
          /\ walk'[k].ei = walk[k].ei
      BY <1>2, <1>4, <2>2
    <3>2. QED
      BY <2>2, <3>1 DEF DepthInv, Height
  <2>3. QED
    BY <2>1, <2>2
<1>12. \A j, k \in 1 .. Len(walk) : j <= k => walk'[j].depth <= walk'[k].depth
  BY <1>2 DEF DepthInv
<1>13. QED
  BY <1>2, <1>3, <1>8, <1>11, <1>12 DEF DepthInv, Height

\* Entering a module and returning from it keep the depths right.
LEMMA DepthEnter ==
    ASSUME Types, WalkInv, DepthInv, Tame, PlaceNext,
           At({"use"}), Cur.ref \notin seen, Enter(Cur.ref)
    PROVE  DepthInv' /\ seg_stack' = seg_stack
<1>1. Cur.ref \in Mod /\ Len(walk) \in Nat /\ layout' = layout /\ Len(seg_stack) \in Nat
      /\ Len(walk) > 0 /\ Len(walk) \in 1 .. Len(walk)
  BY CurSeg, Moving, CurType DEF Types
<1>2. seg_stack' = seg_stack
  <2>1. ~EndOfUse
    BY CurType DEF EndOfUse
  <2>2. QED
    BY <2>1 DEF PlaceNext, PlaceStep, EmitStep, PlaceFn, PlaceData, PlaceGlobal, PlaceAt,
       PlaceReturn, EmitFn, EmitData, EmitGlobal, EmitAt, EmitReturn, Use, At
<1> DEFINE new == [mod |-> Cur.ref, ei |-> 1, depth |-> Len(seg_stack)]
<1>3. /\ Len(walk') = Len(walk) + 1 /\ \A k \in 1 .. Len(walk) : walk'[k] = walk[k]
      /\ walk'[Len(walk) + 1] = new
  BY <1>1, EnterWalk
<1>4. new.mod = Cur.ref /\ new.ei = 1 /\ new.depth = Len(seg_stack)
  OBVIOUS
<1> HIDE DEF new
<1>5. ASSUME NEW k \in 1 .. Len(walk) + 1
      PROVE  Opened(layout.items[walk'[k].mod], walk'[k].ei - 1) + walk'[k].depth
             = Closed(layout.items[walk'[k].mod], walk'[k].ei - 1)
               + (IF k = Len(walk) + 1 THEN Len(seg_stack) ELSE walk'[k + 1].depth)
  <2>1. CASE k = Len(walk) + 1
    <3>1. walk'[k].ei - 1 = 0 /\ walk'[k].depth = Len(seg_stack)
      BY <1>3, <1>4, <2>1
    <3>2. QED
      BY <1>1, <2>1, <3>1, OpenedZero
  <2>2. CASE k # Len(walk) + 1
    <3>1. k \in 1 .. Len(walk) /\ walk'[k] = walk[k]
      BY <1>1, <1>3, <2>2
    <3>2. walk'[k + 1].depth = Height(k)
      <4>1. CASE k = Len(walk)
        BY <1>3, <1>4, <4>1 DEF Height
      <4>2. CASE k # Len(walk)
        <5>1. k + 1 \in 1 .. Len(walk)
          BY <1>1, <3>1, <4>2
        <5>2. QED
          BY <1>3, <4>2, <5>1 DEF Height
      <4>3. QED
        BY <4>1, <4>2
    <3>3. QED
      BY <2>2, <3>1, <3>2 DEF DepthInv
  <2>3. QED
    BY <2>1, <2>2
<1>6. ASSUME NEW j \in 1 .. Len(walk) + 1, NEW k \in 1 .. Len(walk) + 1, j <= k
      PROVE  walk'[j].depth <= walk'[k].depth
  <2>1. CASE k \in 1 .. Len(walk)
    <3>1. j \in 1 .. Len(walk)
      BY <1>1, <1>6, <2>1
    <3>2. QED
      BY <1>3, <1>6, <2>1, <3>1 DEF DepthInv
  <2>2. CASE k = Len(walk) + 1 /\ j \in 1 .. Len(walk)
    BY <1>3, <1>4, <2>2, DepthBelow
  <2>3. CASE k = Len(walk) + 1 /\ j = Len(walk) + 1
    BY <1>1, <1>3, <1>4, <2>3
  <2>4. QED
    BY <1>1, <2>1, <2>2, <2>3
<1>7. QED
  BY <1>1, <1>2, <1>3, <1>5, <1>6 DEF DepthInv, Height

\* Returning to a using module keeps the heights of the stacks recorded for the
\* walks under way.
LEMMA DepthReturn ==
    ASSUME Types, WalkInv, CallsInv, DepthInv, Tame, PlaceNext, EndOfUse, Return
    PROVE  DepthInv'
<1> DEFINE n == Len(walk) - 1
<1>1. Len(walk) \in Nat /\ Len(walk) > 1 /\ n \in 1 .. Len(walk) /\ layout' = layout
      /\ Len(seg_stack) \in Nat /\ Len(walk) \in 1 .. Len(walk)
  BY Moving DEF Types, EndOfUse
<1>2. /\ Len(walk') = n
      /\ \A k \in 1 .. n :
            /\ walk'[k].mod = walk[k].mod /\ walk'[k].depth = walk[k].depth
            /\ walk'[k].ei = IF k = n THEN walk[k].ei + 1 ELSE walk[k].ei
  BY ReturnWalk
<1>3. Top.depth \in Nat /\ Top = walk[n + 1]
  BY <1>1, TopType
<1>4. Len(seg_stack') = Top.depth
  <2>1. Top.depth <= Len(seg_stack)
    BY <1>1, DepthBelow, <1>3
  <2>2. PopTo(Top.depth)
    <3>1. ~At(Kinds)
      BY CurType DEF EndOfUse
    <3>2. QED
      BY <3>1 DEF PlaceNext, PlaceStep, EmitStep, PlaceFn, PlaceData, PlaceGlobal, PlaceAt,
         PlaceReturn, EmitFn, EmitData, EmitGlobal, EmitAt, EmitReturn, Use, At, Kinds
  <2>3. CASE Len(seg_stack) > Top.depth
    BY <1>1, <1>3, <2>2, <2>3 DEF PopTo, Types
  <2>4. CASE ~(Len(seg_stack) > Top.depth)
    BY <1>1, <1>3, <2>1, <2>2, <2>4 DEF PopTo
  <2>5. QED
    BY <2>3, <2>4
<1>5. PICK m \in Mod, e \in Nat : m = walk[n].mod /\ e = walk[n].ei
  BY <1>1, WalkTypes
<1>6. e \in 1 .. Len(layout.items[m]) /\ layout.items[m] \in Seq(Item)
      /\ layout.items[m][e].kind = "use"
  <2>1. layout.items[m] \in Seq(Item)
    BY DEF Types, Layout
  <2>2. n < Len(walk)
    BY <1>1
  <2>3. e \in 1 .. Len(layout.items[m]) + 1 /\ e <= Len(layout.items[m])
    BY <1>1, <1>5, <2>2 DEF WalkInv
  <2>4. layout.items[m][e].kind = "use"
    BY <1>1, <1>5 DEF CallsInv
  <2>5. QED
    BY <2>1, <2>3, <2>4
<1>7. Opened(layout.items[m], e) = Opened(layout.items[m], e - 1)
      /\ Closed(layout.items[m], e) = Closed(layout.items[m], e - 1)
  <2>1. ~Opens(layout.items[m][e]) /\ layout.items[m][e].kind # "endat"
    BY <1>6 DEF Opens
  <2>2. /\ Opened(layout.items[m], e - 1) \in Nat /\ Closed(layout.items[m], e - 1) \in Nat
        /\ Opened(layout.items[m], e) = Opened(layout.items[m], e - 1) + 0
        /\ Closed(layout.items[m], e) = Closed(layout.items[m], e - 1) + 0
    BY <1>6, <2>1, OpenedStep
  <2>3. QED
    BY <2>2
<1>8. ASSUME NEW k \in 1 .. n
      PROVE  Opened(layout.items[walk'[k].mod], walk'[k].ei - 1) + walk'[k].depth
             = Closed(layout.items[walk'[k].mod], walk'[k].ei - 1)
               + (IF k = n THEN Len(seg_stack') ELSE walk'[k + 1].depth)
  <2>0. k \in 1 .. Len(walk) /\ k # Len(walk)
    BY <1>1
  <2>1. CASE k = n
    <3>1. walk'[k].mod = m /\ walk'[k].depth = walk[k].depth /\ walk'[k].ei = e + 1
      BY <1>2, <1>5, <2>1
    <3>2. walk'[k].ei - 1 = e
      BY <3>1
    <3>3. Opened(layout.items[m], e - 1) + walk[k].depth
          = Closed(layout.items[m], e - 1) + Top.depth
      BY <1>3, <1>5, <2>0, <2>1 DEF DepthInv, Height
    <3>4. QED
      BY <1>4, <1>7, <2>1, <3>1, <3>2, <3>3
  <2>2. CASE k # n
    <3>1. k + 1 \in 1 .. n
      BY <1>1, <2>2
    <3>2. walk'[k + 1].depth = walk[k + 1].depth /\ walk'[k].mod = walk[k].mod
          /\ walk'[k].depth = walk[k].depth /\ walk'[k].ei = walk[k].ei
      BY <1>2, <2>2, <3>1
    <3>3. QED
      BY <2>0, <2>2, <3>2 DEF DepthInv, Height
  <2>3. QED
    BY <2>1, <2>2
<1>9. ASSUME NEW j \in 1 .. n, NEW k \in 1 .. n, j <= k
      PROVE  walk'[j].depth <= walk'[k].depth
  BY <1>1, <1>2, <1>9 DEF DepthInv
<1>10. QED
  BY <1>1, <1>2, <1>8, <1>9 DEF DepthInv, Height

\* The depths through all of main().
LEMMA DepthNext ==
    ASSUME Types, WalkInv, CallsInv, DepthInv, [BindNext]_mainVars
    PROVE  DepthInv'
<1>1. CASE Placing
  <2> SUFFICES ASSUME Tame PROVE DepthInv'
    BY <1>1, Moving DEF Placing, DepthInv, Tame
  <2>1. QED
    BY <1>1, Moving, DepthAdvance, DepthEnter, DepthReturn DEF Placing
<1>2. CASE UNCHANGED <<layout, walk, seg_stack>>
  BY <1>2 DEF DepthInv, Height, Tame
<1>3. CASE walk' = << >>
  BY <1>3 DEF DepthInv
<1>4. CASE /\ walk' = <<[mod |-> layout.root, ei |-> 1, depth |-> 0]>> /\ seg_stack' = << >>
           /\ layout' = layout
  <2>1. Len(walk') = 1 /\ walk'[1].ei - 1 = 0 /\ walk'[1].depth = 0 /\ Len(seg_stack') = 0
    BY <1>4
  <2>2. QED
    BY <2>1, OpenedZero DEF DepthInv, Height
<1>5. QED
  BY <1>1, <1>2, <1>3, <1>4
     DEF BindNext, EndPlacement, SortStep, Preferring, AbiFailed, Clobbering, BeginEmission,
         Begin, EndEmission, Exited, mainVars, placeVars, placing

-----------------------------------------------------------------------------
(* What a used module finds at its start it leaves at its end. *)

\* The assembler is in blocks of its own on top of the d it was in at e.
Inside(a, e, d) ==
    /\ d <= Len(a.stack) /\ Len(e.stack) = d
    /\ \A j \in 1 .. d : a.stack[j] = e.stack[j]
    /\ IF Len(a.stack) = d THEN a.base = e.base /\ a.seg = e.seg
       ELSE a.stack[d + 1].base = e.base /\ a.stack[d + 1].seg = e.seg

\* Opening a block.
LEMMA InsideOrg ==
    ASSUME NEW a \in Asm, NEW e \in Asm, NEW d \in Nat, NEW s, Inside(a, e, d)
    PROVE  Inside(Org(a, s), e, d)
<1> DEFINE o == [base |-> a.base, seg |-> a.seg]
<1>1. a.stack \in Seq(OrgFrame) /\ o \in OrgFrame /\ Len(a.stack) \in Nat
  BY DEF Asm, OrgFrame
<1>2. Org(a, s).stack = Append(a.stack, o)
  BY DEF Org, Asm
<1>3. o.base = a.base /\ o.seg = a.seg
  OBVIOUS
<1> HIDE DEF o
<1>4. /\ Len(Append(a.stack, o)) = Len(a.stack) + 1
      /\ \A j \in 1 .. Len(a.stack) : Append(a.stack, o)[j] = a.stack[j]
      /\ Append(a.stack, o)[Len(a.stack) + 1] = o
  BY <1>1
<1>5. CASE Len(a.stack) = d
  BY <1>1, <1>2, <1>3, <1>4, <1>5 DEF Inside
<1>6. CASE Len(a.stack) # d
  <2>1. d + 1 \in 1 .. Len(a.stack)
    BY <1>1, <1>6 DEF Inside
  <2>2. QED
    BY <1>1, <1>2, <1>4, <1>6, <2>1 DEF Inside
<1>7. QED
  BY <1>5, <1>6

\* Closing blocks of its own.
LEMMA InsideEndorgs ==
    ASSUME NEW a \in Asm, NEW e \in Asm, NEW d \in Nat, Inside(a, e, d),
           NEW n \in Nat, d <= n, n < Len(a.stack)
    PROVE  Inside(Endorgs(a, Len(a.stack) - n), e, d)
<1> DEFINE b == Endorgs(a, Len(a.stack) - n)
<1>1. /\ Len(b.stack) = n /\ \A j \in 1 .. n : b.stack[j] = a.stack[j]
      /\ b.base = a.stack[n + 1].base /\ b.seg = a.stack[n + 1].seg
  BY EndorgsIs
<1>2. a.stack \in Seq(OrgFrame) /\ Len(a.stack) \in Nat
  BY DEF Asm
<1> HIDE DEF b
<1>3. Inside(b, e, d)
  <2>1. CASE n = d
    <3>1. Len(b.stack) = d /\ b.base = e.base /\ b.seg = e.seg
      BY <1>1, <1>2, <2>1 DEF Inside
    <3>2. \A j \in 1 .. d : b.stack[j] = e.stack[j]
      BY <1>1, <2>1 DEF Inside
    <3>3. QED
      BY <3>1, <3>2 DEF Inside
  <2>2. CASE n # d
    <3>1. d + 1 \in 1 .. n /\ Len(a.stack) # d
      BY <1>2, <2>2
    <3>2. \A j \in 1 .. d : b.stack[j] = e.stack[j]
      BY <1>1 DEF Inside
    <3>3. b.stack[d + 1].base = e.base /\ b.stack[d + 1].seg = e.seg
      BY <1>1, <3>1 DEF Inside
    <3>4. QED
      BY <1>1, <2>2, <3>1, <3>2, <3>3 DEF Inside
  <2>3. QED
    BY <2>1, <2>2
<1>4. QED
  BY <1>3 DEF b

\* Labels, and a segment directive that changes nothing.
LEMMA InsideLabel ==
    ASSUME NEW a \in Asm, NEW e, NEW d, Inside(a, e, d)
    PROVE  /\ \A r : Inside(Label(a, r), e, d)
           /\ \A s : s = a.seg => Inside([a EXCEPT !.seg = s], e, d)
<1>1. ASSUME NEW r PROVE Label(a, r).stack = a.stack /\ Label(a, r).base = a.base /\ Label(a, r).seg = a.seg
  BY DEF Label, Asm
<1>2. ASSUME NEW s, s = a.seg PROVE [a EXCEPT !.seg = s] = a
  BY <1>2 DEF Asm
<1>3. QED
  BY <1>1, <1>2 DEF Inside

\* During emission every call's blocks are on top of those at its start.
FramesInv ==
    stage = "emit" /\ Tame =>
        \A k \in 1 .. Len(walk) : Inside(asm, entries[k], walk[k].depth)

\* The invariants this part of the proof rests on.
EmissionInv == Types /\ WalkInv /\ CallsInv /\ PathInv /\ BlocksInv /\ DepthInv

\* At an item the calls under way stay, each in its blocks.
LEMMA FramesAdvance ==
    ASSUME EmissionInv, FramesInv, Tame, stage = "emit", PlaceNext, At(Kinds), Advance
    PROVE  \A k \in 1 .. Len(walk) : Inside(asm', entries[k], walk[k].depth)
<1>0. /\ asm \in Asm /\ Len(walk) = Len(entries)
      /\ \A k \in 1 .. Len(walk) :
            Inside(asm, entries[k], walk[k].depth) /\ entries[k] \in Asm /\ walk[k].depth \in Nat
  BY WalkTypes DEF EmissionInv, Types, FramesInv
<1>1. bind_errors = 0 /\ Decided(Pos)
  BY EmissionKnows DEF EmissionInv
<1>2. Agrees(asm, seg_stack, current_seg)
  BY DEF EmissionInv, BlocksInv
<1>3. ~EndOfUse
  BY CurType DEF EndOfUse, EmissionInv
<1>4. CASE asm' = asm
  BY <1>0, <1>4
<1>5. CASE \E r \in Ref, b \in Asm :
              /\ asm' = Label(b, r)
              /\ \/ b = asm \/ b = Org(asm, Cur.seg)
                 \/ b = [asm EXCEPT !.seg = current_seg] /\ current_seg # UNKNOWN
  <2>0. PICK r \in Ref, b \in Asm :
            /\ asm' = Label(b, r)
            /\ \/ b = asm \/ b = Org(asm, Cur.seg)
               \/ b = [asm EXCEPT !.seg = current_seg] /\ current_seg # UNKNOWN
    BY <1>5
  <2>1. \A k \in 1 .. Len(walk) : Inside(b, entries[k], walk[k].depth)
    <3>1. CASE b = asm
      BY <1>0, <3>1
    <3>2. CASE b = Org(asm, Cur.seg)
      BY <1>0, <3>2, InsideOrg
    <3>3. CASE b = [asm EXCEPT !.seg = current_seg] /\ current_seg # UNKNOWN
      <4>1. asm.seg = current_seg
        BY <1>2, <3>3 DEF Agrees
      <4>2. QED
        BY <1>0, <3>3, <4>1, InsideLabel
    <3>4. QED
      BY <2>0, <3>1, <3>2, <3>3
  <2>2. \A k \in 1 .. Len(walk) : Inside(Label(b, r), entries[k], walk[k].depth)
    BY <2>1, InsideLabel
  <2>3. QED
    BY <2>0, <2>2
<1>6. CASE asm' = Org(asm, Cur.seg)
  BY <1>0, <1>6, InsideOrg
<1>7. CASE At({"endat"}) /\ asm' = Endorgs(asm, 1)
  <2> SUFFICES ASSUME NEW k \in 1 .. Len(walk)
               PROVE  Inside(asm', entries[k], walk[k].depth)
    OBVIOUS
  <2>1. Len(seg_stack) > Top.depth
    BY <1>7, DepthAdvance DEF At, EmissionInv
  <2>2. walk[k].depth <= Top.depth /\ Top.depth \in Nat /\ walk[k].depth \in Nat
    BY <1>0, DepthBelow DEF EmissionInv
  <2>3. Len(asm.stack) = Len(seg_stack) /\ Len(asm.stack) \in Nat
    BY <1>2 DEF Agrees, EmissionInv, Types
  <2>4. PICK n \in Nat : n = Len(asm.stack) - 1 /\ Len(asm.stack) - n = 1
                        /\ walk[k].depth <= n /\ n < Len(asm.stack)
    <3>1. Len(asm.stack) - 1 \in Nat /\ Len(asm.stack) - (Len(asm.stack) - 1) = 1
          /\ walk[k].depth <= Len(asm.stack) - 1 /\ Len(asm.stack) - 1 < Len(asm.stack)
      BY <2>1, <2>2, <2>3
    <3>2. QED
      BY <3>1
  <2>5. Inside(Endorgs(asm, Len(asm.stack) - n), entries[k], walk[k].depth)
    BY <1>0, <2>2, <2>4, InsideEndorgs
  <2>6. QED
    BY <1>7, <2>4, <2>5
<1>8. QED
  <2>1. Types /\ WalkInv
    BY DEF EmissionInv
  <2>2. \/ asm' = asm
        \/ \E r \in Ref, b \in Asm :
              /\ asm' = Label(b, r)
              /\ \/ b = asm \/ b = Org(asm, Cur.seg)
                 \/ b = [asm EXCEPT !.seg = current_seg] /\ current_seg # UNKNOWN
        \/ asm' = Org(asm, Cur.seg)
        \/ At({"endat"}) /\ asm' = Endorgs(asm, 1)
    BY <1>1, <1>3, <2>1, EmitsHere
  <2>3. QED
    BY <1>4, <1>5, <1>6, <1>7, <2>2

\* At the end of a used module the assembler is where it was at its start.
LEMMA ModuleLeft ==
    ASSUME EmissionInv, FramesInv, Tame, stage = "emit", PlaceNext, EndOfUse
    PROVE  /\ Inside(asm', Last(entries), Top.depth) /\ Len(asm'.stack) = Top.depth
           /\ Len(Last(entries).stack) = Top.depth /\ Last(entries) \in Asm
           /\ \A k \in 1 .. Len(walk) : Inside(asm', entries[k], walk[k].depth)
<1>0. /\ asm \in Asm /\ Len(walk) = Len(entries) /\ Len(walk) \in 1 .. Len(walk)
      /\ entries \in Seq(Asm) /\ Len(entries) > 0
      /\ \A k \in 1 .. Len(walk) :
            Inside(asm, entries[k], walk[k].depth) /\ entries[k] \in Asm /\ walk[k].depth \in Nat
  BY WalkTypes DEF EmissionInv, Types, FramesInv, EndOfUse
<1>1. Top = walk[Len(walk)] /\ Last(entries) = entries[Len(walk)]
  BY <1>0, TopType, FrontOf DEF EmissionInv, EndOfUse
<1>2. Agrees(asm, seg_stack, current_seg)
  BY DEF EmissionInv, BlocksInv
<1>3. Len(asm.stack) = Len(seg_stack) /\ Len(asm.stack) \in Nat /\ Top.depth \in Nat
      /\ Top.depth <= Len(seg_stack)
  BY <1>0, <1>1, <1>2, DepthBelow DEF Agrees, EmissionInv, Types
<1>4. asm' = IF Len(seg_stack) > Top.depth THEN Endorgs(asm, Len(seg_stack) - Top.depth) ELSE asm
  <2>1. ~At(Kinds)
    BY CurType DEF EndOfUse, EmissionInv
  <2>2. QED
    BY <2>1 DEF PlaceNext, PlaceStep, EmitStep, PlaceFn, PlaceData, PlaceGlobal, PlaceAt,
       PlaceReturn, EmitFn, EmitData, EmitGlobal, EmitAt, EmitReturn, Use, At, Kinds
<1>5. \A k \in 1 .. Len(walk) : walk[k].depth <= Top.depth
  BY DepthBelow DEF EmissionInv
<1>6. Len(asm'.stack) = Top.depth
      /\ \A k \in 1 .. Len(walk) : Inside(asm', entries[k], walk[k].depth)
  <2>1. CASE Len(seg_stack) > Top.depth
    <3>1. asm' = Endorgs(asm, Len(asm.stack) - Top.depth) /\ Top.depth < Len(asm.stack)
      BY <1>3, <1>4, <2>1
    <3>2. Len(asm'.stack) = Top.depth
      BY <1>0, <1>3, <3>1, EndorgsIs
    <3>3. \A k \in 1 .. Len(walk) : Inside(asm', entries[k], walk[k].depth)
      BY <1>0, <1>3, <1>5, <3>1, InsideEndorgs
    <3>4. QED
      BY <3>2, <3>3
  <2>2. CASE ~(Len(seg_stack) > Top.depth)
    BY <1>0, <1>3, <1>4, <2>2
  <2>3. QED
    BY <2>1, <2>2
<1>7. Inside(asm', Last(entries), Top.depth)
  BY <1>0, <1>1, <1>6
<1>8. QED
  BY <1>0, <1>1, <1>6, <1>7 DEF Inside

\* All of it through all of main().
LEMMA EmissionNext ==
    ASSUME EmissionInv, [BindNext]_mainVars
    PROVE  EmissionInv'
BY PlacedNext, NestedNext, PathNext, BlocksNext, DepthNext DEF EmissionInv

\* All that is needed of an emission holds before the first walk.
LEMMA EmissionInit ==
    ASSUME BindInit
    PROVE  EmissionInv /\ FramesInv
<1>1. Types /\ WalkInv /\ PathInv /\ CallsInv /\ stage = "place"
  BY PlacedInit, PathInit DEF BindInit, PlaceInit
<1>2. BlocksInv
  <2>1. asm.stack = << >> /\ asm.labels = << >> /\ emit_seg = [r \in Ref |-> UNKNOWN]
    BY DEF BindInit, PlaceInit
  <2>2. GlobsUnplaced
    <3> SUFFICES ASSUME NEW m \in Mod, NEW k \in 1 .. Len(layout.items[m]),
                        layout.items[m][k].kind = "glob"
                 PROVE  emit_seg[layout.items[m][k].ref] = UNKNOWN
      BY DEF GlobsUnplaced
    <3>1. layout.items[m][k] \in Item
      BY <1>1 DEF Types, Layout
    <3>2. QED
      BY <2>1, <3>1, ItemKinds DEF Declares
  <2>3. QED
    BY <1>1, <2>1, <2>2 DEF BlocksInv, Believed
<1>3. DepthInv
  <2>1. Len(walk) = 1 /\ walk[1].ei - 1 = 0 /\ walk[1].depth = 0 /\ Len(seg_stack) = 0
    BY DEF BindInit, PlaceInit
  <2>2. QED
    BY <2>1, OpenedZero DEF DepthInv, Height
<1>4. QED
  BY <1>1, <1>2, <1>3 DEF EmissionInv, FramesInv

\* The org stack at the start of every walk under way is kept below its own blocks.
LEMMA FramesNext ==
    ASSUME EmissionInv, FramesInv, [BindNext]_mainVars
    PROVE  FramesInv'
<1>0. Types /\ WalkInv /\ CallsInv /\ BlocksInv
  BY DEF EmissionInv
<1>1. CASE Placing /\ stage = "emit"
  <2>1. layout' = layout /\ stage' = stage /\ PlaceNext
    BY <1>0, <1>1, EmissionKnows, Moving DEF Placing, EmissionInv
  <2> SUFFICES ASSUME Tame
               PROVE  \A k \in 1 .. Len(walk') : Inside(asm', entries'[k], walk'[k].depth)
    BY <2>1 DEF FramesInv, Tame
  <2>2. CASE At(Kinds) /\ Advance /\ UNCHANGED seen
    <3>1. \A k \in 1 .. Len(walk) : Inside(asm', entries[k], walk[k].depth)
      BY <1>1, <2>1, <2>2, FramesAdvance
    <3>2. /\ Len(walk') = Len(walk) /\ entries' = entries
          /\ \A k \in 1 .. Len(walk) : walk'[k].depth = walk[k].depth
      BY <1>0, <2>2, AdvanceWalk
    <3>3. QED
      BY <3>1, <3>2
  <2>3. CASE At({"use"}) /\ Cur.ref \notin seen /\ Enter(Cur.ref)
    <3>1. Cur.ref \in Mod
      BY <1>0, <2>3, CurSeg
    <3>2. /\ Len(walk') = Len(walk) + 1 /\ \A k \in 1 .. Len(walk) : walk'[k] = walk[k]
          /\ walk'[Len(walk) + 1] = [mod |-> Cur.ref, ei |-> 1, depth |-> Len(seg_stack)]
          /\ entries' = Append(entries, asm)
      BY <1>0, <2>3, <3>1, EnterWalk
    <3>3. entries \in Seq(Asm) /\ asm \in Asm /\ Len(entries) = Len(walk)
          /\ Len(asm.stack) = Len(seg_stack) /\ Len(asm.stack) \in Nat /\ Len(walk) \in Nat
      BY <1>0, <1>1 DEF Types, BlocksInv, Agrees
    <3>4. asm' = asm
      <4>1. ~EndOfUse
        BY <1>0, <2>3, CurType DEF EndOfUse
      <4>2. QED
        BY <2>1, <2>3, <4>1 DEF PlaceNext, PlaceStep, EmitStep, PlaceFn, PlaceData, PlaceGlobal,
           PlaceAt, PlaceReturn, EmitFn, EmitData, EmitGlobal, EmitAt, EmitReturn, Use, At
    <3>5. ASSUME NEW k \in 1 .. Len(walk) + 1
          PROVE  Inside(asm, entries'[k], walk'[k].depth)
      <4>1. CASE k = Len(walk) + 1
        <5>1. entries'[k] = asm /\ walk'[k].depth = Len(asm.stack)
          BY <3>2, <3>3, <4>1
        <5>2. QED
          BY <3>3, <5>1 DEF Inside
      <4>2. CASE k # Len(walk) + 1
        <5>1. k \in 1 .. Len(walk) /\ entries'[k] = entries[k] /\ walk'[k] = walk[k]
          BY <3>2, <3>3, <4>2
        <5>2. QED
          BY <1>1, <5>1 DEF FramesInv
      <4>3. QED
        BY <4>1, <4>2
    <3>6. QED
      BY <3>2, <3>4, <3>5
  <2>4. CASE EndOfUse /\ Return /\ UNCHANGED seen
    <3>1. \A k \in 1 .. Len(walk) : Inside(asm', entries[k], walk[k].depth)
      BY <1>1, <2>1, <2>4, ModuleLeft
    <3>2. /\ Len(walk') = Len(walk) - 1 /\ Len(walk) \in Nat
          /\ \A k \in 1 .. Len(walk) - 1 :
                walk'[k].depth = walk[k].depth /\ entries'[k] = entries[k]
      BY <1>0, <2>4, ReturnWalk DEF Types
    <3>3. QED
      BY <3>1, <3>2
  <2>5. QED
    BY <2>1, <2>2, <2>3, <2>4, Moving
<1>2. CASE BeginEmission
  <2>1. /\ walk' = <<[mod |-> layout.root, ei |-> 1, depth |-> 0]>> /\ entries' = <<asm>>
        /\ asm' = asm /\ asm.stack = << >>
    BY <1>0, <1>2 DEF BeginEmission, Begin, BlocksInv
  <2>2. Len(walk') = 1 /\ entries'[1] = asm /\ walk'[1].depth = 0 /\ Len(asm.stack) = 0
    BY <2>1
  <2>3. \A k \in 1 .. Len(walk') : Inside(asm', entries'[k], walk'[k].depth)
    BY <2>1, <2>2 DEF Inside
  <2>4. QED
    BY <2>3 DEF FramesInv
<1>3. CASE stage' # "emit"
  BY <1>3 DEF FramesInv
<1>4. CASE UNCHANGED placeVars
  BY <1>4 DEF FramesInv, Tame, placeVars, placing
<1>5. CASE Placing /\ stage # "emit"
  BY <1>3, <1>5 DEF Placing, PlaceNext, PlaceStep, EmitStep, PlaceFn, PlaceData, PlaceGlobal,
     PlaceAt, PlaceReturn, EmitFn, EmitData, EmitGlobal, EmitAt, EmitReturn, Use
<1>6. QED
  BY <1>1, <1>2, <1>3, <1>4, <1>5
     DEF BindNext, EndPlacement, SortStep, Preferring, AbiFailed, Clobbering, EndEmission,
         Exited, mainVars

\* A state of the assembler is its position and its labels.
LEMMA SamePlace ==
    ASSUME NEW a \in Asm, NEW e \in Asm, NEW d \in Nat, Inside(a, e, d), Len(a.stack) = d
    PROVE  [a EXCEPT !.labels = << >>] = [e EXCEPT !.labels = << >>]
<1>1. a.base = e.base /\ a.seg = e.seg /\ Len(e.stack) = d /\ \A j \in 1 .. d : a.stack[j] = e.stack[j]
  BY DEF Inside
<1>2. a.stack \in Seq(OrgFrame) /\ e.stack \in Seq(OrgFrame)
  BY DEF Asm
<1>3. a.stack = e.stack
  BY <1>1, <1>2, SeqEqual
<1>4. QED
  BY <1>1, <1>3 DEF Asm

\* A walk is not at its end where a used module ends.
LEMMA NotBoth == ~(EndOfUse /\ EndOfWalk)
BY DEF EndOfUse, EndOfWalk

\* A used module of a tame build leaves the assembler in the very block and segment
\* it found, with the same blocks open around it: emit_module() closes what the
\* module left open, and nothing else.
THEOREM ModulesIsolatedCorrect == BindSpec => ModulesIsolated
<1>1. BindInit => EmissionInv /\ FramesInv
  BY EmissionInit
<1>2. EmissionInv /\ FramesInv /\ [BindNext]_mainVars => (EmissionInv /\ FramesInv)'
  BY EmissionNext, FramesNext
<1>3. EmissionInv /\ EmissionInv' /\ FramesInv /\ [BindNext]_mainVars
      => [stage = "emit" /\ EndOfUse /\ Tame =>
             [asm' EXCEPT !.labels = << >>] = [Last(entries) EXCEPT !.labels = << >>]]_placeVars
  <2> SUFFICES ASSUME EmissionInv, EmissionInv', FramesInv, [BindNext]_mainVars,
                      stage = "emit", EndOfUse, Tame, ~(UNCHANGED placeVars)
               PROVE  [asm' EXCEPT !.labels = << >>] = [Last(entries) EXCEPT !.labels = << >>]
    OBVIOUS
  <2>1. PlaceNext
    <3>1. ~EndOfWalk
      BY NotBoth
    <3>2. BindNext
      BY DEF mainVars
    <3>3. QED
      BY <3>1, <3>2 DEF BindNext, Placing, EndPlacement, SortStep, Preferring, AbiFailed,
         Clobbering, BeginEmission, EndEmission, Exited, mainVars
  <2>2. /\ Inside(asm', Last(entries), Top.depth) /\ Len(asm'.stack) = Top.depth
        /\ Last(entries) \in Asm
    BY <2>1, ModuleLeft
  <2>3. asm' \in Asm /\ Top.depth \in Nat
    BY TopType DEF EmissionInv, Types, EndOfUse
  <2>4. QED
    BY <2>2, <2>3, SamePlace
<1>4. QED
  BY <1>1, <1>2, <1>3, PTL DEF BindSpec, ModulesIsolated

-----------------------------------------------------------------------------
(* Every module reached is written, once. *)

UsesOf(X) ==
    {it.ref : it \in {x \in UNION {ToSet(layout.items[m]) : m \in X} : x.kind = "use"}}

\* The modules used by modules of X.
LEMMA UsesAre ==
    ASSUME layout \in Layout, NEW X \in SUBSET Mod
    PROVE  /\ UsesOf(X) \subseteq Mod
           /\ \A r : r \in UsesOf(X) <=>
                 \E m \in X : \E e \in 1 .. Len(layout.items[m]) :
                     layout.items[m][e].kind = "use" /\ layout.items[m][e].ref = r
<1>1. \A m \in X : layout.items[m] \in Seq(Item)
  BY DEF Layout
<1>2. \A m \in X : ToSet(layout.items[m]) = {layout.items[m][e] : e \in 1 .. Len(layout.items[m])}
  BY <1>1 DEF ToSet
<1>3. \A m \in X : \A e \in 1 .. Len(layout.items[m]) :
          layout.items[m][e].kind = "use" => layout.items[m][e].ref \in Mod
  BY <1>1, ItemKinds
<1>4. \A r : r \in UsesOf(X) <=>
          \E m \in X : \E e \in 1 .. Len(layout.items[m]) :
              layout.items[m][e].kind = "use" /\ layout.items[m][e].ref = r
  <2>1. \A x : x \in UNION {ToSet(layout.items[m]) : m \in X} <=>
            \E m \in X : \E e \in 1 .. Len(layout.items[m]) : x = layout.items[m][e]
    BY <1>2
  <2>2. \A r : r \in UsesOf(X) <=>
            \E x \in UNION {ToSet(layout.items[m]) : m \in X} : x.kind = "use" /\ r = x.ref
    BY DEF UsesOf
  <2>3. ASSUME NEW r, r \in UsesOf(X)
        PROVE  \E m \in X : \E e \in 1 .. Len(layout.items[m]) :
                   layout.items[m][e].kind = "use" /\ layout.items[m][e].ref = r
    <3>1. PICK x \in UNION {ToSet(layout.items[m]) : m \in X} : x.kind = "use" /\ r = x.ref
      BY <2>2, <2>3
    <3>2. \E m \in X : \E e \in 1 .. Len(layout.items[m]) : x = layout.items[m][e]
      BY <2>1
    <3>3. QED
      BY <3>1, <3>2
  <2>4. ASSUME NEW r, NEW m \in X, NEW e \in 1 .. Len(layout.items[m]),
               layout.items[m][e].kind = "use", layout.items[m][e].ref = r
        PROVE  r \in UsesOf(X)
    <3>1. layout.items[m][e] \in UNION {ToSet(layout.items[n]) : n \in X}
      BY <1>2
    <3>2. QED
      BY <2>2, <2>4, <3>1
  <2>5. QED
    BY <2>3, <2>4
<1>5. QED
  BY <1>3, <1>4

\* ReachableIn is the iteration it looks like.
LEMMA ReachDef ==
    ASSUME layout \in Layout
    PROVE  /\ ReachableIn \in [Nat -> SUBSET Mod]
           /\ ReachableIn[0] = {layout.root}
           /\ \A n \in Nat : ReachableIn[n + 1] = ReachableIn[n] \cup UsesOf(ReachableIn[n])
<1> DEFINE grow == [X \in SUBSET Mod |-> X \cup UsesOf(X)]
           Eqn(b) == b = [n \in Nat |-> IF n = 0 THEN {layout.root}
                                        ELSE b[n - 1] \cup UsesOf(b[n - 1])]
<1>1. PICK b \in [Nat -> SUBSET Mod] :
          b[0] = {layout.root} /\ \A n \in Nat : b[n + 1] = grow[b[n]]
  <2> DEFINE S == SUBSET Mod
             a == {layout.root}
  <2>1. grow \in [S -> S] /\ a \in S
    BY UsesAre DEF Layout
  <2>2. \E b \in [Nat -> S] : b[0] = a /\ \A n \in Nat : b[n + 1] = grow[b[n]]
    <3> HIDE DEF grow, S, a
    <3>1. QED
      BY ONLY <2>1, Iterates
  <2>3. QED
    BY <2>2
<1>2. Eqn(b)
  <2>1. ASSUME NEW n \in Nat, n # 0
        PROVE  b[n] = b[n - 1] \cup UsesOf(b[n - 1])
    <3>1. n - 1 \in Nat /\ n - 1 + 1 = n
      BY <2>1
    <3>2. QED
      BY <1>1, <3>1
  <2>2. QED
    BY <1>1, <2>1
<1>3. ReachableIn = CHOOSE c : Eqn(c)
  BY DEF ReachableIn, UsesOf
<1>4. Eqn(ReachableIn)
  BY <1>2, <1>3
<1>5. DOMAIN ReachableIn = Nat /\ ReachableIn[0] = {layout.root}
      /\ \A n \in Nat : ReachableIn[n + 1] = ReachableIn[n] \cup UsesOf(ReachableIn[n])
  <2>1. DOMAIN ReachableIn = Nat
        /\ \A n \in Nat : ReachableIn[n] = IF n = 0 THEN {layout.root}
                             ELSE ReachableIn[n - 1] \cup UsesOf(ReachableIn[n - 1])
    BY <1>4
  <2>2. ASSUME NEW n \in Nat
        PROVE  ReachableIn[n + 1] = ReachableIn[n] \cup UsesOf(ReachableIn[n])
    <3>1. n + 1 \in Nat /\ n + 1 # 0 /\ n + 1 - 1 = n
      OBVIOUS
    <3>2. QED
      BY <2>1, <3>1
  <2>3. QED
    BY <2>1, <2>2
<1>6. ReachableIn = b
  <2> DEFINE Bad == {n \in Nat : ReachableIn[n] # b[n]}
  <2>1. Bad = {}
    <3> SUFFICES ASSUME Bad # {} PROVE FALSE
      OBVIOUS
    <3>1. PICK n \in Bad : \A m \in Bad : n <= m
      <4>1. Bad \subseteq Nat
        OBVIOUS
      <4> HIDE DEF Bad
      <4>2. QED
        BY <4>1, SmallestElement
    <3>2. n # 0
      BY <1>1, <1>5
    <3>3. n - 1 \in Nat /\ n - 1 + 1 = n
      BY <3>2
    <3>4. ReachableIn[n - 1] = b[n - 1]
      BY <3>1, <3>3
    <3>5. b[n] = b[n - 1] \cup UsesOf(b[n - 1])
      BY <1>1, <3>3
    <3>6. ReachableIn[n] = ReachableIn[n - 1] \cup UsesOf(ReachableIn[n - 1])
      BY <1>5, <3>3
    <3>7. QED
      BY <3>4, <3>5, <3>6
  <2>2. \A n \in Nat : ReachableIn[n] = b[n]
    BY <2>1
  <2>3. ReachableIn = [n \in Nat |-> ReachableIn[n]]
    BY <1>4
  <2>4. QED
    BY <1>1, <2>2, <2>3
<1>7. QED
  BY <1>1, <1>5, <1>6

\* With the root, and with what its modules use.
UseClosed(X) ==
    /\ layout.root \in X
    /\ \A m \in X : \A e \in 1 .. Len(layout.items[m]) :
          layout.items[m][e].kind = "use" => layout.items[m][e].ref \in X

\* Cardinality(Mod) steps reach every module: the set reached is closed, and it
\* is within every closed one.
LEMMA Reached ==
    ASSUME layout \in Layout
    PROVE  /\ ReachableIn[Cardinality(Mod)] \subseteq Mod
           /\ UseClosed(ReachableIn[Cardinality(Mod)])
           /\ \A X \in SUBSET Mod : UseClosed(X) => ReachableIn[Cardinality(Mod)] \subseteq X
<1> DEFINE N == Cardinality(Mod)
<1>1. N \in Nat
  BY PlaceAssumption, FS_CardinalityType
<1>2. ReachableIn[N + 1] = ReachableIn[N]
  <2> DEFINE grow == [X \in SUBSET Mod |-> X \cup UsesOf(X)]
  <2>1. grow \in [SUBSET Mod -> SUBSET Mod]
    BY UsesAre
  <2>2. \A n \in Nat : ReachableIn[n + 1] = grow[ReachableIn[n]]
                       /\ ReachableIn[n] \subseteq ReachableIn[n + 1]
    BY ReachDef
  <2>3. ReachableIn \in [Nat -> SUBSET Mod]
    BY ReachDef
  <2> HIDE DEF grow
  <2>4. QED
    BY <2>1, <2>2, <2>3, ChainRests, PlaceAssumption
<1>3. ReachableIn[N] \in SUBSET Mod /\ UsesOf(ReachableIn[N]) \subseteq ReachableIn[N]
  BY <1>1, <1>2, ReachDef
<1>4. layout.root \in ReachableIn[N]
  <2> DEFINE Bad == {n \in Nat : layout.root \notin ReachableIn[n]}
  <2>1. Bad = {}
    <3> SUFFICES ASSUME Bad # {} PROVE FALSE
      OBVIOUS
    <3>1. PICK n \in Bad : \A m \in Bad : n <= m
      <4>1. Bad \subseteq Nat
        OBVIOUS
      <4> HIDE DEF Bad
      <4>2. QED
        BY <4>1, SmallestElement
    <3>2. n # 0
      BY ReachDef
    <3>3. n - 1 \in Nat /\ n - 1 + 1 = n
      BY <3>2
    <3>4. layout.root \in ReachableIn[n - 1]
      BY <3>1, <3>3
    <3>5. QED
      BY <3>3, <3>4, ReachDef
  <2>2. QED
    BY <1>1, <2>1
<1>5. UseClosed(ReachableIn[N])
  BY <1>3, <1>4, UsesAre DEF UseClosed
<1>6. ASSUME NEW X \in SUBSET Mod, UseClosed(X)
      PROVE  ReachableIn[N] \subseteq X
  <2> DEFINE Bad == {n \in Nat : ~(ReachableIn[n] \subseteq X)}
  <2>1. Bad = {}
    <3> SUFFICES ASSUME Bad # {} PROVE FALSE
      OBVIOUS
    <3>1. PICK n \in Bad : \A m \in Bad : n <= m
      <4>1. Bad \subseteq Nat
        OBVIOUS
      <4> HIDE DEF Bad
      <4>2. QED
        BY <4>1, SmallestElement
    <3>2. n # 0
      BY <1>6, ReachDef DEF UseClosed
    <3>3. n - 1 \in Nat /\ n - 1 + 1 = n
      BY <3>2
    <3>4. ReachableIn[n - 1] \subseteq X /\ ReachableIn[n - 1] \in SUBSET Mod
      BY <3>1, <3>3, ReachDef
    <3>5. UsesOf(ReachableIn[n - 1]) \subseteq X
      BY <1>6, <3>4, UsesAre DEF UseClosed
    <3>6. ReachableIn[n] = ReachableIn[n - 1] \cup UsesOf(ReachableIn[n - 1])
      BY <3>3, ReachDef
    <3>7. QED
      BY <3>4, <3>5, <3>6
  <2>2. QED
    BY <1>1, <2>1
<1>7. QED
  BY <1>3, <1>5, <1>6

\* The walks have entered modules that are reached only, and every module of a
\* .use that is past.
UsesInv ==
    /\ layout.root \in seen
    /\ \A X \in SUBSET Mod : UseClosed(X) => seen \subseteq X
    /\ \A m \in Mod : \A e \in 1 .. Len(layout.items[m]) :
          Past(m, e) /\ layout.items[m][e].kind = "use" => layout.items[m][e].ref \in seen

\* A .use comes to be past only when its module has been entered.
LEMMA UsePast ==
    ASSUME Types, WalkInv, CallsInv, PlaceNext, NEW m \in Mod,
           NEW e \in 1 .. Len(layout.items[m]), Past(m, e)', layout.items[m][e].kind = "use"
    PROVE  Past(m, e) \/ layout.items[m][e].ref \in seen'
<1>1. /\ Len(walk) \in Nat /\ \A k \in 1 .. Len(walk) : walk[k].ei \in Nat /\ walk[k].mod \in Mod
      /\ e \in Nat
  <2>1. e \in Nat
    BY DEF Types, Layout
  <2>2. QED
    BY <2>1, WalkTypes
<1>2. CASE At(Kinds) /\ Advance /\ UNCHANGED seen
  <2> SUFFICES ASSUME ~Past(m, e) PROVE layout.items[m][e].ref \in seen'
    OBVIOUS
  <2>1. PICK k \in 1 .. Len(walk) : walk[k].mod = m /\ ~(e < walk[k].ei)
    BY <1>2 DEF Past
  <2>2. k \in 1 .. Len(walk') /\ walk'[k].mod = m
        /\ walk'[k].ei = IF k = Len(walk) THEN walk[k].ei + 1 ELSE walk[k].ei
    BY <1>2, <2>1, AdvanceWalk
  <2>3. e < walk'[k].ei
    BY <2>2 DEF Past
  <2>4. k = Len(walk) /\ e = walk[k].ei
    BY <1>1, <2>1, <2>2, <2>3
  <2>5. Top = walk[k] /\ Cur = layout.items[m][e]
    BY <2>1, <2>4 DEF Top, Last, Cur, Items
  <2>6. At({"use"})
    BY <1>2, <2>5 DEF At
  <2>7. ~EndOfUse
    BY <2>6, CurType DEF EndOfUse
  <2>8. Use
    BY <2>6, <2>7 DEF PlaceNext, PlaceStep, EmitStep, PlaceFn, PlaceData, PlaceGlobal, PlaceAt,
       PlaceReturn, EmitFn, EmitData, EmitGlobal, EmitAt, EmitReturn, At
  <2>9. QED
    BY <2>5, <2>8 DEF Use, Enter
<1>3. CASE At({"use"}) /\ Cur.ref \notin seen /\ Enter(Cur.ref)
  <2>1. Cur.ref \in Mod
    BY <1>3, CurSeg
  <2>2. /\ Len(walk') = Len(walk) + 1 /\ \A k \in 1 .. Len(walk) : walk'[k] = walk[k]
        /\ walk'[Len(walk) + 1] = [mod |-> Cur.ref, ei |-> 1, depth |-> Len(seg_stack)]
        /\ seen' = seen \cup {Cur.ref}
    BY <1>3, <2>1, EnterWalk
  <2>3. m # Cur.ref
    BY <1>1, <2>2 DEF Past
  <2>4. QED
    BY <1>1, <2>2, <2>3 DEF Past
<1>4. CASE EndOfUse /\ Return /\ UNCHANGED seen
  <2>1. /\ Len(walk') = Len(walk) - 1 /\ Len(walk) - 1 \in 1 .. Len(walk)
        /\ \A k \in 1 .. Len(walk) - 1 :
              /\ walk'[k].mod = walk[k].mod
              /\ walk'[k].ei = IF k = Len(walk) - 1 THEN walk[k].ei + 1 ELSE walk[k].ei
    BY <1>4, ReturnWalk
  <2> SUFFICES ASSUME NEW k \in 1 .. Len(walk), walk[k].mod = m,
                      layout.items[m][e].ref \notin seen
               PROVE  e < walk[k].ei
    BY <1>4 DEF Past
  <2>2. CASE k = Len(walk)
    <3>1. Top.ei > Len(layout.items[Top.mod]) /\ Len(walk) > 0
      BY ONLY <1>1, <1>4 DEF EndOfUse, Items
    <3>2. Top = walk[k]
      BY <2>2, <3>1, TopType
    <3>3. k \in 1 .. Len(walk) /\ walk[k].mod = m
      OBVIOUS
    <3>4. QED
      BY ONLY <1>1, <3>1, <3>2, <3>3
  <2>3. CASE k < Len(walk)
    <3>1. k \in 1 .. Len(walk') /\ walk'[k].mod = m
      BY <1>1, <2>1, <2>3
    <3>2. e < walk'[k].ei
      BY <3>1 DEF Past
    <3>3. layout.items[walk[k].mod][walk[k].ei].ref \in seen
      <4>1. k \in 1 .. Len(walk) - 1 /\ k + 1 \in 1 .. Len(walk)
        BY <1>1, <2>3
      <4>2. layout.items[walk[k].mod][walk[k].ei].ref = walk[k + 1].mod
        BY <4>1 DEF CallsInv
      <4>3. QED
        BY <4>1, <4>2 DEF WalkInv
    <3>4. e # walk[k].ei
      BY <3>3
    <3>5. PICK x \in Nat : x = walk[k].ei
      BY <1>1
    <3>6. walk'[k].ei = IF k = Len(walk) - 1 THEN x + 1 ELSE x
      BY <2>1, <2>3, <3>5
    <3>7. e \in Nat
      BY <1>1
    <3>8. e < x
      BY ONLY <3>2, <3>4, <3>5, <3>6, <3>7
    <3>9. QED
      BY <3>5, <3>8
  <2>4. QED
    BY <1>1, <2>2, <2>3
<1>5. QED
  BY <1>2, <1>3, <1>4, Moving

\* At the end of a walk every entry of the modules entered is past.
LEMMA AllPast ==
    ASSUME Types, WalkInv, EndOfWalk
    PROVE  \A m \in seen : \A e \in 1 .. Len(layout.items[m]) : Past(m, e)
<1>1. Len(walk) = 1 /\ Top = walk[1] /\ walk[1].ei > Len(layout.items[walk[1].mod])
      /\ walk[1].ei \in Nat /\ walk[1].mod \in Mod
  BY WalkTypes DEF EndOfWalk, Top, Last, Items
<1>2. \A m \in Mod : Len(layout.items[m]) \in Nat
  BY DEF Types, Layout
<1>3. seen \subseteq Mod
  BY DEF Types
<1>4. QED
  BY <1>1, <1>2, <1>3 DEF Past

\* The uses through all of main().
LEMMA UsesNext ==
    ASSUME Types, WalkInv, CallsInv, UsesInv, [BindNext]_mainVars
    PROVE  UsesInv'
<1>0. seen \subseteq Mod
  BY DEF Types
<1>1. CASE Placing
  <2>1. PlaceNext /\ layout' = layout
    BY <1>1, Moving DEF Placing
  <2>2. seen \subseteq seen'
    BY <2>1, Moving DEF Enter
  <2>3. ASSUME NEW X \in SUBSET Mod, UseClosed(X) PROVE seen' \subseteq X
    <3>1. seen \subseteq X
      BY <2>3 DEF UsesInv
    <3>2. CASE At({"use"}) /\ Enter(Cur.ref)
      <4>1. Top.mod \in seen /\ Top.ei \in 1 .. Len(layout.items[Top.mod])
        BY <3>2, CurType DEF WalkInv, Items
      <4>2. Cur = layout.items[Top.mod][Top.ei] /\ Cur.kind = "use"
        BY <3>2 DEF Cur, Items, At
      <4>3. Cur.ref \in X
        BY <2>3, <3>1, <4>1, <4>2 DEF UseClosed
      <4>4. QED
        BY <3>1, <3>2, <4>3 DEF Enter
    <3>3. CASE UNCHANGED seen
      BY <3>1, <3>3
    <3>4. QED
      BY <2>1, <3>2, <3>3, Moving
  <2>4. ASSUME NEW m \in Mod, NEW e \in 1 .. Len(layout.items[m]), Past(m, e)',
               layout.items[m][e].kind = "use"
        PROVE  layout.items[m][e].ref \in seen'
    BY <2>1, <2>2, <2>4, UsePast DEF UsesInv
  <2>5. \A X : UseClosed(X)' <=> UseClosed(X)
    BY <2>1 DEF UseClosed
  <2>6. QED
    BY <2>1, <2>2, <2>3, <2>4, <2>5 DEF UsesInv
<1>2. CASE EndOfWalk /\ walk' = << >> /\ UNCHANGED <<layout, seen>>
  <2>1. ASSUME NEW m \in Mod, NEW e \in 1 .. Len(layout.items[m]), Past(m, e)',
               layout.items[m][e].kind = "use"
        PROVE  layout.items[m][e].ref \in seen
    <3>1. m \in seen
      BY <1>2, <2>1 DEF Past
    <3>2. QED
      BY <1>2, <2>1, <3>1, AllPast DEF UsesInv
  <2>2. \A X : UseClosed(X)' <=> UseClosed(X)
    BY <1>2 DEF UseClosed
  <2>3. QED
    BY <1>2, <2>1, <2>2 DEF UsesInv
<1>3. CASE BeginEmission
  <2>1. /\ walk' = <<[mod |-> layout.root, ei |-> 1, depth |-> 0]>>
        /\ seen' = {layout.root} /\ layout' = layout
    BY <1>3 DEF BeginEmission, Begin
  <2>2. Len(walk') = 1 /\ walk'[1].mod = layout.root /\ walk'[1].ei = 1
    BY <2>1
  <2>3. ASSUME NEW m \in Mod, NEW e \in 1 .. Len(layout.items[m]) PROVE ~Past(m, e)'
    <3>1. e \in Nat /\ ~(e < 1)
      BY DEF Types, Layout
    <3>2. QED
      BY <2>1, <2>2, <3>1 DEF Past
  <2>4. \A X : UseClosed(X)' <=> UseClosed(X)
    BY <2>1 DEF UseClosed
  <2>5. \A X : UseClosed(X) => layout.root \in X
    BY DEF UseClosed
  <2>6. QED
    BY <2>1, <2>3, <2>4, <2>5 DEF UsesInv
<1>4. CASE UNCHANGED <<layout, walk, seen>>
  BY <1>4 DEF UsesInv, UseClosed, Past
<1>5. QED
  BY <1>1, <1>2, <1>3, <1>4
     DEF BindNext, EndPlacement, SortStep, Preferring, AbiFailed, Clobbering, EndEmission,
         Exited, mainVars, placeVars, placing

\* The directives leave the labels alone, and a label is put after the others.
LEMMA LabelsAre ==
    ASSUME NEW a \in Asm
    PROVE  /\ \A s \in AsmSegs : Org(a, s).labels = a.labels /\ [a EXCEPT !.seg = s].labels = a.labels
           /\ \A n \in Nat : Endorgs(a, n).labels = a.labels
           /\ \A r \in Ref : Label(a, r).labels = Append(a.labels, <<r, a.seg>>)
BY DEF Asm, Org, Endorgs, Label

\* A step of emission writes a label for the object it is at, or none.
LEMMA LabelsStep ==
    ASSUME Types, WalkInv, PlaceNext, stage = "emit"
    PROVE  \/ /\ At(Declares) /\ Cur.ref \in Ref
              /\ \E s \in AsmSegs : asm'.labels = Append(asm.labels, <<Cur.ref, s>>)
           \/ ~At(Declares) /\ asm'.labels = asm.labels
<1>0. asm \in Asm
  BY DEF Types
<1>1. ASSUME NEW b \in Asm, b.labels = asm.labels, At({"fn"}) \/ At({"data"}) \/ At({"glob"}),
             asm' = Label(b, Cur.ref)
      PROVE  /\ At(Declares) /\ Cur.ref \in Ref
             /\ \E s \in AsmSegs : asm'.labels = Append(asm.labels, <<Cur.ref, s>>)
  <2>1. At(Declares) /\ Cur.ref \in Ref
    BY <1>1, CurSeg, AtMore DEF Declares
  <2>2. b.seg \in AsmSegs /\ asm'.labels = Append(asm.labels, <<Cur.ref, b.seg>>)
    BY <1>1, <2>1, LabelsAre DEF Asm
  <2>3. QED
    BY <2>1, <2>2
<1>2. CASE EmitFn
  <2>1. At({"fn"}) /\ asm' = Label(IF HasAt THEN Org(asm, Cur.seg) ELSE asm, Cur.ref)
    BY <1>2 DEF EmitFn
  <2>2. (IF HasAt THEN Org(asm, Cur.seg) ELSE asm) \in Asm
        /\ (IF HasAt THEN Org(asm, Cur.seg) ELSE asm).labels = asm.labels
    BY <1>0, <2>1, CurSeg, LabelsAre, AsmTypes
  <2>3. QED
    BY <1>1, <2>1, <2>2
<1>3. CASE EmitGlobal
  <2>1. At({"glob"}) /\ asm' = Label(IF HasAt THEN Org(asm, Cur.seg) ELSE asm, Cur.ref)
    BY <1>3 DEF EmitGlobal
  <2>2. (IF HasAt THEN Org(asm, Cur.seg) ELSE asm) \in Asm
        /\ (IF HasAt THEN Org(asm, Cur.seg) ELSE asm).labels = asm.labels
    BY <1>0, <2>1, CurSeg, LabelsAre, AsmTypes
  <2>3. QED
    BY <1>1, <2>1, <2>2
<1>4. CASE EmitData
  <2>1. At({"data"})
        /\ asm' = Label(IF HasAt THEN Org(asm, Cur.seg)
                        ELSE [asm EXCEPT !.seg = emit_seg[Cur.ref]], Cur.ref)
    BY <1>4 DEF EmitData
  <2>2. Cur.ref \in Ref /\ Cur.seg \in AsmSegs /\ emit_seg[Cur.ref] \in AsmSegs
    BY <2>1, CurSeg DEF Types, Segs, AsmSegs, Declares
  <2> DEFINE b == IF HasAt THEN Org(asm, Cur.seg) ELSE [asm EXCEPT !.seg = emit_seg[Cur.ref]]
  <2>3. b \in Asm /\ b.labels = asm.labels
    BY <1>0, <2>2, LabelsAre, AsmTypes
  <2>4. QED
    BY <1>1, <2>1, <2>3
<1>5. CASE EmitAt
  <2>1. ~At(Declares)
    BY <1>5 DEF EmitAt, At, Declares
  <2>2. At({"at", "endat"})
        /\ asm' = (IF Cur.kind = "at" THEN Org(asm, Cur.seg) ELSE Endorgs(asm, 1))
    BY <1>5 DEF EmitAt
  <2>3. QED
    BY <1>0, <2>1, <2>2, CurSeg, LabelsAre
<1>6. CASE EmitReturn
  <2>1. EndOfUse /\ asm' = IF Len(seg_stack) > Top.depth
                           THEN Endorgs(asm, Len(seg_stack) - Top.depth) ELSE asm
    BY <1>6 DEF EmitReturn
  <2>2. ~At(Declares)
    BY <2>1, CurType DEF EndOfUse
  <2>3. Len(seg_stack) \in Nat /\ Top.depth \in Nat
    BY <2>1, TopType DEF Types, EndOfUse
  <2>4. CASE Len(seg_stack) > Top.depth
    <3>1. Len(seg_stack) - Top.depth \in Nat
      BY <2>3, <2>4
    <3>2. QED
      BY <1>0, <2>1, <2>2, <2>4, <3>1, LabelsAre
  <2>5. QED
    BY <2>1, <2>2, <2>4
<1>7. CASE Use
  BY <1>7 DEF Use, At, Declares
<1>8. QED
  BY <1>2, <1>3, <1>4, <1>5, <1>6, <1>7
     DEF PlaceNext, PlaceStep, EmitStep, PlaceFn, PlaceData, PlaceGlobal, PlaceAt, PlaceReturn

\* The label of r has been written.
Written(r) == \E k \in 1 .. Len(asm.labels) : asm.labels[k][1] = r

\* No label is written twice, and the labels written are those of the entries
\* emission is past.
WrittenInv ==
    /\ \A j, k \in 1 .. Len(asm.labels) : asm.labels[j][1] = asm.labels[k][1] => j = k
    /\ stage \in {"emit", "done"} =>
          \A r : Written(r) <=>
              \E m \in Mod : \E e \in 1 .. Len(layout.items[m]) :
                  /\ layout.items[m][e].kind \in Declares
                  /\ layout.items[m][e].ref = r
                  /\ Past(m, e)

\* A step of emission keeps the labels those of the entries it is past.
LEMMA WrittenStep ==
    ASSUME Types, WalkInv, CallsInv, WrittenInv, PlaceNext, stage = "emit", stage' = "emit"
    PROVE  WrittenInv'
<1>0. layout' = layout /\ \A m \in Mod : Len(layout.items[m]) \in Nat
  BY Moving DEF Types, Layout
<1>1. asm.labels \in Seq(Ref \X AsmSegs) /\ Len(asm.labels) \in Nat
  BY DEF Types, Asm
<1>2. CASE ~At(Declares) /\ asm'.labels = asm.labels
  <2>1. \A m \in Mod : \A e \in 1 .. Len(layout.items[m]) :
            layout.items[m][e].kind \in Declares => (Past(m, e)' <=> Past(m, e))
    BY <1>0, <1>2, PastStays, PastBefore DEF Here
  <2>2. \A r : Written(r)' <=> Written(r)
    BY <1>2 DEF Written
  <2>3. QED
    BY <1>0, <1>2, <2>1, <2>2 DEF WrittenInv
<1>3. CASE At(Declares) /\ Cur.ref \in Ref
           /\ \E s \in AsmSegs : asm'.labels = Append(asm.labels, <<Cur.ref, s>>)
  <2>0. PICK M \in Mod, E \in Nat : M = Top.mod /\ E = Top.ei
    BY <1>3, CurType DEF WalkFrame
  <2>1. E \in 1 .. Len(layout.items[M]) /\ Here(M, E)
    BY <1>3, <2>0, CurType DEF Items, Here
  <2>2. ~Past(M, E) /\ Past(M, E)' /\ Cur = layout.items[M][E] /\ Cur.kind \in Declares
    BY <1>3, <2>1, PastHere DEF At
  <2>3. PICK s \in AsmSegs : asm'.labels = Append(asm.labels, <<Cur.ref, s>>)
    BY <1>3
  <2>4. /\ Len(asm'.labels) = Len(asm.labels) + 1
        /\ \A k \in 1 .. Len(asm.labels) : asm'.labels[k] = asm.labels[k]
        /\ asm'.labels[Len(asm.labels) + 1][1] = Cur.ref
    BY <1>1, <1>3, <2>3
  <2>5. \A r : Written(r)' <=> (Written(r) \/ r = Cur.ref)
    <3>1. /\ Len(asm'.labels) = Len(asm.labels) + 1 /\ Len(asm.labels) + 1 \in 1 .. Len(asm'.labels)
          /\ \A k \in 1 .. Len(asm'.labels) : k \in 1 .. Len(asm.labels) \/ k = Len(asm.labels) + 1
          /\ \A k \in 1 .. Len(asm.labels) : k \in 1 .. Len(asm'.labels)
      BY <1>1, <2>4
    <3>2. QED
      BY <2>4, <3>1 DEF Written
  <2>6. \A m \in Mod : \A e \in 1 .. Len(layout.items[m]) :
            layout.items[m][e].kind \in Declares =>
                (Past(m, e)' <=> Past(m, e) \/ (m = M /\ e = E))
    <3>1. \A m \in Mod : \A e \in 1 .. Len(layout.items[m]) :
              layout.items[m][e].kind \in Declares =>
                (Past(m, e)' => Past(m, e) \/ (m = M /\ e = E))
      BY <1>0, <2>0, PastBefore DEF Here
    <3>2. \A m \in Mod : \A e \in 1 .. Len(layout.items[m]) : Past(m, e) => Past(m, e)'
      BY <1>0, PastStays
    <3>3. QED
      BY <2>2, <3>1, <3>2
  <2>7. ~Written(Cur.ref)
    <3> SUFFICES ASSUME Written(Cur.ref) PROVE FALSE
      OBVIOUS
    <3>1. PICK m \in Mod :
              \E e \in 1 .. Len(layout.items[m]) :
                  /\ layout.items[m][e].kind \in Declares
                  /\ layout.items[m][e].ref = Cur.ref /\ Past(m, e)
      BY DEF WrittenInv
    <3>2. PICK e \in 1 .. Len(layout.items[m]) :
              /\ layout.items[m][e].kind \in Declares
              /\ layout.items[m][e].ref = Cur.ref /\ Past(m, e)
      BY <3>1
    <3>3. m = M /\ e = E
      BY <2>1, <2>2, <3>2, OneEntry
    <3>4. QED
      BY <2>2, <3>2, <3>3
  <2>8. \A j, k \in 1 .. Len(asm'.labels) : asm'.labels[j][1] = asm'.labels[k][1] => j = k
    <3> SUFFICES ASSUME NEW j \in 1 .. Len(asm.labels) + 1, NEW k \in 1 .. Len(asm.labels) + 1,
                        asm'.labels[j][1] = asm'.labels[k][1]
                 PROVE  j = k
      BY <2>4
    <3>1. \A l \in 1 .. Len(asm.labels) : asm'.labels[l][1] # Cur.ref
      BY <2>4, <2>7 DEF Written
    <3>2. \A l \in 1 .. Len(asm.labels) + 1 : l \in 1 .. Len(asm.labels) \/ l = Len(asm.labels) + 1
      BY <1>1
    <3>3. CASE j \in 1 .. Len(asm.labels) /\ k \in 1 .. Len(asm.labels)
      BY <2>4, <3>3 DEF WrittenInv
    <3>4. CASE ~(j \in 1 .. Len(asm.labels) /\ k \in 1 .. Len(asm.labels))
      BY <2>4, <3>1, <3>2, <3>4
    <3>5. QED
      BY <3>3, <3>4
  <2>9. \A r : Written(r)' <=>
            \E m \in Mod : \E e \in 1 .. Len(layout.items[m]) :
                layout.items[m][e].kind \in Declares /\ layout.items[m][e].ref = r /\ Past(m, e)'
    BY <2>1, <2>2, <2>5, <2>6 DEF WrittenInv
  <2>10. QED
    BY <1>0, <2>8, <2>9 DEF WrittenInv
<1>4. QED
  BY <1>2, <1>3, LabelsStep

\* What has been written, through all of main().
LEMMA WrittenNext ==
    ASSUME EmissionInv, WrittenInv, [BindNext]_mainVars
    PROVE  WrittenInv'
<1>0. Types /\ WalkInv /\ CallsInv /\ BlocksInv
  BY DEF EmissionInv
<1>1. CASE Placing /\ stage = "emit"
  <2>1. PlaceNext /\ stage' = "emit"
    BY <1>0, <1>1, EmissionKnows DEF Placing, EmissionInv
  <2>2. QED
    BY <1>0, <1>1, <2>1, WrittenStep
<1>2. CASE Placing /\ stage # "emit"
  <2>1. asm' = asm /\ stage' = stage /\ stage = "place"
    BY <1>2 DEF Placing, PlaceNext, PlaceStep, EmitStep, PlaceFn, PlaceData, PlaceGlobal, PlaceAt,
       PlaceReturn, EmitFn, EmitData, EmitGlobal, EmitAt, EmitReturn, Use, EmissionInv, PathInv, At
  <2>2. QED
    BY <2>1 DEF WrittenInv
<1>3. CASE BeginEmission
  <2>1. /\ walk' = <<[mod |-> layout.root, ei |-> 1, depth |-> 0]>>
        /\ asm' = asm /\ layout' = layout /\ asm.labels = << >>
    BY <1>0, <1>3 DEF BeginEmission, Begin, BlocksInv
  <2>2. seen' = {layout.root} /\ Len(walk') = 1 /\ walk'[1].mod = layout.root /\ walk'[1].ei = 1
    BY <1>3, <2>1 DEF BeginEmission, Begin
  <2>3. ASSUME NEW m \in Mod, NEW e \in 1 .. Len(layout.items[m]) PROVE ~Past(m, e)'
    <3>1. e \in Nat /\ ~(e < 1)
      BY <1>0 DEF Types, Layout
    <3>2. QED
      BY <2>2, <3>1 DEF Past
  <2>4. \A r : ~Written(r)'
    BY <2>1 DEF Written
  <2>5. QED
    BY <2>1, <2>3, <2>4 DEF WrittenInv
<1>4. CASE EndEmission
  <2>1. EndOfWalk /\ stage = "emit" /\ walk' = << >> /\ UNCHANGED <<layout, seen, asm>>
    BY <1>4 DEF EndEmission
  <2>2. \A m \in Mod : \A e \in 1 .. Len(layout.items[m]) : Past(m, e)' <=> Past(m, e)
    BY <1>0, <2>1, AllPast DEF Past
  <2>3. QED
    BY <2>1, <2>2 DEF WrittenInv, Written
<1>5. CASE stage' \notin {"emit", "done"} /\ asm' = asm
  BY <1>5 DEF WrittenInv
<1>6. CASE UNCHANGED placeVars
  BY <1>6 DEF WrittenInv, Written, Past, placeVars, placing
<1>7. QED
  BY <1>1, <1>2, <1>3, <1>4, <1>5, <1>6
     DEF BindNext, EndPlacement, SortStep, Preferring, AbiFailed, Clobbering, Exited, mainVars

\* What the uses and the labels start from.
LEMMA WrittenInit ==
    ASSUME BindInit
    PROVE  UsesInv /\ WrittenInv
<1>0. Types /\ seen = {layout.root} /\ asm.labels = << >> /\ stage = "place"
      /\ walk = <<[mod |-> layout.root, ei |-> 1, depth |-> 0]>>
  BY PlacedInit DEF BindInit, PlaceInit
<1>1. Len(walk) = 1 /\ walk[1].mod = layout.root /\ walk[1].ei = 1
  BY <1>0
<1>2. ASSUME NEW m \in Mod, NEW e \in 1 .. Len(layout.items[m]) PROVE ~Past(m, e)
  <2>1. e \in Nat /\ ~(e < 1)
    BY <1>0 DEF Types, Layout
  <2>2. QED
    BY <1>0, <1>1, <2>1 DEF Past
<1>3. \A X : UseClosed(X) => layout.root \in X
  BY DEF UseClosed
<1>4. QED
  BY <1>0, <1>2, <1>3 DEF UsesInv, WrittenInv

\* No object is written twice, and a build that is done has written exactly the
\* objects of the modules its root reaches: emit_module() expands each of them once,
\* whatever cycles the uses make.
THEOREM WrittenOnceCorrect == BindSpec => []WrittenOnce
<1>1. BindInit => EmissionInv /\ UsesInv /\ WrittenInv
  BY EmissionInit, WrittenInit
<1>2. EmissionInv /\ UsesInv /\ WrittenInv /\ [BindNext]_mainVars
      => (EmissionInv /\ UsesInv /\ WrittenInv)'
  BY EmissionNext, UsesNext, WrittenNext DEF EmissionInv
<1>3. EmissionInv /\ UsesInv /\ WrittenInv => WrittenOnce
  <2> SUFFICES ASSUME EmissionInv, UsesInv, WrittenInv PROVE WrittenOnce
    OBVIOUS
  <2>0. Types /\ PathInv /\ layout \in Layout /\ DOMAIN asm.labels = 1 .. Len(asm.labels)
    BY DEF EmissionInv, Types, Asm
  <2>1. \A j, k \in DOMAIN asm.labels : asm.labels[j][1] = asm.labels[k][1] => j = k
    BY <2>0 DEF WrittenInv
  <2>2. ASSUME stage = "done"
        PROVE  {asm.labels[k][1] : k \in DOMAIN asm.labels} = Declared
    <3> DEFINE R == ReachableIn[Cardinality(Mod)]
    <3>1. R \in SUBSET Mod /\ UseClosed(R) /\ \A X \in SUBSET Mod : UseClosed(X) => R \subseteq X
      BY <2>0, Reached
    <3>2. walk = << >> /\ seen \in SUBSET Mod /\ \A m \in Mod : layout.items[m] \in Seq(Item)
      BY <2>0, <2>2 DEF PathInv, Types, Layout
    <3>3. \A m \in Mod : \A e : Past(m, e) <=> m \in seen
      BY <3>2 DEF Past
    <3>4. UseClosed(seen)
      BY <3>2, <3>3 DEF UsesInv, UseClosed
    <3>5. seen = R
      BY <3>1, <3>2, <3>4 DEF UsesInv
    <3>6. \A r : Written(r) <=>
              \E m \in R : \E e \in 1 .. Len(layout.items[m]) :
                  layout.items[m][e].kind \in Declares /\ layout.items[m][e].ref = r
      BY <2>2, <3>1, <3>3, <3>5 DEF WrittenInv
    <3>7. \A m \in R : \A x : x \in ToSet(layout.items[m]) <=>
              \E e \in 1 .. Len(layout.items[m]) : x = layout.items[m][e]
      BY <3>1, <3>2 DEF ToSet
    <3>8. \A r : r \in Declared <=>
              \E m \in R : \E x \in ToSet(layout.items[m]) : x.kind \in Declares /\ r = x.ref
      BY DEF Declared
    <3> HIDE DEF R
    <3>9. \A r : r \in Declared <=> Written(r)
      <4>1. ASSUME NEW r, Written(r) PROVE r \in Declared
        BY <3>6, <3>7, <3>8, <4>1
      <4>2. ASSUME NEW r, r \in Declared PROVE Written(r)
        <5>1. PICK m \in R : \E x \in ToSet(layout.items[m]) : x.kind \in Declares /\ r = x.ref
          BY <3>8, <4>2
        <5>2. PICK x \in ToSet(layout.items[m]) : x.kind \in Declares /\ r = x.ref
          BY <5>1
        <5>3. PICK e \in 1 .. Len(layout.items[m]) : x = layout.items[m][e]
          BY <3>7
        <5>4. QED
          BY <3>6, <5>2, <5>3
      <4>3. QED
        BY <4>1, <4>2
    <3>10. QED
      BY <2>0, <3>9 DEF Written
  <2>3. QED
    BY <2>1, <2>2 DEF WrittenOnce
<1>4. QED
  BY <1>1, <1>2, <1>3, PTL DEF BindSpec

-----------------------------------------------------------------------------
(* Loops. *)

\* What is so before a loop, and kept by each of its steps, is so after it.  T[k]
\* are the values of which it is so after the step k.
LEMMA IteratedAt ==
    ASSUME NEW n \in Nat, NEW T, NEW nxt, NEW a, a \in T[0],
           \A k \in 1 .. n : \A x \in T[k - 1] : nxt[<<k, x>>] \in T[k]
    PROVE  Iterated(nxt, a, n) \in T[n]
<1> DEFINE Eqn(g) == g = [k \in 0 .. n |-> IF k = 0 THEN a ELSE nxt[<<k, g[k - 1]>>]]
<1>1. \E g : Eqn(g)
  <2>1. PICK S : S = UNION {T[k] : k \in 0 .. n}
    OBVIOUS
  <2>2. \A k \in 0 .. n : T[k] \subseteq S
    BY <2>1
  <2>3. PICK nx : nx = [y \in Nat \X S |-> IF y[1] \in 1 .. n /\ y[2] \in T[y[1] - 1]
                                           THEN nxt[y] ELSE a]
    OBVIOUS
  <2>4. \A k \in Nat, x \in S :
           nx[<<k, x>>] = IF k \in 1 .. n /\ x \in T[k - 1] THEN nxt[<<k, x>>] ELSE a
    BY <2>3
  <2>5. 0 \in 0 .. n /\ a \in S
    BY <2>2
  <2>6. \A k \in Nat, x \in S : nx[<<k, x>>] \in S
    <3>1. SUFFICES ASSUME NEW k \in Nat, NEW x \in S PROVE nx[<<k, x>>] \in S
      OBVIOUS
    <3>2. CASE k \in 1 .. n /\ x \in T[k - 1]
      <4>1. nxt[<<k, x>>] \in T[k] /\ k \in 0 .. n
        BY <3>2
      <4>2. QED
        BY <2>2, <2>4, <3>2, <4>1
    <3>3. QED
      BY <2>4, <2>5, <3>2
  <2>7. PICK h : Iteration(h, S, a, nx)
    BY ONLY <2>5, <2>6, StepsIterate
  <2>8. /\ h[0] = a
        /\ \A k \in Nat : h[k] \in S /\ h[k + 1] = nx[<<k + 1, h[k]>>]
    BY <2>7 DEF Iteration
  <2>9. \A k \in 0 .. n : h[k] \in T[k]
    <3> DEFINE Bad == {k \in 0 .. n : h[k] \notin T[k]}
    <3>1. SUFFICES ASSUME Bad # {} PROVE FALSE
      OBVIOUS
    <3>2. PICK k \in Bad : \A m \in Bad : k <= m
      <4>1. Bad \subseteq Nat
        OBVIOUS
      <4>2. QED
        BY ONLY <3>1, <4>1, SmallestElement
    <3>3. PICK m \in 0 .. n : k = m + 1 /\ m = k - 1
      <4>1. k - 1 \in 0 .. n /\ k = k - 1 + 1
        BY <2>8, <3>2
      <4>2. QED
        BY <4>1
    <3>4. h[m] \in T[m] /\ h[m] \in S /\ m \in Nat /\ k \in Nat /\ k \in 1 .. n
      <4>1. m \in Nat /\ k \in Nat /\ k \in 1 .. n /\ ~(k <= m)
        BY <3>3
      <4>2. m \notin Bad
        BY <3>2, <4>1
      <4>3. QED
        BY <2>8, <4>1, <4>2
    <3>5. h[k] = nxt[<<k, h[m]>>]
      BY <2>4, <2>8, <3>3, <3>4
    <3>6. QED
      BY <3>2, <3>3, <3>4, <3>5
  <2>10. PICK g : g = [k \in 0 .. n |-> h[k]]
    OBVIOUS
  <2>11. \A k \in 0 .. n : g[k] = IF k = 0 THEN a ELSE nxt[<<k, g[k - 1]>>]
    <3>1. SUFFICES ASSUME NEW k \in 0 .. n, k # 0 PROVE g[k] = nxt[<<k, g[k - 1]>>]
      BY <2>8, <2>10
    <3>2. PICK m \in 0 .. n : k = m + 1 /\ m = k - 1 /\ m \in Nat /\ k \in 1 .. n /\ k \in Nat
      <4>1. k - 1 \in 0 .. n /\ k = k - 1 + 1 /\ k - 1 \in Nat /\ k \in 1 .. n /\ k \in Nat
        BY <3>1
      <4>2. QED
        BY <4>1
    <3>3. h[k] = nx[<<k, h[m]>>] /\ h[m] \in S /\ h[m] \in T[m]
      BY <2>8, <2>9, <3>2
    <3>4. h[k] = nxt[<<k, h[m]>>]
      BY <2>4, <3>2, <3>3
    <3>5. QED
      BY <2>10, <3>2, <3>4
  <2>12. Eqn(g)
    BY <2>10, <2>11
  <2>13. QED
    BY <2>12
<1>2. PICK g : Eqn(g) /\ Iterated(nxt, a, n) = g[n]
  <2>1. Iterated(nxt, a, n) = (CHOOSE g : Eqn(g))[n]
    BY DEF Iterated
  <2>2. QED
    BY <1>1, <2>1
<1>3. \A k \in 0 .. n : g[k] = IF k = 0 THEN a ELSE nxt[<<k, g[k - 1]>>]
  BY <1>2
<1> DEFINE Bad == {k \in 0 .. n : g[k] \notin T[k]}
<1>4. Bad = {}
  <2>1. SUFFICES ASSUME Bad # {} PROVE FALSE
    OBVIOUS
  <2>2. PICK k \in Bad : \A m \in Bad : k <= m
    <3>1. Bad \subseteq Nat
      OBVIOUS
    <3>2. QED
      BY ONLY <2>1, <3>1, SmallestElement
  <2>3. k # 0
    BY <1>3, <2>2
  <2>4. k - 1 \in 0 .. n /\ k \in 1 .. n /\ k - 1 < k
    BY <2>2, <2>3
  <2>5. g[k - 1] \in T[k - 1]
    BY <2>2, <2>4
  <2>6. g[k] = nxt[<<k, g[k - 1]>>]
    BY <1>3, <2>3, <2>4
  <2>7. QED
    BY <2>2, <2>4, <2>5, <2>6
<1>5. n \in 0 .. n /\ n \notin Bad
  BY <1>4
<1>6. QED
  BY <1>2, <1>5

\* The same when what is kept is the same all along.
LEMMA IteratedIn ==
    ASSUME NEW n \in Nat, NEW T, NEW nxt, NEW a \in T,
           \A k \in 1 .. n : \A x \in T : nxt[<<k, x>>] \in T
    PROVE  Iterated(nxt, a, n) \in T
<1>1. PICK U : U = [k \in 0 .. n |-> T]
  OBVIOUS
<1>2. \A k \in 0 .. n : U[k] = T
  BY <1>1
<1>3. a \in U[0] /\ \A k \in 1 .. n : \A x \in U[k - 1] : nxt[<<k, x>>] \in U[k]
  <2>1. 0 \in 0 .. n /\ \A k \in 1 .. n : k \in 0 .. n /\ k - 1 \in 0 .. n
    OBVIOUS
  <2>2. QED
    BY <1>2, <2>1
<1>4. Iterated(nxt, a, n) \in U[n]
  BY ONLY <1>3, IteratedAt, n \in Nat
<1>5. QED
  BY <1>2, <1>4

-----------------------------------------------------------------------------
(* Type correctness of the parameter registers. *)

Choice == Preg \cup {NONE}

PreferInv ==
    /\ abi \in AbiType /\ ti \in 1 .. NF + 1
    /\ step \in {"externs", "honour", "moves", "free", "tell", "resolved"}
    /\ prefer \in [Fn -> Wishes] /\ is_seg \in [Fn -> SUBSET Vreg]
    /\ DOMAIN param_regs = Fn /\ DOMAIN favoured = Fn
    /\ \A f \in Fn : param_regs[f] \in Grants(f) /\ favoured[f] \subseteq Params(f)
    /\ needs_frame \subseteq Fn /\ abi_errors \in Nat
    /\ step \in {"moves", "free", "tell"} =>
          pc = "rest" /\ i = NF + 1 /\ ti <= Len(topo_order)
    /\ pc \in {"clobbers", "done"} => step = "resolved"

\* Output is written when everything is decided.
StageInv == stage \in {"emit", "done"} => pc = "done"

\* What the functions declare, field by field.
LEMMA AbiFields ==
    ASSUME abi \in AbiType
    PROVE  /\ abi.params \in [Fn -> Seq(Param)] /\ abi.pins \in [Fn -> Wishes]
           /\ abi.movs \in [Fn -> Seq(Vreg \X Vreg)] /\ abi.segs \in [Fn -> SUBSET Vreg]
           /\ abi.edges \in Seq(Edge) /\ abi.rets \in [Fn \cup Ext -> Seq(Choice)]
           /\ abi.takes \in [Ext -> Seq(Choice)]
BY DEF AbiType, Choice, Wishes

\* The parameters of a function are numbered, and their registers a sequence.
LEMMA ParamFields ==
    ASSUME abi \in AbiType, NEW f \in Fn
    PROVE  /\ abi.params[f] \in Seq(Param) /\ Len(abi.params[f]) \in Nat
           /\ Params(f) = 1 .. Len(abi.params[f])
           /\ \A p \in Params(f) : abi.params[f][p].v \in Vreg
           /\ Grants(f) \subseteq Seq(Choice)
           /\ InRegister(f) \subseteq Params(f)
<1>1. abi.params[f] \in Seq(Param)
  BY AbiFields
<1>2. Params(f) = 1 .. Len(abi.params[f]) /\ Len(abi.params[f]) \in Nat
  BY <1>1 DEF Params
<1>3. \A p \in Params(f) : abi.params[f][p].v \in Vreg
  <2>1. \A p \in Params(f) : abi.params[f][p] \in Param
    BY <1>1, <1>2
  <2>2. \A x \in Param : x.v \in Vreg
    BY DEF Param
  <2>3. QED
    BY <2>1, <2>2
<1>4. Grants(f) = [1 .. Len(abi.params[f]) -> Choice]
  BY <1>2 DEF Grants, Choice, Params
<1>5. Grants(f) \subseteq Seq(Choice)
  BY <1>2, <1>4
<1>6. QED
  BY <1>1, <1>2, <1>3, <1>5 DEF InRegister

\* What an edge hands over are registers, or nothing.
LEMMA HandedType ==
    ASSUME NEW e \in Edge, NEW takes \in Seq(Choice), NEW gives \in Seq(Choice),
           NEW ws, ws = Handed(e, takes, gives)
    PROVE  Len(ws) \in Nat /\ \A k \in 1 .. Len(ws) : ws[k][2] \in Choice
<1> DEFINE Z == (Vreg \cup {0}) \X Choice
           u == [k \in 1 .. Len(takes) |-> IF k <= Len(e.args) THEN <<e.args[k], takes[k]>>
                                           ELSE <<0, NONE>>]
           v == [k \in 1 .. Len(gives) |-> IF k <= Len(e.rets) THEN <<e.rets[k], gives[k]>>
                                           ELSE <<0, NONE>>]
<1>1. e.args \in Seq(Vreg) /\ e.rets \in Seq(Vreg) /\ NONE \in Choice
  BY DEF Edge, Choice
<1>2. ASSUME NEW k \in 1 .. Len(takes) PROVE u[k] \in Z
  <2>1. takes[k] \in Choice /\ (k <= Len(e.args) => e.args[k] \in Vreg)
    BY <1>1
  <2>2. QED
    BY <1>1, <2>1
<1>3. ASSUME NEW k \in 1 .. Len(gives) PROVE v[k] \in Z
  <2>1. gives[k] \in Choice /\ (k <= Len(e.rets) => e.rets[k] \in Vreg)
    BY <1>1
  <2>2. QED
    BY <1>1, <2>1
<1>4. u \in Seq(Z) /\ v \in Seq(Z)
  BY <1>2, <1>3
<1>5. ws = u \o v
  BY DEF Handed
<1> HIDE DEF u, v
<1>6. ws \in Seq(Z)
  BY <1>4, <1>5
<1>7. QED
  BY <1>6

\* A wish is granted out of the registers.
LEMMA TellType ==
    ASSUME NEW e \in Edge, NEW takes \in Seq(Choice), NEW gives \in Seq(Choice),
           NEW all \in [Fn -> Wishes]
    PROVE  Tell(all, e, takes, gives) \in [Fn -> Wishes]
<1>1. PICK ws : ws = Handed(e, takes, gives)
  OBVIOUS
<1>2. PICK nxt : nxt = [y \in (1 .. Len(ws)) \X Wishes |-> Wish(y[2], ws[y[1]])]
  OBVIOUS
<1>3. e.caller \in Fn
  BY DEF Edge
<1>4. Tell(all, e, takes, gives)
      = [all EXCEPT ![e.caller] = Iterated(nxt, all[e.caller], Len(ws))]
  BY <1>1, <1>2, <1>3 DEF Tell, Loop
<1>5. Len(ws) \in Nat /\ \A k \in 1 .. Len(ws) : ws[k][2] \in Choice
  BY <1>1, HandedType
<1>6. \A k \in 1 .. Len(ws) : \A x \in Wishes : nxt[<<k, x>>] \in Wishes
  <2>1. SUFFICES ASSUME NEW k \in 1 .. Len(ws), NEW x \in Wishes PROVE nxt[<<k, x>>] \in Wishes
    OBVIOUS
  <2>2. nxt[<<k, x>>] = Wish(x, ws[k])
    BY <1>2
  <2>3. ws[k][2] \in Choice
    BY <1>5
  <2>4. QED
    BY <2>2, <2>3 DEF Wish, Wishes, Choice
<1>7. all[e.caller] \in Wishes
  BY <1>3
<1>8. Iterated(nxt, all[e.caller], Len(ws)) \in Wishes
  BY ONLY <1>5, <1>6, <1>7, IteratedIn
<1>9. QED
  BY <1>3, <1>4, <1>8

\* So the wishes stay registers when all callers have been told.
LEMMA TellCallersType ==
    ASSUME abi \in AbiType, prefer \in [Fn -> Wishes], NEW callees, NEW takes, NEW gives,
           \A c \in callees : takes[c] \in Seq(Choice) /\ gives[c] \in Seq(Choice),
           TellCallers(callees, takes, gives)
    PROVE  prefer' \in [Fn -> Wishes]
<1> DEFINE All == [Fn -> Wishes]
           told(all, k) == IF abi.edges[k].callee \in callees
                           THEN Tell(all, abi.edges[k], takes[abi.edges[k].callee],
                                     gives[abi.edges[k].callee])
                           ELSE all
<1>1. PICK nxt : nxt = [y \in (1 .. Len(abi.edges)) \X All |-> told(y[2], y[1])]
  OBVIOUS
<1>2. prefer' = Iterated(nxt, prefer, Len(abi.edges))
  BY <1>1 DEF TellCallers, Loop
<1>3. Len(abi.edges) \in Nat /\ \A k \in 1 .. Len(abi.edges) : abi.edges[k] \in Edge
  BY AbiFields
<1>4. \A k \in 1 .. Len(abi.edges) : \A x \in All : nxt[<<k, x>>] \in All
  <2>1. SUFFICES ASSUME NEW k \in 1 .. Len(abi.edges), NEW x \in All PROVE nxt[<<k, x>>] \in All
    OBVIOUS
  <2>2. nxt[<<k, x>>] = told(x, k)
    BY <1>1
  <2>3. abi.edges[k] \in Edge
    BY <1>3
  <2>4. told(x, k) \in All
    BY <2>3, TellType
  <2>5. QED
    BY <2>2, <2>4
<1>5. prefer \in All
  OBVIOUS
<1> HIDE DEF All
<1>6. Iterated(nxt, prefer, Len(abi.edges)) \in All
  BY ONLY <1>3, <1>4, <1>5, IteratedIn
<1>7. QED
  BY <1>2, <1>6 DEF All

-----------------------------------------------------------------------------
(* The parameter registers of one function. *)

\* A register is granted once.
Rows(f) ==
    {regs \in Grants(f) : \A p, q \in Params(f) : p # q /\ regs[p] = regs[q] => regs[p] = NONE}

\* Two parameters that share storage both got what something preferred.
RowApart(f, regs, fav) ==
    \A p, q \in Params(f) :
        p # q /\ pregs_alias(regs[p], regs[q]) => p \in fav /\ q \in fav /\ regs[p] # regs[q]
Settled(f, fav) == {regs \in Grants(f) : RowApart(f, regs, fav)}

\* A register in use counts with its halves.
LEMMA UsedHolds ==
    ASSUME NEW f, NEW regs \in Grants(f), NEW q \in Params(f), regs[q] # NONE
    PROVE  /\ regs[q] \in Used(regs)
           /\ regs[q] \in SplitWords => Halves(regs[q]) \subseteq Used(regs)
<1>1. DOMAIN regs = Params(f)
  BY DEF Grants, Params
<1>2. \A w \in SplitWords : NONE \notin Halves(w)
  BY DEF SplitWords, Halves, preg_alias_lo, preg_alias_hi, NONE
<1>3. \A x : x \in (IF regs[q] \in SplitWords THEN {regs[q]} \cup Halves(regs[q]) ELSE {regs[q]})
                 /\ x # NONE => x \in Used(regs)
  <2> DEFINE part(p) == IF regs[p] \in SplitWords THEN {regs[p]} \cup Halves(regs[p])
                        ELSE {regs[p]}
  <2>1. Used(regs) = (UNION {part(p) : p \in DOMAIN regs}) \ {NONE}
    BY DEF Used
  <2>2. part(q) \in {part(p) : p \in DOMAIN regs}
    BY <1>1
  <2> HIDE DEF part
  <2>3. \A x : x \in part(q) /\ x # NONE => x \in Used(regs)
    BY <2>1, <2>2
  <2>4. QED
    BY <2>3 DEF part
<1>4. QED
  BY <1>2, <1>3

\* The first that asks for a register gets it.
LEMMA GrantKeeps ==
    ASSUME NEW f, NEW regs \in Rows(f), NEW p \in Params(f), NEW r \in Choice
    PROVE  Grant(regs, p, r) \in Rows(f)
<1>1. regs \in [Params(f) -> Choice] /\ Grants(f) = [Params(f) -> Choice]
  BY DEF Rows, Grants, Params, Choice
<1>2. CASE r = NONE \/ r \in Used(regs) \/ regs[p] # NONE
  BY <1>2 DEF Grant
<1>3. CASE ~(r = NONE \/ r \in Used(regs) \/ regs[p] # NONE)
  <2>1. Grant(regs, p, r) = [regs EXCEPT ![p] = r]
    BY <1>3 DEF Grant
  <2>2. Grant(regs, p, r) \in Grants(f)
    BY <1>1, <2>1
  <2>3. \A q \in Params(f) : regs[q] # r
    BY <1>3, UsedHolds DEF Rows
  <2>4. \A q \in Params(f) : Grant(regs, p, r)[q] = IF q = p THEN r ELSE regs[q]
    BY <1>1, <2>1
  <2>5. \A q, s \in Params(f) : q # s /\ regs[q] = regs[s] => regs[q] = NONE
    BY DEF Rows
  <2>6. QED
    BY <2>2, <2>3, <2>4, <2>5 DEF Rows
<1>4. QED
  BY <1>2, <1>3

\* A register once granted stays.
KeptRows(f, row) ==
    {regs \in Grants(f) : \A q \in Params(f) : row[q] # NONE => regs[q] = row[q]}

\* One that prefers r has it, or another has a register that shares storage with r.
Satisfied(f, regs, p, r) ==
    regs[p] = r \/ \E q \in Params(f) : q # p /\ pregs_alias(regs[q], r)

\* A register in use is one that shares storage with a parameter's.
LEMMA UsedIs ==
    ASSUME NEW f, NEW regs \in Grants(f), NEW r \in Used(regs)
    PROVE  \E q \in Params(f) : pregs_alias(regs[q], r)
<1> DEFINE part(p) == IF regs[p] \in SplitWords THEN {regs[p]} \cup Halves(regs[p])
                      ELSE {regs[p]}
<1>1. DOMAIN regs = Params(f)
  BY DEF Grants, Params
<1>2. r \in (UNION {part(p) : p \in DOMAIN regs}) \ {NONE}
  BY DEF Used
<1>3. PICK q \in Params(f) : r \in part(q)
  BY <1>1, <1>2
<1>4. r # NONE
  BY <1>2
<1>5. \A w \in SplitWords : w # NONE
  BY DEF SplitWords, NONE
<1>6. pregs_alias(regs[q], r)
  BY <1>3, <1>4, <1>5 DEF pregs_alias
<1>7. QED
  BY <1>6

\* What a grant changes.
LEMMA GrantIs ==
    ASSUME NEW f, NEW regs \in Grants(f), NEW p \in Params(f), NEW r \in Choice,
           NEW z, z = Grant(regs, p, r)
    PROVE  /\ z \in Grants(f)
           /\ \A q \in Params(f) : q # p => z[q] = regs[q]
           /\ regs[p] # NONE => z[p] = regs[p]
           /\ regs[p] = NONE /\ r # NONE => Satisfied(f, z, p, r)
<1>1. regs \in [Params(f) -> Choice] /\ Grants(f) = [Params(f) -> Choice]
  BY DEF Grants, Params, Choice
<1>2. CASE r = NONE \/ regs[p] # NONE
  BY <1>2 DEF Grant
<1>3. CASE r # NONE /\ regs[p] = NONE /\ r \in Used(regs)
  <2>1. z = regs
    BY <1>3 DEF Grant
  <2>2. PICK q \in Params(f) : pregs_alias(regs[q], r)
    BY <1>3, UsedIs
  <2>3. q # p
    BY <1>3, <2>2 DEF pregs_alias
  <2>4. QED
    BY <1>3, <2>1, <2>2, <2>3 DEF Satisfied
<1>4. CASE r # NONE /\ regs[p] = NONE /\ r \notin Used(regs)
  <2>1. z = [regs EXCEPT ![p] = r]
    BY <1>4 DEF Grant
  <2>2. z \in Grants(f) /\ z[p] = r /\ \A q \in Params(f) : q # p => z[q] = regs[q]
    BY <1>1, <2>1
  <2>3. QED
    BY <1>4, <2>2 DEF Satisfied
<1>5. QED
  BY <1>2, <1>3, <1>4

\* The first free register, if there is one, shares storage with none in use.
LEMMA FirstFreeIs ==
    ASSUME NEW order, NEW n \in Nat, DOMAIN order = 1 .. n, NEW used
    PROVE  \/ FirstFree(order, used) = NONE
           \/ /\ FirstFree(order, used) \in {order[k] : k \in 1 .. n}
              /\ FirstFree(order, used) \notin used
              /\ ~alias_conflict(FirstFree(order, used), used)
<1> DEFINE free == {k \in DOMAIN order :
                       order[k] \notin used /\ ~alias_conflict(order[k], used)}
<1>1. CASE free = {}
  BY <1>1 DEF FirstFree
<1>2. CASE free # {}
  <2>1. free \subseteq Nat
    OBVIOUS
  <2>2. \E k \in free : \A l \in free : k <= l
    BY ONLY <1>2, <2>1, SmallestElement
  <2>3. PICK k \in free : FirstFree(order, used) = order[k]
    BY <1>2, <2>2 DEF FirstFree
  <2>4. QED
    BY <2>3
<1>3. QED
  BY <1>1, <1>2

\* What shares storage with no register in use.
LEMMA FreeIsApart ==
    ASSUME NEW f, NEW regs \in Grants(f), NEW r, r \notin Used(regs),
           ~alias_conflict(r, Used(regs)), NEW q \in Params(f)
    PROVE  ~pregs_alias(r, regs[q]) /\ ~pregs_alias(regs[q], r)
<1>1. SUFFICES ASSUME r # NONE, regs[q] # NONE,
                      \/ r = regs[q]
                      \/ r \in SplitWords /\ regs[q] \in Halves(r)
                      \/ regs[q] \in SplitWords /\ r \in Halves(regs[q])
               PROVE  FALSE
  BY DEF pregs_alias
<1>2. /\ regs[q] \in Used(regs)
      /\ regs[q] \in SplitWords => Halves(regs[q]) \subseteq Used(regs)
  BY <1>1, UsedHolds
<1>3. ~(r \in SplitWords /\ Halves(r) \cap Used(regs) # {})
  BY DEF alias_conflict
<1>4. QED
  BY <1>1, <1>2, <1>3

\* Nothing shares storage with no register.
LEMMA NoneApart ==
    \A r : ~pregs_alias(NONE, r) /\ ~pregs_alias(r, NONE)
BY DEF pregs_alias

\* So a parameter that takes a free register keeps the others apart.
LEMMA TakeKeeps ==
    ASSUME NEW f, NEW fav, NEW regs \in Settled(f, fav), NEW p \in Params(f),
           NEW order \in {word_order, byte_order}, regs[p] = NONE
    PROVE  [regs EXCEPT ![p] = FirstFree(order, Used(regs))] \in Settled(f, fav)
<1>1. regs \in [Params(f) -> Choice] /\ Grants(f) = [Params(f) -> Choice]
  BY DEF Settled, Grants, Params, Choice
<1>2. PICK r : r = FirstFree(order, Used(regs))
  OBVIOUS
<1>3. \E n \in Nat : DOMAIN order = 1 .. n /\ \A k \in 1 .. n : order[k] \in Preg
  <2>1. DOMAIN word_order = 1 .. 7 /\ \A k \in 1 .. 7 : word_order[k] \in Preg
    BY DEF word_order, Preg, WordRegs
  <2>2. DOMAIN byte_order = 1 .. 8 /\ \A k \in 1 .. 8 : byte_order[k] \in Preg
    BY DEF byte_order, Preg, ByteRegs
  <2>3. 7 \in Nat /\ 8 \in Nat
    OBVIOUS
  <2>4. QED
    BY <2>1, <2>2, <2>3
<1>4. r = NONE \/ (r \in Preg /\ r \notin Used(regs) /\ ~alias_conflict(r, Used(regs)))
  BY <1>2, <1>3, FirstFreeIs
<1>5. r \in Choice
  BY <1>4 DEF Choice
<1>6. \A q \in Params(f) : ~pregs_alias(r, regs[q]) /\ ~pregs_alias(regs[q], r)
  BY <1>4, FreeIsApart, NoneApart DEF Settled
<1>7. PICK more : more = [regs EXCEPT ![p] = r]
  OBVIOUS
<1>8. more \in Grants(f) /\ \A q \in Params(f) : more[q] = IF q = p THEN r ELSE regs[q]
  BY <1>1, <1>5, <1>7
<1>9. RowApart(f, regs, fav)
  BY DEF Settled
<1>10. RowApart(f, more, fav)
  BY <1>6, <1>8, <1>9 DEF RowApart
<1>11. QED
  BY <1>2, <1>7, <1>8, <1>10 DEF Settled

\* What keeps the registers apart keeps each of them to one parameter; and what
\* is granted keeps them apart.
LEMMA SettledRows ==
    /\ \A f, fav : Settled(f, fav) \subseteq Rows(f)
    /\ \A f : \A regs \in Rows(f) : regs \in Settled(f, {p \in Params(f) : regs[p] # NONE})
<1>1. ASSUME NEW f, NEW fav, NEW regs \in Settled(f, fav) PROVE regs \in Rows(f)
  <2>1. SUFFICES ASSUME NEW p \in Params(f), NEW q \in Params(f), p # q, regs[p] = regs[q],
                        regs[p] # NONE
                 PROVE  FALSE
    BY DEF Settled, Rows
  <2>2. pregs_alias(regs[p], regs[q])
    BY <2>1 DEF pregs_alias
  <2>3. QED
    BY <2>1, <2>2 DEF Settled, RowApart
<1>2. ASSUME NEW f, NEW regs \in Rows(f)
      PROVE  regs \in Settled(f, {p \in Params(f) : regs[p] # NONE})
  BY DEF Rows, Settled, RowApart, pregs_alias
<1>3. QED
  BY <1>1, <1>2

\* The registers of one function are assigned.
LEMMA AssignKeeps ==
    ASSUME PreferInv, This \in Fn, NEW regs \in Rows(This), Assign(regs), UNCHANGED abi
    PROVE  /\ DOMAIN param_regs' = Fn /\ DOMAIN favoured' = Fn
           /\ \A f \in Fn : param_regs'[f] \in Grants(f) /\ favoured'[f] \subseteq Params(f)
           /\ (\A f \in Fn : param_regs[f] \in Settled(f, favoured[f]))
              => (\A f \in Fn : param_regs'[f] \in Settled(f, favoured'[f]))
<1> DEFINE F == {p \in Params(This) : regs[p] # NONE}
<1>1. DOMAIN param_regs = Fn /\ DOMAIN favoured = Fn
  BY DEF PreferInv
<1>2. /\ DOMAIN param_regs' = Fn /\ DOMAIN favoured' = Fn
      /\ \A f \in Fn : param_regs'[f] = IF f = This THEN regs ELSE param_regs[f]
      /\ \A f \in Fn : favoured'[f] = IF f = This THEN F ELSE favoured[f]
  BY <1>1 DEF Assign
<1>3. regs \in Settled(This, F) /\ regs \in Grants(This)
  BY SettledRows DEF Rows
<1>4. \A f \in Fn : param_regs[f] \in Grants(f) /\ favoured[f] \subseteq Params(f)
  BY DEF PreferInv
<1>5. F \subseteq Params(This)
  OBVIOUS
<1> HIDE DEF F
<1>6. \A f \in Fn : param_regs'[f] \in Grants(f) /\ favoured'[f] \subseteq Params(f)
  BY ONLY <1>2, <1>3, <1>4, <1>5
<1>7. (\A f \in Fn : param_regs[f] \in Settled(f, favoured[f]))
              => (\A f \in Fn : param_regs'[f] \in Settled(f, favoured'[f]))
  BY ONLY <1>2, <1>3
<1>8. QED
  BY <1>2, <1>6, <1>7

\* The function whose turn it is.
LEMMA ThisFn ==
    ASSUME TypeOK, ti \in 1 .. NF + 1, ti <= Len(topo_order)
    PROVE  This \in Fn /\ ti + 1 \in 1 .. NF + 1
<1>1. topo_order \in Seq(Fn) /\ Len(topo_order) \in 0 .. NF /\ NF \in Nat
  BY OrderFits, NFAssumption DEF TypeOK
<1>2. QED
  BY <1>1 DEF This

\* The vreg of a parameter prefers it.
Prefers(f, p) == prefer[f][abi.params[f][p].v]

\* The registers granted to what prefers one: a parameter without a register gets
\* it, or shares storage with another if it did.
LEMMA Honoured ==
    ASSUME TypeOK, PreferInv, \A f \in Fn : param_regs[f] \in Settled(f, favoured[f]),
           HonourPreferences
    PROVE  /\ This \in Fn
           /\ \E regs \in Rows(This) \cap KeptRows(This, param_regs[This]) :
                 /\ Assign(regs)
                 /\ \A p \in InRegister(This) :
                       param_regs[This][p] = NONE /\ Prefers(This, p) # NONE =>
                           Satisfied(This, regs, p, Prefers(This, p))
<1>1. This \in Fn
  BY ThisFn DEF HonourPreferences, PreferInv
<1> DEFINE ask(regs, p) ==
               IF p \notin InRegister(This) THEN regs
               ELSE Grant(regs, p, prefer[This][abi.params[This][p].v])
           N == Len(abi.params[This])
           row == param_regs[This]
           Pref(p) == Prefers(This, p)
           Good(k, x) ==
               /\ \A q \in Params(This) : row[q] # NONE => x[q] = row[q]
               /\ \A q \in Params(This) : q > k => x[q] = row[q]
               /\ \A q \in InRegister(This) :
                     q <= k /\ row[q] = NONE /\ Pref(q) # NONE => Satisfied(This, x, q, Pref(q))
<1>2. PICK nxt : nxt = [y \in (1 .. N) \X Grants(This) |-> ask(y[2], y[1])]
  OBVIOUS
<1>3. Assign(Iterated(nxt, param_regs[This], N))
  <2>1. Assign(Loop(ask, Grants(This), param_regs[This], N))
    BY Zenon DEF HonourPreferences
  <2>2. Loop(ask, Grants(This), param_regs[This], N) = Iterated(nxt, param_regs[This], N)
    BY <1>2, Zenon DEF Loop
  <2>3. QED
    BY ONLY <2>1, <2>2
<1>4. abi \in AbiType /\ prefer \in [Fn -> Wishes]
  BY DEF PreferInv
<1>5. /\ N \in Nat /\ Params(This) = 1 .. N /\ InRegister(This) \subseteq Params(This)
      /\ \A p \in Params(This) : abi.params[This][p].v \in Vreg
  BY <1>1, <1>4, ParamFields
<1>6. row \in Rows(This) /\ row \in Grants(This)
  BY <1>1, SettledRows DEF Rows
<1>7. \A p \in Params(This) : Pref(p) \in Choice
  BY <1>1, <1>4, <1>5 DEF Wishes, Choice, Prefers
<1>8. PICK T : T = [k \in 0 .. N |-> {x \in Rows(This) : Good(k, x)}]
  OBVIOUS
<1>9. row \in T[0]
  <2>1. 0 \in 0 .. N /\ \A q \in Params(This) : ~(q <= 0)
    BY <1>5
  <2>2. Good(0, row)
    BY <1>5, <2>1, SMTT(30)
  <2>3. QED
    BY <1>6, <1>8, <2>1, <2>2
<1>10. ASSUME NEW k \in 1 .. N, NEW x \in T[k - 1] PROVE nxt[<<k, x>>] \in T[k]
  <2>1. k \in 0 .. N /\ k - 1 \in 0 .. N /\ k \in Params(This) /\ k \in Nat
    BY <1>5
  <2>2. x \in Rows(This) /\ Good(k - 1, x)
    BY <1>8, <2>1
  <2>3. PICK z : z = nxt[<<k, x>>] /\ z = ask(x, k)
    BY <1>2, <2>2 DEF Rows
  <2>4. z \in Rows(This)
    BY <1>7, <2>1, <2>2, <2>3, GrantKeeps DEF Prefers
  <2>5. x \in Grants(This) /\ x[k] = row[k]
    <3>1. k > k - 1
      BY <2>1
    <3>2. QED
      BY <2>1, <2>2, <3>1 DEF Rows
  <2>6. /\ \A q \in Params(This) : q # k => z[q] = x[q]
        /\ x[k] # NONE => z[k] = x[k]
        /\ k \in InRegister(This) /\ x[k] = NONE /\ Pref(k) # NONE => Satisfied(This, z, k, Pref(k))
    <3>1. CASE k \notin InRegister(This)
      BY <2>3, <3>1
    <3>2. CASE k \in InRegister(This)
      <4>1. z = Grant(x, k, Pref(k)) /\ Pref(k) \in Choice
        BY <1>7, <2>1, <2>3, <3>2 DEF Prefers
      <4> HIDE DEF Pref
      <4>2. QED
        BY <2>1, <2>5, <4>1, GrantIs, SMTT(30)
    <3>3. QED
      BY <3>1, <3>2
  <2>7. \A q \in Params(This) : x[q] # NONE => z[q] = x[q]
    BY <2>6
  <2>8. \A q \in Params(This) : row[q] # NONE => z[q] = row[q]
    BY <2>2, <2>7
  <2>9. \A q \in Params(This) : q > k => z[q] = row[q]
    <3>1. \A q \in Params(This) : q > k => q > k - 1 /\ q # k
      BY <1>5, <2>1
    <3>2. QED
      BY <2>2, <2>6, <3>1
  <2>10. ASSUME NEW q \in InRegister(This), q <= k, row[q] = NONE, Pref(q) # NONE
         PROVE  Satisfied(This, z, q, Pref(q))
    <3>1. CASE q = k
      BY <2>5, <2>6, <2>10, <3>1
    <3>2. CASE q # k
      <4>1. q <= k - 1 /\ q \in Params(This)
        BY <1>5, <2>1, <2>10, <3>2
      <4>2. Satisfied(This, x, q, Pref(q))
        BY <2>2, <2>10, <4>1
      <4>3. z[q] = x[q]
        BY <2>6, <3>2, <4>1
      <4>4. \A s \in Params(This) : pregs_alias(x[s], Pref(q)) => z[s] = x[s]
        BY <2>7 DEF pregs_alias
      <4> HIDE DEF Pref
      <4>5. QED
        BY <4>2, <4>3, <4>4 DEF Satisfied
    <3>3. QED
      BY <3>1, <3>2
  <2>11. Good(k, z)
    BY <2>8, <2>9, <2>10
  <2>12. QED
    BY <1>8, <2>1, <2>3, <2>4, <2>11
<1>11. Iterated(nxt, row, N) \in T[N]
  BY ONLY <1>5, <1>9, <1>10, IteratedAt
<1>12. PICK regs : regs = Iterated(nxt, row, N) /\ regs \in Rows(This) /\ Good(N, regs)
  <2>1. N \in 0 .. N
    BY <1>5
  <2>2. QED
    BY <1>8, <1>11, <2>1
<1>13. regs \in KeptRows(This, row)
  BY <1>12 DEF KeptRows, Rows
<1>14. \A p \in InRegister(This) : p <= N
  BY <1>5
<1>15. QED
  BY <1>1, <1>3, <1>12, <1>13, <1>14

\* A grant takes nothing away.
LEMMA GrantStays ==
    ASSUME NEW f, NEW row, NEW regs \in KeptRows(f, row), NEW p \in Params(f), NEW r \in Choice
    PROVE  Grant(regs, p, r) \in KeptRows(f, row)
<1>1. regs \in Grants(f)
  BY DEF KeptRows
<1>2. PICK z : z = Grant(regs, p, r)
  OBVIOUS
<1>3. z \in Grants(f) /\ \A q \in Params(f) : regs[q] # NONE => z[q] = regs[q]
  BY <1>1, <1>2, GrantIs
<1>4. QED
  BY <1>2, <1>3 DEF KeptRows

\* The registers granted to what is moved to a vreg that prefers one.
LEMMA Followed ==
    ASSUME TypeOK, PreferInv, \A f \in Fn : param_regs[f] \in Settled(f, favoured[f]),
           FollowMoves
    PROVE  This \in Fn /\ \E regs \in Rows(This) \cap KeptRows(This, param_regs[This]) : Assign(regs)
<1>1. This \in Fn
  BY ThisFn DEF FollowMoves, Resolving, PreferInv
<1> DEFINE follow(m, regs, p) ==
               IF p \in InRegister(This) /\ abi.params[This][p].v = m[2]
               THEN Grant(regs, p, prefer[This][m[1]]) ELSE regs
           N == Len(abi.params[This])
           M == Len(abi.movs[This])
           S == Rows(This) \cap KeptRows(This, param_regs[This])
           one(m) == [y \in (1 .. N) \X Grants(This) |-> follow(m, y[2], y[1])]
           move(regs, k) == Iterated(one(abi.movs[This][k]), regs, N)
<1>2. PICK nxt : nxt = [y \in (1 .. M) \X Grants(This) |-> move(y[2], y[1])]
  OBVIOUS
<1>3. Assign(Iterated(nxt, param_regs[This], M))
  BY <1>2 DEF FollowMoves, Loop
<1>4. abi \in AbiType /\ prefer \in [Fn -> Wishes]
  BY DEF PreferInv
<1>5. N \in Nat /\ Params(This) = 1 .. N
  BY <1>1, <1>4, ParamFields
<1>6. M \in Nat /\ \A k \in 1 .. M : abi.movs[This][k] \in Vreg \X Vreg
  BY <1>1, <1>4, AbiFields
<1>7. param_regs[This] \in S
  BY <1>1, SettledRows DEF KeptRows, Rows
<1>8. ASSUME NEW m \in Vreg \X Vreg, NEW x \in S
      PROVE  Iterated(one(m), x, N) \in S
  <2>1. PICK h : h = one(m)
    OBVIOUS
  <2>2. \A k \in 1 .. N : \A z \in S : h[<<k, z>>] \in S
    <3>1. SUFFICES ASSUME NEW k \in 1 .. N, NEW z \in S
                   PROVE  h[<<k, z>>] \in S
      OBVIOUS
    <3>2. h[<<k, z>>] = follow(m, z, k)
      BY <2>1 DEF Rows
    <3>3. k \in Params(This) /\ prefer[This][m[1]] \in Choice
      BY <1>1, <1>4, <1>5 DEF Wishes, Choice
    <3>4. follow(m, z, k) \in S
      BY <3>3, GrantKeeps, GrantStays
    <3>5. QED
      BY <3>2, <3>4
  <2>3. Iterated(h, x, N) \in S
    BY ONLY <1>5, <1>8, <2>2, IteratedIn
  <2>4. QED
    BY <2>1, <2>3
<1>9. \A k \in 1 .. M : \A x \in S : nxt[<<k, x>>] \in S
  <2>1. SUFFICES ASSUME NEW k \in 1 .. M, NEW x \in S
                 PROVE  nxt[<<k, x>>] \in S
    OBVIOUS
  <2>2. nxt[<<k, x>>] = move(x, k)
    BY <1>2 DEF Rows
  <2>3. abi.movs[This][k] \in Vreg \X Vreg
    BY <1>6
  <2> HIDE DEF one
  <2>4. QED
    BY <1>8, <2>2, <2>3
<1>10. Iterated(nxt, param_regs[This], M) \in S
  BY ONLY <1>6, <1>7, <1>9, IteratedIn
<1>11. QED
  BY <1>1, <1>3, <1>10

\* The others' registers.
LEMMA Taken ==
    ASSUME TypeOK, PreferInv, \A f \in Fn : param_regs[f] \in Settled(f, favoured[f]), TakeFree
    PROVE  /\ This \in Fn /\ abi_errors' \in Nat
           /\ \E regs \in Settled(This, favoured[This]) \cap KeptRows(This, param_regs[This]) :
                 param_regs' = [param_regs EXCEPT ![This] = regs]
<1>1. This \in Fn
  BY ThisFn DEF TakeFree, Resolving, PreferInv
<1> DEFINE order(p) == IF abi.params[This][p].byte THEN byte_order ELSE word_order
           take(regs, p) ==
               IF p \notin InRegister(This) \/ regs[p] # NONE THEN regs
               ELSE [regs EXCEPT ![p] = FirstFree(order(p), Used(regs))]
           N == Len(abi.params[This])
           S == Settled(This, favoured[This]) \cap KeptRows(This, param_regs[This])
<1>2. PICK nxt : nxt = [y \in (1 .. N) \X Grants(This) |-> take(y[2], y[1])]
  OBVIOUS
<1>3. /\ param_regs' = [param_regs EXCEPT ![This] = Iterated(nxt, param_regs[This], N)]
      /\ abi_errors' = abi_errors
            + Cardinality({p \in InRegister(This) : Iterated(nxt, param_regs[This], N)[p] = NONE})
  BY <1>2 DEF TakeFree, Loop
<1>4. abi \in AbiType
  BY DEF PreferInv
<1>5. N \in Nat /\ Params(This) = 1 .. N /\ InRegister(This) \subseteq Params(This)
  BY <1>1, <1>4, ParamFields
<1>6. param_regs[This] \in S
  BY <1>1 DEF KeptRows, Settled
<1>7. \A k \in 1 .. N : \A x \in S : nxt[<<k, x>>] \in S
  <2>1. SUFFICES ASSUME NEW k \in 1 .. N, NEW x \in S PROVE nxt[<<k, x>>] \in S
    OBVIOUS
  <2>2. nxt[<<k, x>>] = take(x, k)
    BY <1>2 DEF Settled
  <2>3. k \in Params(This) /\ order(k) \in {word_order, byte_order}
    BY <1>5
  <2> HIDE DEF order
  <2>4. take(x, k) \in S
    <3>1. CASE k \notin InRegister(This) \/ x[k] # NONE
      BY <3>1
    <3>2. CASE ~(k \notin InRegister(This) \/ x[k] # NONE)
      <4>1. take(x, k) = [x EXCEPT ![k] = FirstFree(order(k), Used(x))] /\ x[k] = NONE
        BY <3>2
      <4>2. take(x, k) \in Settled(This, favoured[This])
        BY <2>3, <4>1, TakeKeeps
      <4>3. DOMAIN x = Params(This)
        BY DEF Settled, Grants, Params
      <4>4. \A q \in Params(This) : x[q] # NONE => take(x, k)[q] = x[q]
        BY <2>3, <4>1, <4>3
      <4> HIDE DEF take
      <4>5. QED
        BY <4>2, <4>4 DEF KeptRows, Settled
    <3>3. QED
      BY <3>1, <3>2
  <2>5. QED
    BY <2>2, <2>4
<1> HIDE DEF S
<1>8. Iterated(nxt, param_regs[This], N) \in S
  BY ONLY <1>5, <1>6, <1>7, IteratedIn
<1>9. abi_errors' \in Nat
  <2> DEFINE lost == {p \in InRegister(This) : Iterated(nxt, param_regs[This], N)[p] = NONE}
  <2>1. lost \subseteq 1 .. N /\ IsFiniteSet(1 .. N)
    BY <1>5, FS_Interval
  <2>2. Cardinality(lost) \in Nat
    BY <2>1, FS_Subset, FS_CardinalityType
  <2>3. QED
    BY <1>3, <2>2 DEF PreferInv
<1>10. QED
  BY <1>1, <1>3, <1>8, <1>9 DEF S

\* The vregs known to be segments stay vregs.
LEMMA SegsToldType ==
    ASSUME abi \in AbiType, is_seg \in [Fn -> SUBSET Vreg], NEW callee
    PROVE  SegsTold(callee) \in [Fn -> SUBSET Vreg]
<1> DEFINE All == [Fn -> SUBSET Vreg]
           one(e) == [y \in (1 .. Len(e.args)) \X All |-> SegTold(y[2], e, y[1])]
           told(segs, k) == IF abi.edges[k].callee = callee
                            THEN Iterated(one(abi.edges[k]), segs, Len(abi.edges[k].args))
                            ELSE segs
<1>1. PICK nxt : nxt = [y \in (1 .. Len(abi.edges)) \X All |-> told(y[2], y[1])]
  OBVIOUS
<1>2. SegsTold(callee) = Iterated(nxt, is_seg, Len(abi.edges))
  BY <1>1 DEF SegsTold, Loop
<1>3. Len(abi.edges) \in Nat /\ \A k \in 1 .. Len(abi.edges) : abi.edges[k] \in Edge
  BY AbiFields
<1>4. ASSUME NEW e \in Edge, NEW x \in All PROVE Iterated(one(e), x, Len(e.args)) \in All
  <2>1. PICK h : h = one(e)
    OBVIOUS
  <2>2. e.args \in Seq(Vreg) /\ Len(e.args) \in Nat /\ e.caller \in Fn
    BY DEF Edge
  <2>3. \A k \in 1 .. Len(e.args) : \A z \in All : h[<<k, z>>] \in All
    <3>1. SUFFICES ASSUME NEW k \in 1 .. Len(e.args), NEW z \in All PROVE h[<<k, z>>] \in All
      OBVIOUS
    <3>2. h[<<k, z>>] = SegTold(z, e, k)
      BY <2>1
    <3>3. e.args[k] \in Vreg
      BY <2>2
    <3>4. SegTold(z, e, k) \in All
      BY <2>2, <3>3 DEF SegTold
    <3>5. QED
      BY <3>2, <3>4
  <2> HIDE DEF All
  <2>4. Iterated(h, x, Len(e.args)) \in All
    BY ONLY <1>4, <2>2, <2>3, IteratedIn
  <2>5. QED
    BY <2>1, <2>4
<1>5. \A k \in 1 .. Len(abi.edges) : \A x \in All : nxt[<<k, x>>] \in All
  <2>1. SUFFICES ASSUME NEW k \in 1 .. Len(abi.edges), NEW x \in All PROVE nxt[<<k, x>>] \in All
    OBVIOUS
  <2>2. nxt[<<k, x>>] = told(x, k)
    BY <1>1
  <2>3. abi.edges[k] \in Edge
    BY <1>3
  <2> HIDE DEF one
  <2>4. told(x, k) \in All
    BY <1>4, <2>3
  <2>5. QED
    BY <2>2, <2>4
<1>6. is_seg \in All
  OBVIOUS
<1> HIDE DEF All
<1>7. Iterated(nxt, is_seg, Len(abi.edges)) \in All
  BY ONLY <1>3, <1>5, <1>6, IteratedIn
<1>8. QED
  BY <1>2, <1>7 DEF All

\* A parameter's vreg settles on the register it arrives in.
LEMMA SettleType ==
    ASSUME PreferInv, Settle
    PROVE  prefer' \in [Fn -> Wishes]
<1> DEFINE here(f, v) == {p \in InRegister(f) :
                             abi.params[f][p].v = v /\ param_regs[f][p] \notin {NONE, "SP"}}
           last(f, v) == CHOOSE p \in here(f, v) : \A q \in here(f, v) : q <= p
           new(f, v) == IF here(f, v) = {} THEN prefer[f][v] ELSE param_regs[f][last(f, v)]
<1>1. prefer' = [f \in Fn |-> [v \in Vreg |-> new(f, v)]]
  BY DEF Settle
<1>2. ASSUME NEW f \in Fn, NEW v \in Vreg PROVE new(f, v) \in Choice
  <2>0. abi \in AbiType /\ param_regs[f] \in Grants(f) /\ prefer \in [Fn -> Wishes]
    BY DEF PreferInv
  <2>1. CASE here(f, v) = {}
    BY <2>0, <2>1 DEF Wishes, Choice
  <2>2. CASE here(f, v) # {}
    <3>1. here(f, v) \subseteq 1 .. Len(abi.params[f]) /\ Len(abi.params[f]) \in Nat
          /\ Params(f) = 1 .. Len(abi.params[f])
      BY <2>0, ParamFields
    <3>2. \E p \in here(f, v) : \A q \in here(f, v) : q <= p
      <4>1. PICK H, N : H = here(f, v) /\ N = Len(abi.params[f])
        OBVIOUS
      <4>2. N \in Nat /\ H \subseteq 1 .. N /\ H # {}
        BY <2>2, <3>1, <4>1
      <4>3. \A p \in H : N - p \in Nat
        BY <4>2
      <4>4. {N - p : p \in H} \subseteq Nat /\ {N - p : p \in H} # {}
        BY <4>2, <4>3
      <4>5. PICK n \in {N - p : p \in H} : \A m \in {N - p : p \in H} : n <= m
        BY ONLY <4>4, SmallestElement
      <4>6. PICK p \in H : n = N - p
        BY <4>5
      <4>7. \A q \in H : N - p <= N - q
        BY <4>5, <4>6
      <4>8. \A q \in H : q <= p
        BY <4>2, <4>7
      <4>9. QED
        BY <4>1, <4>8
    <3>3. last(f, v) \in here(f, v)
      BY <3>2
    <3>4. last(f, v) \in Params(f)
      BY <3>1, <3>3
    <3>5. QED
      BY <2>0, <2>2, <3>4 DEF Grants, Params, Choice
  <2>3. QED
    BY <2>1, <2>2
<1> HIDE DEF new
<1>3. QED
  BY <1>1, <1>2 DEF Wishes, Choice

-----------------------------------------------------------------------------
(* Every step of propagate_preferences(), and of main() around it. *)

SettledInv == \A f \in Fn : param_regs[f] \in Settled(f, favoured[f])

\* What the functions declare is read only.
LEMMA AbiKept ==
    ASSUME UNCHANGED abi
    PROVE  /\ \A f : Grants(f)' = Grants(f) /\ Params(f)' = Params(f)
                     /\ InRegister(f)' = InRegister(f)
           /\ \A f : Settled(f, favoured[f])' = Settled(f, favoured'[f])
BY DEF Grants, Params, InRegister, RowApart, Settled

\* Parameters of functions get stack places.
LEMMA LayOutType ==
    ASSUME NEW cs, needs_frame \subseteq Fn, LayOut(cs)
    PROVE  needs_frame' \subseteq Fn
BY DEF LayOut

\* main() starts with no parameter register decided.
LEMMA PreferStart ==
    ASSUME BindInit
    PROVE  PreferInv /\ SettledInv /\ StageInv
<1>1. abi \in AbiType /\ PreferInit /\ StartSort /\ PlaceInit
  BY InputsAssumption DEF BindInit
<1>2. abi.pins \in [Fn -> Wishes] /\ abi.segs \in [Fn -> SUBSET Vreg]
  BY <1>1, AbiFields
<1>3. param_regs = [f \in Fn |-> [p \in DOMAIN abi.params[f] |-> NONE]]
  BY <1>1 DEF PreferInit
<1>4. \A f \in Fn : /\ param_regs[f] = [p \in Params(f) |-> NONE]
                    /\ param_regs[f] \in Grants(f)
                    /\ param_regs[f] \in Settled(f, {})
  <2>1. SUFFICES ASSUME NEW f \in Fn
                 PROVE  /\ param_regs[f] = [p \in Params(f) |-> NONE]
                        /\ param_regs[f] \in Grants(f)
                        /\ param_regs[f] \in Settled(f, {})
    OBVIOUS
  <2>2. param_regs[f] = [p \in Params(f) |-> NONE]
    BY <1>3 DEF Params
  <2>3. param_regs[f] \in Grants(f)
    BY <2>2 DEF Grants, Params
  <2>4. QED
    BY <2>2, <2>3, NoneApart DEF Settled, RowApart
<1>5. DOMAIN param_regs = Fn /\ favoured = [f \in Fn |-> {}]
  BY <1>1, <1>3 DEF PreferInit
<1>6. ti \in 1 .. NF + 1
  BY <1>1, NFAssumption DEF PreferInit
<1>7. PreferInv
  BY <1>1, <1>2, <1>4, <1>5, <1>6 DEF PreferInv, PreferInit, StartSort
<1>8. QED
  BY <1>1, <1>4, <1>5, <1>7 DEF SettledInv, StageInv, PlaceInit

\* Every step of propagate_preferences() keeps parameters apart.
LEMMA PreferSteps ==
    ASSUME TypeOK, PreferInv, SettledInv, PreferStep
    PROVE  PreferInv' /\ SettledInv'
<1>0. /\ UNCHANGED <<vars, abi>> /\ pc = "rest" /\ i = NF + 1
      /\ abi \in AbiType /\ prefer \in [Fn -> Wishes] /\ is_seg \in [Fn -> SUBSET Vreg]
      /\ DOMAIN param_regs = Fn /\ DOMAIN favoured = Fn
      /\ ti \in 1 .. NF + 1 /\ needs_frame \subseteq Fn /\ abi_errors \in Nat
      /\ \A f \in Fn : param_regs[f] \in Grants(f) /\ favoured[f] \subseteq Params(f)
      /\ \A f \in Fn : param_regs[f] \in Settled(f, favoured[f])
  BY DEF PreferStep, PropagateExterns, HonourPreferences, FollowMoves, TakeFree, Propagate, Settle,
         Resolving, PreferInv, SettledInv
<1>1. UNCHANGED <<pc, i, topo_order>>
  BY <1>0 DEF vars
<1>2. ASSUME prefer' \in [Fn -> Wishes], is_seg' \in [Fn -> SUBSET Vreg],
             ti' \in 1 .. NF + 1, needs_frame' \subseteq Fn, abi_errors' \in Nat,
             step' \in {"externs", "honour", "moves", "free", "tell", "resolved"},
             step' \in {"moves", "free", "tell"} => ti' <= Len(topo_order),
             DOMAIN param_regs' = Fn, DOMAIN favoured' = Fn,
             \A f \in Fn : param_regs'[f] \in Grants(f) /\ favoured'[f] \subseteq Params(f),
             \A f \in Fn : param_regs'[f] \in Settled(f, favoured'[f])
      PROVE  PreferInv' /\ SettledInv'
  <2>1. \A f \in Fn : param_regs'[f] \in Grants(f)' /\ favoured'[f] \subseteq Params(f)'
    BY <1>0, <1>2, AbiKept
  <2>2. \A f \in Fn : param_regs'[f] \in Settled(f, favoured[f])'
    BY <1>0, <1>2, AbiKept
  <2>3. SettledInv'
    BY <2>2 DEF SettledInv
  <2>4. PreferInv'
    BY <1>0, <1>1, <1>2, <2>1 DEF PreferInv
  <2>5. QED
    BY <2>3, <2>4
<1>3. CASE PropagateExterns
  <2>1. TellCallers(Ext, abi.takes, abi.rets) /\ LayOut(Ext) /\ step' = "honour"
        /\ UNCHANGED <<ti, is_seg, param_regs, favoured, abi_errors>>
    BY <1>3 DEF PropagateExterns
  <2>2. \A c \in Ext : abi.takes[c] \in Seq(Choice) /\ abi.rets[c] \in Seq(Choice)
    BY <1>0, AbiFields
  <2>3. prefer' \in [Fn -> Wishes]
    BY <1>0, <2>1, <2>2, TellCallersType
  <2>4. needs_frame' \subseteq Fn
    BY <1>0, <2>1, LayOutType
  <2>5. QED
    BY <1>0, <1>2, <2>1, <2>3, <2>4
<1>4. CASE HonourPreferences
  <2>1. LayOut({This}) /\ step' = "moves" /\ ti <= Len(topo_order)
        /\ UNCHANGED <<ti, prefer, is_seg, abi_errors>>
    BY <1>4 DEF HonourPreferences
  <2>2. PICK regs \in Rows(This) : This \in Fn /\ Assign(regs)
    BY <1>0, <1>4, Honoured
  <2>3. /\ DOMAIN param_regs' = Fn /\ DOMAIN favoured' = Fn
        /\ \A f \in Fn : param_regs'[f] \in Grants(f) /\ favoured'[f] \subseteq Params(f)
        /\ \A f \in Fn : param_regs'[f] \in Settled(f, favoured'[f])
    BY <1>0, <2>2, AssignKeeps
  <2>4. needs_frame' \subseteq Fn
    BY <1>0, <2>1, LayOutType
  <2>5. QED
    BY <1>0, <1>2, <2>1, <2>3, <2>4
<1>5. CASE FollowMoves
  <2>1. step' = "free" /\ ti <= Len(topo_order)
        /\ UNCHANGED <<ti, prefer, is_seg, needs_frame, abi_errors>>
    BY <1>5 DEF FollowMoves, Resolving, PreferInv, stacking
  <2>2. PICK regs \in Rows(This) : This \in Fn /\ Assign(regs)
    BY <1>0, <1>5, Followed
  <2>3. /\ DOMAIN param_regs' = Fn /\ DOMAIN favoured' = Fn
        /\ \A f \in Fn : param_regs'[f] \in Grants(f) /\ favoured'[f] \subseteq Params(f)
        /\ \A f \in Fn : param_regs'[f] \in Settled(f, favoured'[f])
    BY <1>0, <2>2, AssignKeeps
  <2>4. QED
    BY <1>0, <1>2, <2>1, <2>3
<1>6. CASE TakeFree
  <2>1. step' = "tell" /\ ti <= Len(topo_order)
        /\ UNCHANGED <<ti, prefer, is_seg, needs_frame, favoured>>
    BY <1>6 DEF TakeFree, Resolving, PreferInv, stacking
  <2>2. PICK regs \in Settled(This, favoured[This]) :
            param_regs' = [param_regs EXCEPT ![This] = regs]
    BY <1>0, <1>6, Taken
  <2>3. This \in Fn /\ abi_errors' \in Nat
    BY <1>0, <1>6, Taken
  <2>4. regs \in Grants(This)
    BY DEF Settled
  <2>5. /\ DOMAIN param_regs' = Fn
        /\ \A f \in Fn : param_regs'[f] = IF f = This THEN regs ELSE param_regs[f]
    BY <1>0, <2>2, <2>3
  <2>6. \A f \in Fn : param_regs'[f] \in Grants(f) /\ param_regs'[f] \in Settled(f, favoured[f])
    BY <1>0, <2>2, <2>4, <2>5
  <2>7. QED
    BY <1>0, <1>2, <2>1, <2>3, <2>5, <2>6
<1>7. CASE Propagate
  <2>1. /\ TellCallers({This}, param_regs, abi.rets) /\ is_seg' = SegsTold(This)
        /\ ti' = ti + 1 /\ step' = "honour" /\ ti <= Len(topo_order)
        /\ UNCHANGED <<param_regs, needs_frame, favoured, abi_errors>>
    BY <1>7 DEF Propagate, Resolving, PreferInv, stacking
  <2>2. This \in Fn /\ ti + 1 \in 1 .. NF + 1
    BY <1>0, <2>1, ThisFn
  <2>3. param_regs[This] \in Seq(Choice) /\ abi.rets[This] \in Seq(Choice)
    BY <1>0, <2>2, AbiFields, ParamFields
  <2>4. prefer' \in [Fn -> Wishes]
    BY <1>0, <2>1, <2>3, TellCallersType
  <2>5. is_seg' \in [Fn -> SUBSET Vreg]
    BY <1>0, <2>1, SegsToldType
  <2>6. QED
    BY <1>0, <1>2, <2>1, <2>2, <2>4, <2>5
<1>8. CASE Settle
  <2>1. step' = "resolved" /\ UNCHANGED <<ti, is_seg, param_regs, needs_frame, favoured, abi_errors>>
    BY <1>8 DEF Settle, stacking
  <2>2. prefer' \in [Fn -> Wishes]
    BY <1>8, SettleType
  <2>3. QED
    BY <1>0, <1>2, <2>1, <2>2
<1>9. QED
  BY <1>3, <1>4, <1>5, <1>6, <1>7, <1>8 DEF PreferStep

\* The rest of main() leaves the parameter registers alone, and does not go on
\* before they are decided.
LEMMA PreferNext ==
    ASSUME TypeOK, PreferInv, SettledInv, StageInv, [BindNext]_mainVars
    PROVE  PreferInv' /\ SettledInv' /\ StageInv'
<1>1. ASSUME UNCHANGED preferVars,
             \/ UNCHANGED <<pc, i, topo_order>>
             \/ step \notin {"moves", "free", "tell"},
             pc' \in {"clobbers", "done"} => step = "resolved"
      PROVE  PreferInv' /\ SettledInv'
  <2>1. UNCHANGED <<abi, step, ti, prefer, is_seg, param_regs, needs_frame, favoured, abi_errors>>
    BY <1>1 DEF preferVars, stacking
  <2>2. \A f \in Fn : param_regs'[f] \in Grants(f)' /\ favoured'[f] \subseteq Params(f)'
    BY <2>1, AbiKept DEF PreferInv
  <2>3. \A f \in Fn : param_regs'[f] \in Settled(f, favoured[f])'
    BY <2>1, AbiKept DEF SettledInv
  <2>4. QED
    BY <1>1, <2>1, <2>2, <2>3 DEF PreferInv, SettledInv
<1>2. CASE Preferring
  <2>1. PreferStep /\ UNCHANGED <<stage, pc>>
    BY <1>2 DEF Preferring, PreferStep, placeVars, vars
  <2>2. QED
    BY <2>1, PreferSteps DEF StageInv
<1>3. CASE SortStep
  <2>1. UNCHANGED preferVars /\ UNCHANGED stage /\ stage = "sort"
    BY <1>3 DEF SortStep, placeVars
  <2>2. step \notin {"moves", "free", "tell"} /\ pc' \notin {"clobbers", "done"}
    <3>1. CASE AddLeaf \/ StartScan \/ ScanFunction \/ StartRest
      BY <3>1 DEF AddLeaf, StartScan, ScanFunction, StartRest, PreferInv
    <3>2. CASE AddRest
      <4>1. pc = "rest" /\ pc' = "rest" /\ i <= NF
        BY <3>2 DEF AddRest
      <4>2. i # NF + 1
        BY <4>1, NFAssumption
      <4>3. QED
        BY <4>1, <4>2 DEF PreferInv
    <3>3. QED
      BY <1>3, <3>1, <3>2 DEF SortStep
  <2>3. QED
    BY <1>1, <2>1, <2>2 DEF StageInv
<1>4. CASE Clobbering
  <2>1. UNCHANGED preferVars /\ UNCHANGED stage /\ stage = "sort"
    BY <1>4 DEF Clobbering, placeVars
  <2>2. step = "resolved"
    BY <1>4 DEF Clobbering, ComputeClobbers, Finish, PreferInv
  <2>3. QED
    BY <1>1, <2>1, <2>2 DEF StageInv
<1>5. ASSUME UNCHANGED <<vars, preferVars>>,
             \/ UNCHANGED stage
             \/ stage' \in {"sort", "failed"}
             \/ pc = "done"
             \/ stage = "emit"
      PROVE  PreferInv' /\ SettledInv' /\ StageInv'
  <2>1. UNCHANGED preferVars /\ UNCHANGED <<pc, i, topo_order>>
    BY <1>5 DEF vars
  <2>2. PreferInv' /\ SettledInv'
    BY <1>1, <2>1 DEF PreferInv
  <2>3. StageInv'
    BY <1>5, <2>1 DEF StageInv
  <2>4. QED
    BY <2>2, <2>3
<1>6. CASE Placing
  <2>1. UNCHANGED stage
    BY <1>6 DEF Placing, PlaceNext, PlaceStep, EmitStep, PlaceFn, PlaceData, PlaceGlobal, PlaceAt,
                PlaceReturn, EmitFn, EmitData, EmitGlobal, EmitAt, EmitReturn, Use
  <2>2. QED
    BY <1>5, <1>6, <2>1 DEF Placing
<1>7. CASE EndPlacement
  BY <1>5, <1>7 DEF EndPlacement, vars
<1>8. CASE AbiFailed
  BY <1>5, <1>8 DEF AbiFailed, vars
<1>9. CASE BeginEmission
  BY <1>5, <1>9 DEF BeginEmission, vars
<1>10. CASE EndEmission
  BY <1>5, <1>10 DEF EndEmission, vars
<1>11. CASE UNCHANGED mainVars
  <2>1. UNCHANGED <<vars, preferVars, stage>>
    BY <1>11 DEF mainVars, placeVars
  <2>2. QED
    BY <1>5, <2>1
<1>12. QED
  BY <1>2, <1>3, <1>4, <1>6, <1>7, <1>8, <1>9, <1>10, <1>11 DEF BindNext, Exited

-----------------------------------------------------------------------------
(* What propagate_preferences() promises. *)

\* What holds between its steps.
PreferIInv == TypeOK /\ SortInv /\ PreferInv /\ SettledInv /\ StageInv

\* It holds when main() starts,
LEMMA PreferIInvInit == BindInit => PreferIInv
BY BindStarts, SortInit, PreferStart DEF PreferIInv

\* and every step of main() keeps it.
LEMMA PreferIInvNext == PreferIInv /\ [BindNext]_mainVars => PreferIInv'
<1> SUFFICES ASSUME PreferIInv, [BindNext]_mainVars PROVE PreferIInv'
  OBVIOUS
<1>1. TypeOK /\ SortInv /\ PreferInv /\ SettledInv /\ StageInv
  BY DEF PreferIInv
<1>2. TypeOK' /\ SortInv'
  BY <1>1, BindClobbers, SortNext
<1>3. PreferInv' /\ SettledInv' /\ StageInv'
  BY <1>1, PreferNext
<1>4. QED
  BY <1>2, <1>3 DEF PreferIInv

\* The binder's state is well formed throughout: every function has its turn in
\* propagate_preferences(), its parameters get registers or none, the walks of
\* placement and output stay within the modules, and nothing is written before
\* the call order, the parameter registers and the clobber sets are final.
THEOREM BindTypeCorrect == BindSpec => []BindTypeOK
<1>1. BindInit => PreferIInv /\ Types /\ WalkInv /\ PathInv
  BY PreferIInvInit, PlacedInit, PathInit
<1>2. PreferIInv /\ Types /\ WalkInv /\ PathInv /\ [BindNext]_mainVars
      => (PreferIInv /\ Types /\ WalkInv /\ PathInv)'
  BY PreferIInvNext, PlacedNext, PathNext
<1>3. PreferIInv /\ Types /\ WalkInv /\ PathInv => BindTypeOK
  <2> SUFFICES ASSUME PreferIInv, Types, WalkInv, PathInv PROVE BindTypeOK
    OBVIOUS
  <2>1. TypeOK /\ PreferInv /\ StageInv
    BY DEF PreferIInv
  <2>2. \A f \in Fn : DOMAIN param_regs[f] = Params(f) /\ favoured[f] \subseteq Params(f)
    BY <2>1 DEF PreferInv, Grants, Params
  <2>3. PreferTypeOK
    BY <2>1, <2>2 DEF PreferInv, PreferTypeOK, Wishes
  <2>4. DOMAIN walk = 1 .. Len(walk)
    BY DEF Types
  <2>5. PlaceTypeOK
    BY <2>4 DEF Types, WalkInv, PlaceTypeOK, Segs
  <2>6. QED
    BY <2>1, <2>3, <2>5 DEF BindTypeOK, PathInv, StageInv, PreferInv
<1>4. QED
  BY <1>1, <1>2, <1>3, PTL DEF BindSpec

\* No two parameters of a function arrive in one register, and one that merely
\* took a free register shares no half with another, whatever the functions
\* prefer and move, and however wishes travel between them.
THEOREM ParamsApartCorrect == BindSpec => []ParamsApart
<1>1. PreferIInv => ParamsApart
  <2> SUFFICES ASSUME PreferIInv,
                      NEW f \in Fn, NEW p \in InRegister(f), NEW q \in InRegister(f),
                      p # q, pregs_alias(param_regs[f][p], param_regs[f][q])
               PROVE  {p, q} \subseteq favoured[f] /\ param_regs[f][p] # param_regs[f][q]
    BY DEF ParamsApart
  <2>1. RowApart(f, param_regs[f], favoured[f]) /\ p \in Params(f) /\ q \in Params(f)
    BY DEF PreferIInv, SettledInv, Settled, InRegister
  <2>2. QED
    BY <2>1 DEF RowApart
<1>2. QED
  BY <1>1, PreferIInvInit, PreferIInvNext, PTL DEF BindSpec

-----------------------------------------------------------------------------
(* What callers hear. *)

\* Wish() hands on nothing else.
Wanted(r) == r \notin {NONE, "SP"}

\* What the first n of the wishes ws have made of the preferences x: a vreg keeps
\* its own, takes one it is told, and has one when it is told one.
Heard(ws, n, x, y) ==
    \A v \in Vreg :
        /\ x[v] # NONE => y[v] = x[v]
        /\ y[v] = x[v] \/ \E k \in 1 .. n : ws[k][1] = v /\ ws[k][2] = y[v]
        /\ \A k \in 1 .. n : ws[k][1] = v /\ Wanted(ws[k][2]) => y[v] # NONE

\* One wish more.
LEMMA WishHeard ==
    ASSUME NEW ws, NEW n \in Nat, NEW k \in 1 .. n, NEW x \in Wishes, NEW y \in Wishes,
           Heard(ws, k - 1, x, y), ws[k][2] \in Choice
    PROVE  Wish(y, ws[k]) \in Wishes /\ Heard(ws, k, x, Wish(y, ws[k]))
<1>1. PICK z : z = Wish(y, ws[k])
  OBVIOUS
<1>2. k \in Nat /\ 1 .. k = (1 .. k - 1) \cup {k}
  OBVIOUS
<1>3. PICK w, r : w = ws[k][1] /\ r = ws[k][2]
  OBVIOUS
<1>4. z = IF ~Wanted(r) \/ y[w] # NONE THEN y ELSE [y EXCEPT ![w] = r]
  BY <1>1, <1>3 DEF Wish, Wanted
<1>5. z \in Wishes /\ \A v \in Vreg :
         z[v] = IF v = w /\ Wanted(r) /\ y[w] = NONE THEN r ELSE y[v]
  <2>1. y \in [Vreg -> Choice] /\ Wishes = [Vreg -> Choice] /\ r \in Choice
    BY <1>3 DEF Wishes, Choice
  <2>2. QED
    BY <1>4, <2>1
<1>6. ASSUME NEW v \in Vreg
      PROVE  /\ x[v] # NONE => z[v] = x[v]
             /\ z[v] = x[v] \/ \E m \in 1 .. k : ws[m][1] = v /\ ws[m][2] = z[v]
             /\ \A m \in 1 .. k : ws[m][1] = v /\ Wanted(ws[m][2]) => z[v] # NONE
  <2>1. /\ x[v] # NONE => y[v] = x[v]
        /\ y[v] = x[v] \/ \E m \in 1 .. k - 1 : ws[m][1] = v /\ ws[m][2] = y[v]
        /\ \A m \in 1 .. k - 1 : ws[m][1] = v /\ Wanted(ws[m][2]) => y[v] # NONE
    BY DEF Heard
  <2>2. CASE v = w /\ Wanted(r) /\ y[w] = NONE
    <3>1. z[v] = r /\ r # NONE
      BY <1>5, <2>2 DEF Wanted
    <3>2. QED
      BY <1>2, <1>3, <2>1, <2>2, <3>1
  <2>3. CASE ~(v = w /\ Wanted(r) /\ y[w] = NONE)
    <3>1. z[v] = y[v]
      BY <1>5, <2>3
    <3>2. v = w /\ Wanted(r) => y[v] # NONE
      BY <2>3
    <3>3. QED
      BY <1>2, <1>3, <2>1, <3>1, <3>2
  <2>4. QED
    BY <2>2, <2>3
<1>7. QED
  BY <1>1, <1>5, <1>6 DEF Heard

\* The caller of one edge hears its wishes.
LEMMA TellIs ==
    ASSUME NEW e \in Edge, NEW takes \in Seq(Choice), NEW gives \in Seq(Choice),
           NEW all \in [Fn -> Wishes], NEW ws, ws = Handed(e, takes, gives)
    PROVE  /\ Tell(all, e, takes, gives) \in [Fn -> Wishes]
           /\ \A g \in Fn : g # e.caller => Tell(all, e, takes, gives)[g] = all[g]
           /\ Heard(ws, Len(ws), all[e.caller], Tell(all, e, takes, gives)[e.caller])
<1>1. PICK nxt : nxt = [y \in (1 .. Len(ws)) \X Wishes |-> Wish(y[2], ws[y[1]])]
  OBVIOUS
<1>2. e.caller \in Fn
  BY DEF Edge
<1>3. PICK x : x = all[e.caller] /\ x \in Wishes
  BY <1>2
<1>4. Tell(all, e, takes, gives) = [all EXCEPT ![e.caller] = Iterated(nxt, x, Len(ws))]
  BY <1>1, <1>2, <1>3 DEF Tell, Loop
<1>5. Len(ws) \in Nat /\ \A k \in 1 .. Len(ws) : ws[k][2] \in Choice
  BY HandedType
<1>6. PICK T : T = [k \in 0 .. Len(ws) |-> {y \in Wishes : Heard(ws, k, x, y)}]
  OBVIOUS
<1>7. x \in T[0]
  <2>1. 0 \in 0 .. Len(ws) /\ 1 .. 0 = {}
    BY <1>5
  <2>2. Heard(ws, 0, x, x)
    BY <2>1 DEF Heard
  <2>3. QED
    BY <1>3, <1>6, <2>1, <2>2
<1>8. \A k \in 1 .. Len(ws) : \A y \in T[k - 1] : nxt[<<k, y>>] \in T[k]
  <2>1. SUFFICES ASSUME NEW k \in 1 .. Len(ws), NEW y \in T[k - 1] PROVE nxt[<<k, y>>] \in T[k]
    OBVIOUS
  <2>2. k \in 0 .. Len(ws) /\ k - 1 \in 0 .. Len(ws)
    BY <1>5
  <2>3. y \in Wishes /\ Heard(ws, k - 1, x, y)
    BY <1>6, <2>2
  <2>4. ws[k][2] \in Choice
    BY <1>5
  <2>5. Wish(y, ws[k]) \in Wishes /\ Heard(ws, k, x, Wish(y, ws[k]))
    BY <1>3, <1>5, <2>3, <2>4, WishHeard
  <2>6. nxt[<<k, y>>] = Wish(y, ws[k])
    BY <1>1, <2>3
  <2>7. QED
    BY <1>6, <2>2, <2>5, <2>6
<1>9. Iterated(nxt, x, Len(ws)) \in T[Len(ws)]
  BY ONLY <1>5, <1>7, <1>8, IteratedAt
<1>10. Len(ws) \in 0 .. Len(ws)
  BY <1>5
<1>11. Iterated(nxt, x, Len(ws)) \in Wishes /\ Heard(ws, Len(ws), x, Iterated(nxt, x, Len(ws)))
  BY <1>6, <1>9, <1>10
<1>12. QED
  BY <1>2, <1>3, <1>4, <1>11

\* What the first n edges have made of all preferences x, of those with a callee
\* of the set.
Spread(ws, callees, n, x, y) ==
    \A f \in Fn : \A v \in Vreg :
        /\ x[f][v] # NONE => y[f][v] = x[f][v]
        /\ \/ y[f][v] = x[f][v]
           \/ \E k \in 1 .. n : /\ abi.edges[k].caller = f /\ abi.edges[k].callee \in callees
                                /\ \E j \in 1 .. Len(ws[k]) :
                                      ws[k][j][1] = v /\ ws[k][j][2] = y[f][v]
        /\ \A k \in 1 .. n :
              abi.edges[k].caller = f /\ abi.edges[k].callee \in callees =>
                  \A j \in 1 .. Len(ws[k]) :
                      ws[k][j][1] = v /\ Wanted(ws[k][j][2]) => y[f][v] # NONE

\* One edge more.
LEMMA SpreadOn ==
    ASSUME abi \in AbiType, NEW ws, NEW callees, NEW k \in 1 .. Len(abi.edges),
           NEW x \in [Fn -> Wishes], NEW y \in [Fn -> Wishes], NEW z \in [Fn -> Wishes],
           Spread(ws, callees, k - 1, x, y),
           NEW c, c = abi.edges[k].caller, c \in Fn,
           IF abi.edges[k].callee \in callees
           THEN (\A g \in Fn : g # c => z[g] = y[g]) /\ Heard(ws[k], Len(ws[k]), y[c], z[c])
           ELSE z = y
    PROVE  Spread(ws, callees, k, x, z)
<1>1. k \in Nat /\ 1 .. k = (1 .. k - 1) \cup {k}
  BY AbiFields
<1>2. SUFFICES ASSUME NEW f \in Fn, NEW v \in Vreg
      PROVE  /\ x[f][v] # NONE => z[f][v] = x[f][v]
             /\ \/ z[f][v] = x[f][v]
                \/ \E m \in 1 .. k : /\ abi.edges[m].caller = f /\ abi.edges[m].callee \in callees
                                     /\ \E j \in 1 .. Len(ws[m]) :
                                           ws[m][j][1] = v /\ ws[m][j][2] = z[f][v]
             /\ \A m \in 1 .. k :
                   abi.edges[m].caller = f /\ abi.edges[m].callee \in callees =>
                       \A j \in 1 .. Len(ws[m]) :
                           ws[m][j][1] = v /\ Wanted(ws[m][j][2]) => z[f][v] # NONE
  BY DEF Spread
<1>3. /\ x[f][v] # NONE => y[f][v] = x[f][v]
      /\ \/ y[f][v] = x[f][v]
         \/ \E m \in 1 .. k - 1 : /\ abi.edges[m].caller = f /\ abi.edges[m].callee \in callees
                                  /\ \E j \in 1 .. Len(ws[m]) :
                                        ws[m][j][1] = v /\ ws[m][j][2] = y[f][v]
      /\ \A m \in 1 .. k - 1 :
            abi.edges[m].caller = f /\ abi.edges[m].callee \in callees =>
                \A j \in 1 .. Len(ws[m]) :
                    ws[m][j][1] = v /\ Wanted(ws[m][j][2]) => y[f][v] # NONE
  BY DEF Spread
<1>4. CASE ~(f = c /\ abi.edges[k].callee \in callees)
  <2>1. z[f][v] = y[f][v]
    BY <1>4
  <2>2. ~(abi.edges[k].caller = f /\ abi.edges[k].callee \in callees)
    BY <1>4
  <2>3. QED
    BY ONLY <1>1, <1>3, <2>1, <2>2
<1>5. CASE f = c /\ abi.edges[k].callee \in callees
  <2>1. /\ y[f][v] # NONE => z[f][v] = y[f][v]
        /\ z[f][v] = y[f][v]
           \/ \E j \in 1 .. Len(ws[k]) : ws[k][j][1] = v /\ ws[k][j][2] = z[f][v]
        /\ \A j \in 1 .. Len(ws[k]) : ws[k][j][1] = v /\ Wanted(ws[k][j][2]) => z[f][v] # NONE
    BY <1>5 DEF Heard
  <2>2. x[f][v] # NONE => z[f][v] = x[f][v]
    BY <1>3, <2>1
  <2>3. \/ z[f][v] = x[f][v]
        \/ \E m \in 1 .. k : /\ abi.edges[m].caller = f /\ abi.edges[m].callee \in callees
                             /\ \E j \in 1 .. Len(ws[m]) :
                                   ws[m][j][1] = v /\ ws[m][j][2] = z[f][v]
    <3>1. CASE z[f][v] = y[f][v]
      BY <1>1, <1>3, <3>1
    <3>2. CASE z[f][v] # y[f][v]
      <4>1. PICK j \in 1 .. Len(ws[k]) : ws[k][j][1] = v /\ ws[k][j][2] = z[f][v]
        BY <2>1, <3>2
      <4>2. k \in 1 .. k /\ abi.edges[k].caller = f
        BY <1>1, <1>5
      <4>3. QED
        BY <1>5, <4>1, <4>2
    <3>3. QED
      BY <3>1, <3>2
  <2>4. ASSUME NEW m \in 1 .. k, abi.edges[m].caller = f, abi.edges[m].callee \in callees,
               NEW j \in 1 .. Len(ws[m]), ws[m][j][1] = v, Wanted(ws[m][j][2])
        PROVE  z[f][v] # NONE
    <3>1. CASE m = k
      BY <2>1, <2>4, <3>1
    <3>2. CASE m # k
      <4>1. m \in 1 .. k - 1
        BY <1>1, <3>2
      <4>2. y[f][v] # NONE
        BY <1>3, <2>4, <4>1
      <4>3. QED
        BY <2>1, <4>2
    <3>3. QED
      BY <3>1, <3>2
  <2>5. QED
    BY <2>2, <2>3, <2>4
<1>6. QED
  BY <1>4, <1>5

\* What all edges hand over.
AllHanded(takes, gives) ==
    [k \in 1 .. Len(abi.edges) |->
        Handed(abi.edges[k], takes[abi.edges[k].callee], gives[abi.edges[k].callee])]

\* All callers hear.
LEMMA TellCallersIs ==
    ASSUME abi \in AbiType, prefer \in [Fn -> Wishes], NEW callees, NEW takes, NEW gives,
           \A c \in callees : takes[c] \in Seq(Choice) /\ gives[c] \in Seq(Choice),
           TellCallers(callees, takes, gives)
    PROVE  Spread(AllHanded(takes, gives), callees, Len(abi.edges), prefer, prefer')
<1> DEFINE told(all, k) == IF abi.edges[k].callee \in callees
                           THEN Tell(all, abi.edges[k], takes[abi.edges[k].callee],
                                     gives[abi.edges[k].callee])
                           ELSE all
           ws == AllHanded(takes, gives)
           N == Len(abi.edges)
<1>1. PICK All, nxt : All = [Fn -> Wishes] /\ nxt = [y \in (1 .. N) \X All |-> told(y[2], y[1])]
  OBVIOUS
<1>2. prefer' = Iterated(nxt, prefer, N)
  BY <1>1 DEF TellCallers, Loop
<1>3. N \in Nat /\ \A k \in 1 .. N : abi.edges[k] \in Edge /\ abi.edges[k].caller \in Fn
  <2>1. N \in Nat /\ \A k \in 1 .. N : abi.edges[k] \in Edge
    BY AbiFields
  <2>2. \A e \in Edge : e.caller \in Fn
    BY DEF Edge
  <2>3. QED
    BY <2>1, <2>2
<1>4. PICK T : T = [k \in 0 .. N |-> {y \in All : Spread(ws, callees, k, prefer, y)}]
  OBVIOUS
<1>5. prefer \in T[0]
  <2>1. 0 \in 0 .. N /\ 1 .. 0 = {}
    BY <1>3
  <2>2. Spread(ws, callees, 0, prefer, prefer)
    BY <2>1 DEF Spread
  <2>3. QED
    BY <1>1, <1>4, <2>1, <2>2
<1>6. \A k \in 1 .. N : \A y \in T[k - 1] : nxt[<<k, y>>] \in T[k]
  <2>1. SUFFICES ASSUME NEW k \in 1 .. N, NEW y \in T[k - 1] PROVE nxt[<<k, y>>] \in T[k]
    OBVIOUS
  <2>2. k \in 0 .. N /\ k - 1 \in 0 .. N
    BY <1>3
  <2>3. y \in All /\ Spread(ws, callees, k - 1, prefer, y)
    BY <1>4, <2>2
  <2>4. PICK e, z : e = abi.edges[k] /\ z = told(y, k)
    OBVIOUS
  <2>5. e \in Edge /\ e.caller \in Fn
    BY <1>3, <2>4
  <2>6. ws[k] = Handed(e, takes[e.callee], gives[e.callee])
    BY <2>4 DEF AllHanded
  <2>7. /\ z \in All
        /\ IF e.callee \in callees
           THEN (\A g \in Fn : g # e.caller => z[g] = y[g])
                /\ Heard(ws[k], Len(ws[k]), y[e.caller], z[e.caller])
           ELSE z = y
    <3>1. CASE e.callee \in callees
      <4>1. z = Tell(y, e, takes[e.callee], gives[e.callee])
        BY <2>4, <3>1
      <4>2. takes[e.callee] \in Seq(Choice) /\ gives[e.callee] \in Seq(Choice)
        BY <3>1
      <4>3. y \in [Fn -> Wishes]
        BY <1>1, <2>3
      <4>4. /\ z \in [Fn -> Wishes]
            /\ \A g \in Fn : g # e.caller => z[g] = y[g]
            /\ Heard(ws[k], Len(ws[k]), y[e.caller], z[e.caller])
        BY ONLY <2>5, <2>6, <4>1, <4>2, <4>3, TellIs
      <4>5. QED
        BY <1>1, <3>1, <4>4
    <3>2. CASE e.callee \notin callees
      BY <2>3, <2>4, <3>2
    <3>3. QED
      BY <3>1, <3>2
  <2>8. Spread(ws, callees, k, prefer, z)
    <3> HIDE DEF ws, told
    <3>1. PICK c : c = abi.edges[k].caller
      OBVIOUS
    <3>2. /\ c \in Fn /\ y \in [Fn -> Wishes] /\ z \in [Fn -> Wishes]
          /\ IF abi.edges[k].callee \in callees
             THEN (\A g \in Fn : g # c => z[g] = y[g]) /\ Heard(ws[k], Len(ws[k]), y[c], z[c])
             ELSE z = y
      BY <1>1, <2>3, <2>4, <2>5, <2>7, <3>1
    <3>3. k \in 1 .. Len(abi.edges) /\ Spread(ws, callees, k - 1, prefer, y)
      BY <2>3
    <3>4. QED
      BY ONLY <3>1, <3>2, <3>3, SpreadOn, abi \in AbiType, prefer \in [Fn -> Wishes]
  <2>9. nxt[<<k, y>>] = z
    BY <1>1, <2>3, <2>4
  <2>10. QED
    BY <1>4, <2>2, <2>7, <2>8, <2>9
<1>7. Iterated(nxt, prefer, N) \in T[N]
  BY ONLY <1>3, <1>5, <1>6, IteratedAt
<1>8. N \in 0 .. N
  BY <1>3
<1>9. QED
  BY <1>2, <1>4, <1>7, <1>8

\* What an edge hands over is what it passes and what it receives.
LEMMA HandedAt ==
    ASSUME NEW e \in Edge, NEW takes \in Seq(Choice), NEW gives \in Seq(Choice),
           NEW ws, ws = Handed(e, takes, gives)
    PROVE  /\ \A j \in 1 .. Len(ws) : ws[j][2] # NONE =>
                 \/ \E b \in DOMAIN e.args \cap DOMAIN takes :
                       e.args[b] = ws[j][1] /\ takes[b] = ws[j][2]
                 \/ \E b \in DOMAIN e.rets : e.rets[b] = ws[j][1]
           /\ \A b \in DOMAIN e.args \cap DOMAIN takes :
                 \E j \in 1 .. Len(ws) : ws[j][1] = e.args[b] /\ ws[j][2] = takes[b]
<1> DEFINE Z == (Vreg \cup {0}) \X Choice
           u == [k \in 1 .. Len(takes) |-> IF k <= Len(e.args) THEN <<e.args[k], takes[k]>>
                                           ELSE <<0, NONE>>]
           v == [k \in 1 .. Len(gives) |-> IF k <= Len(e.rets) THEN <<e.rets[k], gives[k]>>
                                           ELSE <<0, NONE>>]
<1>1. e.args \in Seq(Vreg) /\ e.rets \in Seq(Vreg) /\ NONE \in Choice
  BY DEF Edge, Choice
<1>2. PICK L, M : L = Len(takes) /\ M = Len(gives) /\ L \in Nat /\ M \in Nat
  <2>1. Len(takes) \in Nat /\ Len(gives) \in Nat
    OBVIOUS
  <2>2. QED
    BY <2>1
<1>3. /\ DOMAIN takes = 1 .. L /\ DOMAIN e.args = 1 .. Len(e.args)
      /\ DOMAIN e.rets = 1 .. Len(e.rets) /\ Len(e.args) \in Nat /\ Len(e.rets) \in Nat
  BY <1>1, <1>2
<1>4. \A k \in 1 .. L : u[k] \in Z /\ u[k] = IF k <= Len(e.args) THEN <<e.args[k], takes[k]>>
                                             ELSE <<0, NONE>>
  <2>1. \A k \in 1 .. L : takes[k] \in Choice /\ (k <= Len(e.args) => e.args[k] \in Vreg)
    BY <1>1, <1>2
  <2>2. QED
    BY <1>1, <1>2, <2>1
<1>5. \A k \in 1 .. M : v[k] \in Z /\ v[k] = IF k <= Len(e.rets) THEN <<e.rets[k], gives[k]>>
                                             ELSE <<0, NONE>>
  <2>1. \A k \in 1 .. M : gives[k] \in Choice /\ (k <= Len(e.rets) => e.rets[k] \in Vreg)
    BY <1>1, <1>2
  <2>2. QED
    BY <1>1, <1>2, <2>1
<1>6. ws = u \o v /\ u = [k \in 1 .. L |-> u[k]] /\ v = [k \in 1 .. M |-> v[k]]
  BY <1>2 DEF Handed
<1> HIDE DEF u, v
<1>7. u \in Seq(Z) /\ v \in Seq(Z) /\ Len(u) = L /\ Len(v) = M
  BY <1>2, <1>4, <1>5, <1>6
<1>8. /\ Len(ws) = L + M
      /\ \A j \in 1 .. L + M : ws[j] = IF j <= L THEN u[j] ELSE v[j - L]
  BY ONLY <1>2, <1>6, <1>7, ConcatProperties
<1>9. ASSUME NEW j \in 1 .. Len(ws), ws[j][2] # NONE
      PROVE  \/ \E b \in DOMAIN e.args \cap DOMAIN takes :
                   e.args[b] = ws[j][1] /\ takes[b] = ws[j][2]
             \/ \E b \in DOMAIN e.rets : e.rets[b] = ws[j][1]
  <2>1. CASE j <= L
    <3>1. j \in 1 .. L /\ ws[j] = u[j]
      BY <1>2, <1>8, <2>1
    <3>2. j <= Len(e.args) /\ ws[j] = <<e.args[j], takes[j]>>
      <4>1. ws[j] = IF j <= Len(e.args) THEN <<e.args[j], takes[j]>> ELSE <<0, NONE>>
        BY <1>4, <3>1
      <4>2. CASE j <= Len(e.args)
        BY <4>1, <4>2
      <4>3. CASE ~(j <= Len(e.args))
        <5>1. ws[j] = <<0, NONE>>
          BY <4>1, <4>3
        <5>2. QED
          BY <1>9, <5>1
      <4>4. QED
        BY <4>2, <4>3
    <3>3. j \in DOMAIN e.args \cap DOMAIN takes
      BY <1>3, <3>1, <3>2
    <3>4. QED
      BY <3>2, <3>3
  <2>2. CASE ~(j <= L)
    <3>1. PICK b \in 1 .. M : b = j - L
      BY <1>2, <1>8, <2>2
    <3>2. ws[j] = v[b]
      BY <1>8, <2>2, <3>1
    <3>3. b <= Len(e.rets) /\ ws[j] = <<e.rets[b], gives[b]>>
      <4>1. ws[j] = IF b <= Len(e.rets) THEN <<e.rets[b], gives[b]>> ELSE <<0, NONE>>
        BY <1>5, <3>2
      <4>2. CASE b <= Len(e.rets)
        BY <4>1, <4>2
      <4>3. CASE ~(b <= Len(e.rets))
        <5>1. ws[j] = <<0, NONE>>
          BY <4>1, <4>3
        <5>2. QED
          BY <1>9, <5>1
      <4>4. QED
        BY <4>2, <4>3
    <3>4. b \in DOMAIN e.rets
      BY <1>3, <3>3
    <3>5. QED
      BY <3>3, <3>4
  <2>3. QED
    BY <2>1, <2>2
<1>10. ASSUME NEW b \in DOMAIN e.args \cap DOMAIN takes
       PROVE  \E j \in 1 .. Len(ws) : ws[j][1] = e.args[b] /\ ws[j][2] = takes[b]
  <2>1. b \in 1 .. L /\ b <= Len(e.args) /\ b \in 1 .. Len(ws) /\ b <= L
    BY <1>2, <1>3, <1>8
  <2>2. ws[b] = <<e.args[b], takes[b]>>
    BY <1>4, <1>8, <2>1
  <2>3. QED
    BY <2>1, <2>2
<1>11. QED
  BY <1>9, <1>10

-----------------------------------------------------------------------------
(* The order of the functions. *)

\* f was sorted as it should be, and so was everything before it.
Prompt(f) ==
    \E n \in 1 .. Len(topo_order) : topo_order[n] = f /\ \A k \in 1 .. n : Early(k)

\* The functions whose callers have been told, and those that have had their own
\* registers.
Told == {topo_order[j] : j \in 1 .. ti - 1}
Treated == IF step \in {"moves", "free", "tell"} THEN Told \cup {This} ELSE Told

\* The one whose turn it is has not had it yet.
LEMMA ThisIsNew ==
    ASSUME TypeOK, ti \in 1 .. NF + 1, ti <= Len(topo_order)
    PROVE  /\ This \in Fn \ Told
           /\ Told \cup {This} = {topo_order[j] : j \in 1 .. ti}
<1>1. topo_order \in Seq(Fn) /\ Len(topo_order) \in Nat /\ ti \in Nat /\ ti \in 1 .. Len(topo_order)
  BY NFAssumption DEF TypeOK
<1>2. \A j \in 1 .. ti - 1 : j \in 1 .. Len(topo_order) /\ j # ti
  BY <1>1
<1>3. This \notin Told
  BY <1>1, <1>2 DEF This, Told, TypeOK
<1>4. 1 .. ti = (1 .. ti - 1) \cup {ti}
  BY <1>1
<1>5. QED
  BY <1>1, <1>3, <1>4 DEF This, Told

\* The callees of such a function have their turn before it.
LEMMA PromptCallees ==
    ASSUME TypeOK, ti \in 1 .. NF + 1, NEW f, Prompt(f), NEW g \in Callees(f)
    PROVE  /\ Prompt(g)
           /\ f \in Told => g \in Told
           /\ ti <= Len(topo_order) /\ f = This => g \in Told
<1>1. PICK n \in 1 .. Len(topo_order) : topo_order[n] = f /\ \A k \in 1 .. n : Early(k)
  BY DEF Prompt
<1>2. Len(topo_order) \in Nat /\ n \in Nat /\ ti \in Nat
  BY NFAssumption DEF TypeOK
<1>3. PICK j \in 1 .. n - 1 : g = topo_order[j]
  <2>1. n \in 1 .. n
    BY <1>2
  <2>2. g \in First(n - 1)
    BY <1>1, <2>1 DEF Early
  <2>3. QED
    BY <2>2 DEF First
<1>4. Prompt(g)
  <2>1. j \in 1 .. Len(topo_order) /\ 1 .. j \subseteq 1 .. n
    BY <1>2
  <2>2. QED
    BY <1>1, <1>3, <2>1 DEF Prompt
<1>5. \A m \in 1 .. Len(topo_order) : topo_order[m] = f => m = n
  BY <1>1 DEF TypeOK
<1>6. ASSUME f \in Told PROVE g \in Told
  <2>1. PICK m \in 1 .. ti - 1 : f = topo_order[m]
    BY <1>6 DEF Told
  <2>2. CASE n <= ti - 1
    <3>1. j \in 1 .. ti - 1
      BY <1>2, <2>2
    <3>2. QED
      BY <1>3, <3>1 DEF Told
  <2>3. CASE ~(n <= ti - 1)
    <3>1. m \in 1 .. Len(topo_order)
      BY <1>2, <2>3
    <3>2. QED
      BY <1>2, <1>5, <2>1, <2>3, <3>1
  <2>4. QED
    BY <2>2, <2>3
<1>7. ASSUME ti <= Len(topo_order), f = This PROVE g \in Told
  <2>1. ti \in 1 .. Len(topo_order) /\ topo_order[ti] = f
    BY <1>2, <1>7 DEF This
  <2>2. n = ti
    BY <1>5, <2>1
  <2>3. QED
    BY <1>3, <2>2 DEF Told
<1>8. QED
  BY <1>4, <1>6, <1>7

\* A function that reaches no recursion is such a function.
LEMMA GroundedPrompt ==
    ASSUME TypeOK, OrderInv, pc \in {"rest", "clobbers", "done"}, NEW f \in Grounded
    PROVE  Prompt(f)
<1>1. PICK L \in 0 .. Len(topo_order) : SealedAt(L)
  BY DEF OrderInv
<1>2. Len(topo_order) \in Nat /\ L \in Nat
  BY DEF TypeOK
<1>3. f \in First(L)
  BY <1>1, <1>2, GroundedFirst, NFAssumption DEF Grounded
<1>4. PICK n \in 1 .. L : f = topo_order[n]
  BY <1>3 DEF First
<1>5. n \in 1 .. Len(topo_order) /\ 1 .. n \subseteq 1 .. L
  BY <1>2
<1>6. QED
  BY <1>1, <1>4, <1>5 DEF Prompt, SealedAt

-----------------------------------------------------------------------------
(* A parameter that is passed on once, and what its vreg is told. *)

ParamVreg(f, p) == abi.params[f][p].v
Passer(f, p, k, a) ==
    /\ f \in Fn /\ p \in InRegister(f) /\ k \in 1 .. Len(abi.edges)
    /\ PassedOn(f, p) = {<<k, a>>} /\ abi.edges[k].callee \in Fn
    /\ a \in DOMAIN abi.edges[k].args \cap InRegister(abi.edges[k].callee)
    /\ a \notin DOMAIN abi.edges[k].rets
    /\ abi.pins[f][ParamVreg(f, p)] = NONE

\* Where a vreg is passed.
LEMMA PassedOnIs ==
    ASSUME abi \in AbiType, NEW f, NEW p, NEW k, NEW b
    PROVE  <<k, b>> \in PassedOn(f, p) <=>
              /\ k \in 1 .. Len(abi.edges) /\ abi.edges[k].caller = f
              /\ \/ b \in DOMAIN abi.edges[k].args /\ abi.edges[k].args[b] = ParamVreg(f, p)
                 \/ b \in DOMAIN abi.edges[k].rets /\ abi.edges[k].rets[b] = ParamVreg(f, p)
<1> DEFINE v == ParamVreg(f, p)
           here(m) == {b2 \in DOMAIN abi.edges[m].args : abi.edges[m].args[b2] = v}
                      \cup {b2 \in DOMAIN abi.edges[m].rets : abi.edges[m].rets[b2] = v}
           part(m) == {<<m, a>> : a \in here(m)}
           K == {m \in DOMAIN abi.edges : abi.edges[m].caller = f}
<1>1. DOMAIN abi.edges = 1 .. Len(abi.edges)
  BY AbiFields
<1>2. PassedOn(f, p) = UNION {part(m) : m \in K}
  BY DEF PassedOn, ParamVreg
<1> HIDE DEF here
<1>3. <<k, b>> \in PassedOn(f, p) <=> k \in K /\ b \in here(k)
  <2>1. ASSUME <<k, b>> \in PassedOn(f, p) PROVE k \in K /\ b \in here(k)
    <3>1. PICK m \in K : <<k, b>> \in part(m)
      BY <1>2, <2>1
    <3>2. QED
      BY <3>1
  <2>2. ASSUME k \in K, b \in here(k) PROVE <<k, b>> \in PassedOn(f, p)
    <3>1. <<k, b>> \in part(k)
      BY <2>2
    <3> HIDE DEF part, K
    <3>2. QED
      BY <1>2, <2>2, <3>1
  <2>3. QED
    BY <2>1, <2>2
<1>4. QED
  BY <1>1, <1>3 DEF here

\* It is told what its one callee takes, and nothing else.
LEMMA TellPasser ==
    ASSUME abi \in AbiType, prefer \in [Fn -> Wishes], NEW callees, NEW takes, NEW gives,
           \A c \in callees : takes[c] \in Seq(Choice) /\ gives[c] \in Seq(Choice),
           TellCallers(callees, takes, gives),
           NEW f, NEW p, NEW k, NEW a, Passer(f, p, k, a),
           NEW c, c = abi.edges[k].callee, NEW v, v = ParamVreg(f, p)
    PROVE  /\ prefer[f][v] # NONE \/ c \notin callees => prefer'[f][v] = prefer[f][v]
           /\ /\ c \in callees /\ prefer[f][v] = NONE
              /\ a \in DOMAIN takes[c] /\ Wanted(takes[c][a])
              => prefer'[f][v] = takes[c][a]
<1>1. PICK ws : ws = AllHanded(takes, gives)
  OBVIOUS
<1>2. Spread(ws, callees, Len(abi.edges), prefer, prefer')
  BY <1>1, TellCallersIs
<1>3. f \in Fn /\ v \in Vreg /\ k \in 1 .. Len(abi.edges)
  <2>1. f \in Fn /\ p \in Params(f) /\ k \in 1 .. Len(abi.edges)
    BY DEF Passer, InRegister
  <2>2. QED
    BY <2>1, ParamFields DEF ParamVreg
<1>4. /\ prefer[f][v] # NONE => prefer'[f][v] = prefer[f][v]
      /\ \/ prefer'[f][v] = prefer[f][v]
         \/ \E m \in 1 .. Len(abi.edges) :
               /\ abi.edges[m].caller = f /\ abi.edges[m].callee \in callees
               /\ \E j \in 1 .. Len(ws[m]) : ws[m][j][1] = v /\ ws[m][j][2] = prefer'[f][v]
      /\ abi.edges[k].caller = f /\ abi.edges[k].callee \in callees =>
            \A j \in 1 .. Len(ws[k]) : ws[k][j][1] = v /\ Wanted(ws[k][j][2])
                                       => prefer'[f][v] # NONE
  BY <1>2, <1>3 DEF Spread
<1>5. \A m \in 1 .. Len(abi.edges) : abi.edges[m] \in Edge
  BY AbiFields
<1>6. ASSUME NEW m \in 1 .. Len(abi.edges), abi.edges[m].caller = f,
             abi.edges[m].callee \in callees,
             NEW j \in 1 .. Len(ws[m]), ws[m][j][1] = v, ws[m][j][2] # NONE
      PROVE  m = k /\ a \in DOMAIN takes[c] /\ takes[c][a] = ws[m][j][2]
  <2>1. PICK e, t, g : e = abi.edges[m] /\ t = takes[e.callee] /\ g = gives[e.callee]
    OBVIOUS
  <2>2. e \in Edge /\ t \in Seq(Choice) /\ g \in Seq(Choice) /\ ws[m] = Handed(e, t, g)
    BY <1>1, <1>5, <1>6, <2>1 DEF AllHanded
  <2>3. \/ \E b \in DOMAIN e.args \cap DOMAIN t : e.args[b] = v /\ t[b] = ws[m][j][2]
        \/ \E b \in DOMAIN e.rets : e.rets[b] = v
    BY <1>6, <2>2, HandedAt
  <2>4. ASSUME NEW b, \/ b \in DOMAIN e.args /\ e.args[b] = v
                      \/ b \in DOMAIN e.rets /\ e.rets[b] = v
        PROVE  m = k /\ b = a
    <3>1. <<m, b>> \in PassedOn(f, p)
      BY <1>6, <2>1, <2>4, PassedOnIs
    <3>2. <<m, b>> = <<k, a>>
      BY <3>1 DEF Passer
    <3>3. QED
      BY <3>2
  <2>5. CASE \E b \in DOMAIN e.args \cap DOMAIN t : e.args[b] = v /\ t[b] = ws[m][j][2]
    <3>1. PICK b \in DOMAIN e.args \cap DOMAIN t : e.args[b] = v /\ t[b] = ws[m][j][2]
      BY <2>5
    <3>2. m = k /\ b = a
      BY <2>4, <3>1
    <3>3. QED
      BY <2>1, <3>1, <3>2
  <2>6. CASE \E b \in DOMAIN e.rets : e.rets[b] = v
    <3>1. PICK b \in DOMAIN e.rets : e.rets[b] = v
      BY <2>6
    <3>2. m = k /\ b = a
      BY <2>4, <3>1
    <3>3. a \in DOMAIN abi.edges[k].rets
      BY <2>1, <3>1, <3>2
    <3>4. QED
      BY <3>3 DEF Passer
  <2>7. QED
    BY <2>3, <2>5, <2>6
<1>7. ASSUME c \notin callees PROVE prefer'[f][v] = prefer[f][v]
  <2>1. SUFFICES ASSUME prefer'[f][v] # prefer[f][v] PROVE FALSE
    OBVIOUS
  <2>2. PICK m \in 1 .. Len(abi.edges) :
               /\ abi.edges[m].caller = f /\ abi.edges[m].callee \in callees
               /\ \E j \in 1 .. Len(ws[m]) : ws[m][j][1] = v /\ ws[m][j][2] = prefer'[f][v]
    BY <1>4, <2>1
  <2>3. PICK j \in 1 .. Len(ws[m]) : ws[m][j][1] = v /\ ws[m][j][2] = prefer'[f][v]
    BY <2>2
  <2>4. CASE prefer'[f][v] # NONE
    <3>1. m = k
      BY <1>6, <2>2, <2>3, <2>4
    <3>2. QED
      BY <1>7, <2>2, <3>1
  <2>5. CASE prefer'[f][v] = NONE
    BY <1>4, <2>1, <2>5
  <2>6. QED
    BY <2>4, <2>5
<1>8. ASSUME c \in callees, prefer[f][v] = NONE, a \in DOMAIN takes[c], Wanted(takes[c][a])
      PROVE  prefer'[f][v] = takes[c][a]
  <2>1. abi.edges[k].caller = f /\ a \in DOMAIN abi.edges[k].args /\ abi.edges[k].args[a] = v
    <3>1. <<k, a>> \in PassedOn(f, p) /\ a \notin DOMAIN abi.edges[k].rets
      BY DEF Passer
    <3>2. QED
      BY <3>1, PassedOnIs
  <2>2. ws[k] = Handed(abi.edges[k], takes[c], gives[c])
    BY <1>1, <1>3 DEF AllHanded
  <2>3. \E j \in 1 .. Len(ws[k]) : ws[k][j][1] = abi.edges[k].args[a] /\ ws[k][j][2] = takes[c][a]
    <3>1. abi.edges[k] \in Edge /\ takes[c] \in Seq(Choice) /\ gives[c] \in Seq(Choice)
      BY <1>3, <1>5, <1>8
    <3>2. a \in DOMAIN abi.edges[k].args \cap DOMAIN takes[c]
      BY <1>8, <2>1
    <3>3. PICK e, t, g, w : e = abi.edges[k] /\ t = takes[c] /\ g = gives[c] /\ w = ws[k]
      OBVIOUS
    <3>4. e \in Edge /\ t \in Seq(Choice) /\ g \in Seq(Choice) /\ w = Handed(e, t, g)
          /\ a \in DOMAIN e.args \cap DOMAIN t
      BY <2>2, <3>1, <3>2, <3>3
    <3>5. \E j \in 1 .. Len(w) : w[j][1] = e.args[a] /\ w[j][2] = t[a]
      <4>1. \A b \in DOMAIN e.args \cap DOMAIN t :
                \E j \in 1 .. Len(w) : w[j][1] = e.args[b] /\ w[j][2] = t[b]
        BY ONLY <3>4, HandedAt, SMTT(30)
      <4>2. QED
        BY ONLY <3>4, <4>1
    <3>6. QED
      BY <3>3, <3>5
  <2>4. prefer'[f][v] # NONE
    BY <1>4, <1>8, <2>1, <2>3
  <2>5. PICK m \in 1 .. Len(abi.edges) :
               /\ abi.edges[m].caller = f /\ abi.edges[m].callee \in callees
               /\ \E j \in 1 .. Len(ws[m]) : ws[m][j][1] = v /\ ws[m][j][2] = prefer'[f][v]
    BY <1>4, <1>8, <2>4
  <2>6. PICK j \in 1 .. Len(ws[m]) : ws[m][j][1] = v /\ ws[m][j][2] = prefer'[f][v]
    BY <2>5
  <2>7. QED
    BY <1>6, <2>4, <2>5, <2>6
<1>9. QED
  BY <1>4, <1>7, <1>8

-----------------------------------------------------------------------------
(* Every function in its turn. *)

\* The loop over topo_order begins when the order is complete; functions whose
\* turn has not come have no parameter registers.
TurnInv ==
    /\ step = "externs" => ti = 1
    /\ step # "externs" => pc \in {"clobbers", "done"} \/ (pc = "rest" /\ i = NF + 1)
    /\ step = "resolved" => ti > Len(topo_order)
    /\ \A f \in Fn \ Treated : \A p \in Params(f) : param_regs[f][p] = NONE
    /\ SameCalls(prog, abi)

\* The steps of propagate_preferences(): a wish of the externs is told, the
\* registers of one function are chosen, its callers are told, or all is settled.
TellsExterns ==
    /\ TellCallers(Ext, abi.takes, abi.rets)
    /\ step = "externs" /\ Told' = {} /\ Treated' = {} /\ Told = {} /\ Treated = {}
    /\ UNCHANGED <<param_regs, is_seg>> /\ step' # "resolved"
ChoosesRow ==
    /\ This \in Fn \ Told /\ Told' = Told /\ Treated' = Told \cup {This}
    /\ ti <= Len(topo_order) /\ step \in {"honour", "moves", "free"} /\ step' # "resolved"
    /\ UNCHANGED <<prefer, is_seg>>
    /\ \E regs \in KeptRows(This, param_regs[This]) :
          /\ param_regs' = [param_regs EXCEPT ![This] = regs]
          /\ \/ Treated = Told \cup {This}
             \/ \A p \in InRegister(This) :
                   param_regs[This][p] = NONE /\ Prefers(This, p) # NONE =>
                       Satisfied(This, regs, p, Prefers(This, p))
TellsOthers ==
    /\ This \in Fn \ Told /\ Treated = Told \cup {This}
    /\ Told' = Told \cup {This} /\ Treated' = Treated
    /\ ti <= Len(topo_order) /\ step = "tell" /\ step' # "resolved"
    /\ TellCallers({This}, param_regs, abi.rets) /\ is_seg' = SegsTold(This)
    /\ UNCHANGED param_regs
SettlesAll ==
    /\ step = "honour" /\ step' = "resolved"
    /\ Told' = Told /\ Treated' = Treated /\ UNCHANGED <<param_regs, is_seg>>

\* Every step of propagate_preferences() is one of these.
LEMMA PreferMoves ==
    ASSUME TypeOK, PreferInv, SettledInv, TurnInv, PreferStep
    PROVE  /\ TellsExterns \/ ChoosesRow \/ TellsOthers \/ SettlesAll
           /\ UNCHANGED <<prog, topo_order, abi>>
<1>0. UNCHANGED <<prog, topo_order, abi>>
  BY DEF PreferStep, PropagateExterns, HonourPreferences, FollowMoves, TakeFree, Propagate, Settle,
         vars
<1>1. /\ ti \in 1 .. NF + 1 /\ NF \in Nat /\ \A f \in Fn : param_regs[f] \in Settled(f, favoured[f])
      /\ step \in {"moves", "free", "tell"} => ti <= Len(topo_order)
  BY NFAssumption DEF PreferInv, SettledInv
<1>2. ti' = ti => Told' = Told /\ This' = This
  BY <1>0 DEF Told, This
<1>3. CASE PropagateExterns
  <2>1. /\ TellCallers(Ext, abi.takes, abi.rets) /\ step = "externs" /\ step' = "honour"
        /\ UNCHANGED <<ti, param_regs, is_seg>>
    BY <1>3 DEF PropagateExterns, Resolving
  <2>2. ti = 1 /\ 1 .. 0 = {} /\ ti - 1 = 0
    BY <2>1 DEF TurnInv
  <2>3. Told = {}
    BY <2>2 DEF Told
  <2>4. Treated = {} /\ Told' = {} /\ Treated' = {}
    BY <1>2, <2>1, <2>3 DEF Treated
  <2>5. TellsExterns
    BY <2>1, <2>3, <2>4 DEF TellsExterns
  <2>6. QED
    BY <1>0, <2>5
<1>4. CASE HonourPreferences
  <2>1. /\ step = "honour" /\ step' = "moves" /\ ti <= Len(topo_order)
        /\ UNCHANGED <<ti, prefer, is_seg>>
    BY <1>4 DEF HonourPreferences, Resolving
  <2>2. This \in Fn \ Told
    BY <1>1, <2>1, ThisIsNew
  <2>3. PICK regs \in KeptRows(This, param_regs[This]) :
            /\ Assign(regs)
            /\ \A p \in InRegister(This) :
                  param_regs[This][p] = NONE /\ Prefers(This, p) # NONE =>
                      Satisfied(This, regs, p, Prefers(This, p))
    BY <1>1, <1>4, Honoured
  <2>4. Told' = Told /\ Treated' = Told \cup {This}
    BY <1>2, <2>1 DEF Treated
  <2>5. ChoosesRow
    BY <2>1, <2>2, <2>3, <2>4 DEF ChoosesRow, Assign
  <2>6. QED
    BY <1>0, <2>5
<1>5. CASE FollowMoves
  <2>1. /\ step = "moves" /\ step' = "free" /\ ti <= Len(topo_order)
        /\ UNCHANGED <<ti, prefer, is_seg>>
    BY <1>1, <1>5 DEF FollowMoves, Resolving
  <2>2. This \in Fn \ Told
    BY <1>1, <2>1, ThisIsNew
  <2>3. PICK regs \in KeptRows(This, param_regs[This]) : Assign(regs)
    BY <1>1, <1>5, Followed
  <2>4. Told' = Told /\ Treated' = Told \cup {This} /\ Treated = Told \cup {This}
    BY <1>2, <2>1 DEF Treated
  <2>5. ChoosesRow
    BY <2>1, <2>2, <2>3, <2>4 DEF ChoosesRow, Assign
  <2>6. QED
    BY <1>0, <2>5
<1>6. CASE TakeFree
  <2>1. /\ step = "free" /\ step' = "tell" /\ ti <= Len(topo_order)
        /\ UNCHANGED <<ti, prefer, is_seg>>
    BY <1>1, <1>6 DEF TakeFree, Resolving
  <2>2. This \in Fn \ Told
    BY <1>1, <2>1, ThisIsNew
  <2>3. PICK regs \in KeptRows(This, param_regs[This]) :
            param_regs' = [param_regs EXCEPT ![This] = regs]
    BY <1>1, <1>6, Taken
  <2>4. Told' = Told /\ Treated' = Told \cup {This} /\ Treated = Told \cup {This}
    BY <1>2, <2>1 DEF Treated
  <2>5. ChoosesRow
    BY <2>1, <2>2, <2>3, <2>4 DEF ChoosesRow
  <2>6. QED
    BY <1>0, <2>5
<1>7. CASE Propagate
  <2>1. /\ TellCallers({This}, param_regs, abi.rets) /\ is_seg' = SegsTold(This)
        /\ ti' = ti + 1 /\ step = "tell" /\ step' = "honour" /\ ti <= Len(topo_order)
        /\ UNCHANGED param_regs
    BY <1>1, <1>7 DEF Propagate, Resolving
  <2>2. This \in Fn \ Told /\ Told \cup {This} = {topo_order[j] : j \in 1 .. ti}
    BY <1>1, <2>1, ThisIsNew
  <2>3. Told' = {topo_order[j] : j \in 1 .. ti}
    <3>1. ti' - 1 = ti
      BY <1>1, <2>1
    <3>2. QED
      BY <1>0, <3>1 DEF Told
  <2>4. Treated = Told \cup {This} /\ Treated' = Told'
    BY <2>1 DEF Treated
  <2>5. TellsOthers
    BY <2>1, <2>2, <2>3, <2>4 DEF TellsOthers
  <2>6. QED
    BY <1>0, <2>5
<1>8. CASE Settle
  <2>1. /\ step = "honour" /\ step' = "resolved" /\ UNCHANGED <<ti, param_regs, is_seg>>
    BY <1>8 DEF Settle, Resolving
  <2>2. Treated = Told /\ Treated' = Told' /\ Told' = Told
    BY <1>2, <2>1 DEF Treated
  <2>3. SettlesAll
    BY <2>1, <2>2 DEF SettlesAll
  <2>4. QED
    BY <1>0, <2>3
<1>9. QED
  BY <1>3, <1>4, <1>5, <1>6, <1>7, <1>8 DEF PreferStep

\* What depends on the program only.
LEMMA PassersKept ==
    ASSUME UNCHANGED <<prog, topo_order, abi>>
    PROVE  /\ \A f, p, k, a : Passer(f, p, k, a)' <=> Passer(f, p, k, a)
           /\ \A f : Prompt(f)' <=> Prompt(f)
           /\ \A f : Params(f)' = Params(f) /\ InRegister(f)' = InRegister(f)
           /\ \A f, p : ParamVreg(f, p)' = ParamVreg(f, p)
           /\ \A f, regs, p, r : Satisfied(f, regs, p, r)' <=> Satisfied(f, regs, p, r)
<1>1. UNCHANGED <<prog, topo_order, abi>>
  OBVIOUS
<1>2. \A f : Prompt(f)' <=> Prompt(f)
  BY <1>1 DEF Prompt, Early, First, Callees
<1>3. /\ \A f : Params(f)' = Params(f) /\ InRegister(f)' = InRegister(f)
      /\ \A f, p : ParamVreg(f, p)' = ParamVreg(f, p)
      /\ \A f, p : PassedOn(f, p)' = PassedOn(f, p)
      /\ \A f, regs, p, r : Satisfied(f, regs, p, r)' <=> Satisfied(f, regs, p, r)
  BY <1>1 DEF Params, InRegister, ParamVreg, PassedOn, Satisfied
<1>4. \A f, p, k, a : Passer(f, p, k, a)' <=> Passer(f, p, k, a)
  BY <1>1, <1>3 DEF Passer
<1>5. QED
  BY <1>2, <1>3, <1>4

\* The register the callee of an edge takes its argument in.
Theirs(k, a) == param_regs[abi.edges[k].callee][a]

\* Until the callee has had its turn the vreg has no preference, then the callee's.
HearInv ==
    step # "resolved" =>
        \A f, p, k, a : Passer(f, p, k, a) =>
            /\ abi.edges[k].callee \notin Told => prefer[f][ParamVreg(f, p)] = NONE
            /\ abi.edges[k].callee \in Told /\ Wanted(Theirs(k, a))
               => prefer[f][ParamVreg(f, p)] = Theirs(k, a)

\* A function whose callees had their turn before it gives the parameter that
\* register, or shares it out.
GotInv ==
    \A f, p, k, a :
        Passer(f, p, k, a) /\ f \in Treated /\ Prompt(f) /\ Wanted(Theirs(k, a)) =>
            Satisfied(f, param_regs[f], p, Theirs(k, a))

\* What is passed on is passed to a function the caller calls.
LEMMA PasserTypes ==
    ASSUME PreferInv, TurnInv, NEW f, NEW p, NEW k, NEW a, Passer(f, p, k, a)
    PROVE  /\ f \in Fn /\ p \in InRegister(f) /\ p \in Params(f)
           /\ abi.edges[k].callee \in Fn /\ a \in Params(abi.edges[k].callee)
           /\ abi.edges[k].callee \in Callees(f)
           /\ DOMAIN param_regs[abi.edges[k].callee] = Params(abi.edges[k].callee)
<1>1. <<k, a>> \in PassedOn(f, p) /\ abi \in AbiType
  BY DEF Passer, PreferInv
<1>2. abi.edges[k].caller = f /\ k \in 1 .. Len(abi.edges)
  BY <1>1, PassedOnIs
<1>3. k \in DOMAIN abi.edges
  BY <1>1, <1>2, AbiFields
<1>4. abi.edges[k].callee \in prog.calls[f] \cup prog.tails[f]
  BY <1>2, <1>3 DEF TurnInv, SameCalls
<1>5. QED
  BY <1>4 DEF Passer, InRegister, Callees, PreferInv, Grants, Params

\* Telling callers reaches the vregs that pass a parameter on, once.
LEMMA HearNext ==
    ASSUME TypeOK, PreferInv, SettledInv, TurnInv, HearInv, PreferStep
    PROVE  HearInv'
<1>0. /\ TellsExterns \/ ChoosesRow \/ TellsOthers \/ SettlesAll
      /\ UNCHANGED <<prog, topo_order, abi>>
  BY PreferMoves
<1>1. /\ abi \in AbiType /\ prefer \in [Fn -> Wishes] /\ DOMAIN param_regs = Fn
      /\ \A g \in Fn : param_regs[g] \in Grants(g) /\ param_regs[g] \in Seq(Choice)
      /\ \A g \in Fn \cup Ext : abi.rets[g] \in Seq(Choice)
      /\ \A g \in Ext : abi.takes[g] \in Seq(Choice)
  <2>1. abi \in AbiType /\ prefer \in [Fn -> Wishes] /\ DOMAIN param_regs = Fn
        /\ \A g \in Fn : param_regs[g] \in Grants(g)
    BY DEF PreferInv
  <2>2. QED
    BY <2>1, AbiFields, ParamFields
<1>2. SUFFICES ASSUME step' # "resolved", NEW f, NEW p, NEW k, NEW a, Passer(f, p, k, a)
      PROVE  /\ abi.edges[k].callee \notin Told' => prefer'[f][ParamVreg(f, p)] = NONE
             /\ abi.edges[k].callee \in Told' /\ Wanted(Theirs(k, a)')
                => prefer'[f][ParamVreg(f, p)] = Theirs(k, a)'
  <2>1. SUFFICES ASSUME step' # "resolved", NEW f, NEW p, NEW k, NEW a, Passer(f, p, k, a)'
        PROVE  /\ abi'.edges[k].callee \notin Told' => prefer'[f][ParamVreg(f, p)'] = NONE
               /\ abi'.edges[k].callee \in Told' /\ Wanted(Theirs(k, a)')
                  => prefer'[f][ParamVreg(f, p)'] = Theirs(k, a)'
    BY DEF HearInv, Wanted
  <2>2. Passer(f, p, k, a) /\ ParamVreg(f, p)' = ParamVreg(f, p) /\ abi' = abi
    BY <1>0, <2>1, PassersKept
  <2>3. QED
    BY <1>2, <2>1, <2>2
<1>3. PICK c, v : c = abi.edges[k].callee /\ v = ParamVreg(f, p)
  OBVIOUS
<1>4. c \in Fn /\ a \in Params(c) /\ DOMAIN param_regs[c] = Params(c)
  BY <1>2, <1>3, PasserTypes
<1>5. /\ step # "resolved"
      /\ Theirs(k, a) = param_regs[c][a] /\ Theirs(k, a)' = param_regs'[c][a]
  BY <1>0, <1>2, <1>3 DEF Theirs, TellsExterns, ChoosesRow, TellsOthers, SettlesAll
<1>6. /\ c \notin Told => prefer[f][v] = NONE
      /\ c \in Told /\ Wanted(param_regs[c][a]) => prefer[f][v] = param_regs[c][a]
  BY <1>2, <1>3, <1>5 DEF HearInv
<1>7. SUFFICES /\ c \notin Told' => prefer'[f][v] = NONE
               /\ c \in Told' /\ Wanted(param_regs'[c][a]) => prefer'[f][v] = param_regs'[c][a]
  BY <1>3, <1>5
<1>8. CASE TellsExterns
  <2>1. TellCallers(Ext, abi.takes, abi.rets) /\ Told' = {} /\ Told = {}
    BY <1>8 DEF TellsExterns
  <2>2. c \notin Ext
    BY <1>4, ProgramsAssumption
  <2>3. \A g \in Ext : abi.takes[g] \in Seq(Choice) /\ abi.rets[g] \in Seq(Choice)
    BY <1>1
  <2>4. PICK C, t, g : C = Ext /\ t = abi.takes /\ g = abi.rets
    OBVIOUS
  <2>5. /\ \A e \in C : t[e] \in Seq(Choice) /\ g[e] \in Seq(Choice)
        /\ TellCallers(C, t, g) /\ c \notin C
        /\ abi \in AbiType /\ prefer \in [Fn -> Wishes] /\ Passer(f, p, k, a)
    BY <1>1, <1>2, <2>1, <2>2, <2>3, <2>4
  <2>6. prefer'[f][v] = prefer[f][v]
    BY ONLY <1>3, <2>5, TellPasser
  <2>7. QED
    BY <1>6, <2>1, <2>6
<1>9. CASE ChoosesRow
  <2>1. This \in Fn \ Told /\ Told' = Told /\ prefer' = prefer
        /\ \E regs : param_regs' = [param_regs EXCEPT ![This] = regs]
    BY <1>9 DEF ChoosesRow
  <2>2. c \in Told => param_regs'[c] = param_regs[c]
    BY <1>1, <1>4, <2>1
  <2>3. QED
    BY <1>6, <2>1, <2>2
<1>10. CASE TellsOthers
  <2>1. /\ This \in Fn \ Told /\ Told' = Told \cup {This}
        /\ TellCallers({This}, param_regs, abi.rets) /\ param_regs' = param_regs
    BY <1>10 DEF TellsOthers
  <2>2. \A g \in {This} : param_regs[g] \in Seq(Choice) /\ abi.rets[g] \in Seq(Choice)
    BY <1>1, <2>1
  <2>3. PICK C, t, g : C = {This} /\ t = param_regs /\ g = abi.rets
    OBVIOUS
  <2>4. /\ \A e \in C : t[e] \in Seq(Choice) /\ g[e] \in Seq(Choice)
        /\ TellCallers(C, t, g)
        /\ abi \in AbiType /\ prefer \in [Fn -> Wishes] /\ Passer(f, p, k, a)
    BY <1>1, <1>2, <2>1, <2>2, <2>3
  <2>5. /\ prefer[f][v] # NONE \/ c \notin C => prefer'[f][v] = prefer[f][v]
        /\ /\ c \in C /\ prefer[f][v] = NONE
           /\ a \in DOMAIN t[c] /\ Wanted(t[c][a])
           => prefer'[f][v] = t[c][a]
    BY ONLY <1>3, <2>4, TellPasser
  <2>6. /\ prefer[f][v] # NONE \/ c \notin C => prefer'[f][v] = prefer[f][v]
        /\ /\ c \in C /\ prefer[f][v] = NONE
           /\ a \in DOMAIN param_regs[c] /\ Wanted(param_regs[c][a])
           => prefer'[f][v] = param_regs[c][a]
    BY <2>3, <2>5
  <2>7. CASE c \notin Told \cup {This}
    BY <1>6, <2>1, <2>3, <2>6, <2>7
  <2>8. CASE c \in Told
    <3>1. Wanted(param_regs[c][a]) => prefer[f][v] = param_regs[c][a] /\ prefer[f][v] # NONE
      BY <1>6, <2>8 DEF Wanted
    <3>2. QED
      BY <2>1, <2>6, <2>8, <3>1
  <2>9. CASE c = This
    <3>1. prefer[f][v] = NONE
      BY <1>6, <2>1, <2>9
    <3>2. QED
      BY <1>4, <2>1, <2>3, <2>6, <2>9, <3>1
  <2>10. QED
    BY <2>7, <2>8, <2>9
<1>11. CASE SettlesAll
  BY <1>2, <1>11 DEF SettlesAll
<1>12. QED
  BY <1>0, <1>8, <1>9, <1>10, <1>11

\* A function places its parameters when its callees have told it their wishes.
LEMMA GotNext ==
    ASSUME TypeOK, PreferInv, SettledInv, TurnInv, HearInv, GotInv, PreferStep
    PROVE  GotInv'
<1>0. /\ TellsExterns \/ ChoosesRow \/ TellsOthers \/ SettlesAll
      /\ UNCHANGED <<prog, topo_order, abi>>
  BY PreferMoves
<1>1. SUFFICES ASSUME NEW f, NEW p, NEW k, NEW a, Passer(f, p, k, a), f \in Treated', Prompt(f),
                      Wanted(Theirs(k, a)')
               PROVE  Satisfied(f, param_regs'[f], p, Theirs(k, a)')
  <2>1. SUFFICES ASSUME NEW f, NEW p, NEW k, NEW a, Passer(f, p, k, a)', f \in Treated', Prompt(f)',
                        Wanted(Theirs(k, a)')
                 PROVE  Satisfied(f, param_regs[f], p, Theirs(k, a))'
    BY DEF GotInv, Wanted
  <2>2. Passer(f, p, k, a) /\ Prompt(f) /\ Params(f)' = Params(f)
    BY <1>0, <2>1, PassersKept
  <2>3. Satisfied(f, param_regs'[f], p, Theirs(k, a)')
    BY <1>1, <2>1, <2>2
  <2>4. QED
    BY <2>2, <2>3 DEF Satisfied
<1>2. PICK c, v : c = abi.edges[k].callee /\ v = ParamVreg(f, p)
  OBVIOUS
<1>3. /\ f \in Fn /\ p \in InRegister(f) /\ p \in Params(f) /\ c \in Fn /\ c \in Callees(f)
      /\ ti \in 1 .. NF + 1 /\ DOMAIN param_regs = Fn
  BY <1>1, <1>2, PasserTypes DEF PreferInv
<1>4. Theirs(k, a) = param_regs[c][a] /\ Theirs(k, a)' = param_regs'[c][a]
  BY <1>0, <1>2 DEF Theirs
<1>5. f \in Treated /\ Wanted(param_regs[c][a]) => Satisfied(f, param_regs[f], p, param_regs[c][a])
  BY <1>1, <1>4 DEF GotInv
<1>6. CASE ChoosesRow
  <2>1. PICK regs \in KeptRows(This, param_regs[This]) :
          /\ param_regs' = [param_regs EXCEPT ![This] = regs]
          /\ \/ Treated = Told \cup {This}
             \/ \A q \in InRegister(This) :
                   param_regs[This][q] = NONE /\ Prefers(This, q) # NONE =>
                       Satisfied(This, regs, q, Prefers(This, q))
    BY <1>6 DEF ChoosesRow
  <2>2. /\ This \in Fn \ Told /\ Treated' = Told \cup {This} /\ ti <= Len(topo_order)
        /\ step # "resolved"
    BY <1>6 DEF ChoosesRow
  <2>3. f \in Told \/ f = This
    BY <1>1, <2>2
  <2>4. c \in Told
    BY <1>1, <1>3, <2>2, <2>3, PromptCallees
  <2>5. param_regs'[c] = param_regs[c] /\ c # This
    BY <1>3, <2>1, <2>2, <2>4
  <2>6. PICK r : r = param_regs[c][a] /\ Wanted(r) /\ r # NONE
    BY <1>1, <1>4, <2>5 DEF Wanted
  <2>7. SUFFICES Satisfied(f, param_regs'[f], p, r)
    BY <1>4, <2>5, <2>6
  <2>8. CASE f # This
    <3>1. param_regs'[f] = param_regs[f] /\ f \in Told
      BY <1>3, <2>1, <2>3, <2>8
    <3>2. f \in Treated
      BY <3>1 DEF Treated
    <3>3. QED
      BY <1>5, <2>6, <3>1, <3>2
  <2>9. CASE f = This
    <3>1. param_regs'[f] = regs
      BY <1>3, <2>1, <2>9
    <3>2. CASE f \in Treated
      <4>1. Satisfied(f, param_regs[f], p, r)
        BY <1>5, <2>6, <3>2
      <4>2. \A q \in Params(f) : param_regs[f][q] # NONE => regs[q] = param_regs[f][q]
        BY <2>9 DEF KeptRows
      <4>3. QED
        BY <1>3, <2>6, <3>1, <4>1, <4>2 DEF Satisfied, pregs_alias
    <3>3. CASE f \notin Treated
      <4>1. param_regs[f][p] = NONE
        BY <1>3, <3>3 DEF TurnInv
      <4>2. prefer[f][v] = r
        BY <1>1, <1>2, <1>4, <2>2, <2>4, <2>6 DEF HearInv
      <4>3. Prefers(f, p) = r
        BY <1>2, <4>2 DEF Prefers, ParamVreg
      <4>4. ~(Treated = Told \cup {This})
        BY <2>9, <3>3
      <4>5. QED
        BY <1>3, <2>1, <2>6, <2>9, <3>1, <4>1, <4>3, <4>4
    <3>4. QED
      BY <3>2, <3>3
  <2>10. QED
    BY <2>8, <2>9
<1>7. CASE TellsExterns \/ TellsOthers \/ SettlesAll
  <2>1. param_regs' = param_regs /\ f \in Treated
    BY <1>1, <1>7 DEF TellsExterns, TellsOthers, SettlesAll
  <2>2. QED
    BY <1>1, <1>4, <1>5, <2>1
<1>8. QED
  BY <1>0, <1>6, <1>7

-----------------------------------------------------------------------------
(* The seg type travels with the wish. *)

\* What the first n arguments of the edge e have made of the seg vregs x.
SegsHeard(e, n, x, y) ==
    /\ \A f \in Fn : x[f] \subseteq y[f]
    /\ \A f \in Fn : f # e.caller => y[f] = x[f]
    /\ \A a \in 1 .. n :
          /\ a \in Params(e.callee) /\ param_regs[e.callee][a] # NONE
          /\ abi.params[e.callee][a].v \in x[e.callee]
          => e.args[a] \in y[e.caller]

\* One argument more.
LEMMA SegHeard ==
    ASSUME NEW e \in Edge, e.callee \in Fn, NEW n \in 1 .. Len(e.args),
           NEW x \in [Fn -> SUBSET Vreg], NEW y \in [Fn -> SUBSET Vreg], SegsHeard(e, n - 1, x, y)
    PROVE  SegTold(y, e, n) \in [Fn -> SUBSET Vreg] /\ SegsHeard(e, n, x, SegTold(y, e, n))
<1>1. e.args \in Seq(Vreg) /\ Len(e.args) \in Nat /\ e.caller \in Fn
  BY DEF Edge
<1>2. e.args[n] \in Vreg /\ n \in Nat /\ 1 .. n = (1 .. n - 1) \cup {n}
  BY <1>1
<1>3. PICK c, g, z : c = e.caller /\ g = e.callee /\ z = SegTold(y, e, n)
  OBVIOUS
<1>4. PICK now : now <=> /\ n \in Params(g) /\ param_regs[g][n] # NONE
                         /\ abi.params[g][n].v \in y[g]
  OBVIOUS
<1>5. z = IF now THEN [y EXCEPT ![c] = @ \cup {e.args[n]}] ELSE y
  BY <1>3, <1>4 DEF SegTold
<1>6. /\ z \in [Fn -> SUBSET Vreg] /\ \A f \in Fn : f # c => z[f] = y[f]
      /\ y[c] \subseteq z[c] /\ (now => e.args[n] \in z[c])
  BY <1>1, <1>2, <1>3, <1>5
<1>7. \A f \in Fn : x[f] \subseteq z[f]
  BY <1>6 DEF SegsHeard
<1>8. \A f \in Fn : f # c => z[f] = x[f]
  BY <1>3, <1>6 DEF SegsHeard
<1>9. ASSUME NEW a \in 1 .. n, a \in Params(g), param_regs[g][a] # NONE,
             abi.params[g][a].v \in x[g]
      PROVE  e.args[a] \in z[c]
  <2>1. CASE a = n
    <3>1. now
      BY <1>3, <1>4, <1>9, <2>1 DEF SegsHeard
    <3>2. QED
      BY <1>6, <2>1, <3>1
  <2>2. CASE a # n
    <3>1. a \in 1 .. n - 1
      BY <1>2, <2>2
    <3>2. e.args[a] \in y[c]
      BY <1>3, <1>9, <3>1 DEF SegsHeard
    <3>3. QED
      BY <1>6, <3>2
  <2>3. QED
    BY <2>1, <2>2
<1>10. SegsHeard(e, n, x, z)
  BY <1>3, <1>7, <1>8, <1>9 DEF SegsHeard
<1>11. QED
  BY <1>3, <1>6, <1>10

\* What the first n edges have made of the seg vregs x, of those that lead to g.
SegsSpread(g, n, x, y) ==
    /\ \A f \in Fn : x[f] \subseteq y[f]
    /\ \A f \in Fn : y[f] = x[f] \/ \E k \in 1 .. n : abi.edges[k].callee = g
                                                       /\ abi.edges[k].caller = f
    /\ \A k \in 1 .. n : abi.edges[k].callee = g =>
          \A a \in 1 .. Len(abi.edges[k].args) :
              /\ a \in Params(g) /\ param_regs[g][a] # NONE
              /\ abi.params[g][a].v \in x[g]
              => abi.edges[k].args[a] \in y[abi.edges[k].caller]

\* All callers of a function learn which of its parameters are seg.
LEMMA SegsToldIs ==
    ASSUME abi \in AbiType, is_seg \in [Fn -> SUBSET Vreg], NEW g \in Fn
    PROVE  SegsSpread(g, Len(abi.edges), is_seg, SegsTold(g))
<1> DEFINE All == [Fn -> SUBSET Vreg]
           one(e) == [y \in (1 .. Len(e.args)) \X All |-> SegTold(y[2], e, y[1])]
           told(segs, k) == IF abi.edges[k].callee = g
                            THEN Iterated(one(abi.edges[k]), segs, Len(abi.edges[k].args))
                            ELSE segs
           N == Len(abi.edges)
<1>1. PICK nxt : nxt = [y \in (1 .. N) \X All |-> told(y[2], y[1])]
  OBVIOUS
<1>2. SegsTold(g) = Iterated(nxt, is_seg, N)
  BY <1>1 DEF SegsTold, Loop
<1>3. N \in Nat /\ \A k \in 1 .. N : abi.edges[k] \in Edge
  BY AbiFields
<1>4. ASSUME NEW e \in Edge, e.callee = g, NEW x \in All
      PROVE  /\ Iterated(one(e), x, Len(e.args)) \in All
             /\ SegsHeard(e, Len(e.args), x, Iterated(one(e), x, Len(e.args)))
  <2>1. PICK h : h = one(e)
    OBVIOUS
  <2>2. Len(e.args) \in Nat
    BY DEF Edge
  <2>3. PICK T : T = [n \in 0 .. Len(e.args) |-> {y \in All : SegsHeard(e, n, x, y)}]
    OBVIOUS
  <2>4. x \in T[0]
    <3>1. 0 \in 0 .. Len(e.args) /\ 1 .. 0 = {}
      BY <2>2
    <3>2. SegsHeard(e, 0, x, x)
      BY <3>1 DEF SegsHeard
    <3>3. QED
      BY <1>4, <2>3, <3>1, <3>2
  <2>5. \A n \in 1 .. Len(e.args) : \A y \in T[n - 1] : h[<<n, y>>] \in T[n]
    <3>1. SUFFICES ASSUME NEW n \in 1 .. Len(e.args), NEW y \in T[n - 1]
                   PROVE  h[<<n, y>>] \in T[n]
      OBVIOUS
    <3>2. n \in 0 .. Len(e.args) /\ n - 1 \in 0 .. Len(e.args)
      BY <2>2
    <3>3. y \in All /\ SegsHeard(e, n - 1, x, y)
      BY <2>3, <3>2
    <3>4. SegTold(y, e, n) \in All /\ SegsHeard(e, n, x, SegTold(y, e, n))
      BY <1>4, <3>3, SegHeard
    <3>5. h[<<n, y>>] = SegTold(y, e, n)
      BY <2>1, <3>3
    <3> HIDE DEF All
    <3>6. QED
      BY <2>3, <3>2, <3>4, <3>5
  <2>6. Iterated(h, x, Len(e.args)) \in T[Len(e.args)]
    BY ONLY <2>2, <2>4, <2>5, IteratedAt
  <2>7. Len(e.args) \in 0 .. Len(e.args)
    BY <2>2
  <2> HIDE DEF All, one
  <2>8. QED
    BY <2>1, <2>3, <2>6, <2>7
<1>5. PICK T : T = [k \in 0 .. N |-> {y \in All : SegsSpread(g, k, is_seg, y)}]
  OBVIOUS
<1>6. is_seg \in T[0]
  <2>1. 0 \in 0 .. N /\ 1 .. 0 = {}
    BY <1>3
  <2>2. SegsSpread(g, 0, is_seg, is_seg)
    BY <2>1 DEF SegsSpread
  <2>3. QED
    BY <1>5, <2>1, <2>2
<1> HIDE DEF one
<1>7. \A k \in 1 .. N : \A y \in T[k - 1] : nxt[<<k, y>>] \in T[k]
  <2>1. SUFFICES ASSUME NEW k \in 1 .. N, NEW y \in T[k - 1] PROVE nxt[<<k, y>>] \in T[k]
    OBVIOUS
  <2>2. k \in 0 .. N /\ k - 1 \in 0 .. N /\ k \in Nat /\ 1 .. k = (1 .. k - 1) \cup {k}
    BY <1>3
  <2>3. y \in All /\ SegsSpread(g, k - 1, is_seg, y)
    BY <1>5, <2>2
  <2>4. PICK e, z : e = abi.edges[k] /\ z = told(y, k)
    OBVIOUS
  <2>5. e \in Edge /\ nxt[<<k, y>>] = z
    BY <1>1, <1>3, <2>3, <2>4
  <2>6. CASE e.callee # g
    <3>1. z = y
      BY <2>4, <2>6
    <3>2. SegsSpread(g, k, is_seg, y)
      BY <2>2, <2>3, <2>4, <2>6 DEF SegsSpread
    <3> HIDE DEF All, told
    <3>3. QED
      BY <1>5, <2>2, <2>3, <2>5, <3>1, <3>2
  <2>7. CASE e.callee = g
    <3>1. z \in All /\ SegsHeard(e, Len(e.args), y, z)
      <4>1. z = Iterated(one(e), y, Len(e.args))
        BY <2>4, <2>7
      <4> HIDE DEF All, told
      <4>2. QED
        BY <1>4, <2>3, <2>5, <2>7, <4>1
    <3>2. \A f \in Fn : is_seg[f] \subseteq y[f] /\ y[f] \subseteq z[f]
      BY <2>3, <3>1 DEF SegsSpread, SegsHeard
    <3>3. \A f \in Fn : z[f] = is_seg[f] \/ \E m \in 1 .. k : abi.edges[m].callee = g
                                                              /\ abi.edges[m].caller = f
      <4>1. \A f \in Fn : f # e.caller => z[f] = y[f]
        BY <3>1 DEF SegsHeard
      <4>2. \A f \in Fn : y[f] = is_seg[f] \/ \E m \in 1 .. k - 1 : abi.edges[m].callee = g
                                                                    /\ abi.edges[m].caller = f
        BY <2>3 DEF SegsSpread
      <4>3. QED
        BY <2>2, <2>4, <2>7, <4>1, <4>2
    <3>4. ASSUME NEW m \in 1 .. k, abi.edges[m].callee = g, NEW a \in 1 .. Len(abi.edges[m].args),
                 a \in Params(g), param_regs[g][a] # NONE, abi.params[g][a].v \in is_seg[g]
          PROVE  abi.edges[m].args[a] \in z[abi.edges[m].caller]
      <4>1. CASE m = k
        BY <2>4, <2>7, <3>1, <3>2, <3>4, <4>1 DEF SegsHeard
      <4>2. CASE m # k
        <5>1. m \in 1 .. k - 1 /\ abi.edges[m].caller \in Fn
          <6>1. m \in 1 .. k - 1 /\ m \in 1 .. N
            BY <1>3, <2>2, <4>2
          <6>2. abi.edges[m] \in Edge
            BY <1>3, <6>1
          <6>3. QED
            BY <6>1, <6>2 DEF Edge
        <5>2. abi.edges[m].args[a] \in y[abi.edges[m].caller]
          BY <2>3, <3>4, <5>1 DEF SegsSpread
        <5>3. QED
          BY <3>2, <5>1, <5>2
      <4>3. QED
        BY <4>1, <4>2
    <3>5. SegsSpread(g, k, is_seg, z)
      <4>1. \A f \in Fn : is_seg[f] \subseteq z[f]
        BY <3>2
      <4> HIDE DEF told, All
      <4>2. QED
        BY <3>3, <3>4, <4>1 DEF SegsSpread
    <3> HIDE DEF All, told
    <3>6. QED
      BY <1>5, <2>2, <2>5, <3>1, <3>5
  <2>8. QED
    BY <2>6, <2>7
<1>8. Iterated(nxt, is_seg, N) \in T[N]
  BY ONLY <1>3, <1>6, <1>7, IteratedAt
<1>9. N \in 0 .. N
  BY <1>3
<1> HIDE DEF All
<1>10. QED
  BY <1>2, <1>5, <1>8, <1>9

\* A told function has told its callers which of its parameters are seg; it was
\* told by its own callees before, and learns nothing new.
SegsInv ==
    \A k \in 1 .. Len(abi.edges) :
        /\ abi.edges[k].callee \in Fn \cap Told /\ Prompt(abi.edges[k].caller)
        => \A a \in DOMAIN abi.edges[k].args \cap InRegister(abi.edges[k].callee) :
              /\ ParamVreg(abi.edges[k].callee, a) \in is_seg[abi.edges[k].callee]
              /\ Theirs(k, a) # NONE
              => abi.edges[k].args[a] \in is_seg[abi.edges[k].caller]

\* The callers of a function learn of its seg parameters in its turn, and those are final.
LEMMA SegsNext ==
    ASSUME TypeOK, PreferInv, SettledInv, TurnInv, SegsInv, PreferStep
    PROVE  SegsInv'
<1>0. /\ TellsExterns \/ ChoosesRow \/ TellsOthers \/ SettlesAll
      /\ UNCHANGED <<prog, topo_order, abi>>
  BY PreferMoves
<1>1. SUFFICES ASSUME NEW k \in 1 .. Len(abi.edges), NEW e, e = abi.edges[k],
                      e.callee \in Fn \cap Told', Prompt(e.caller),
                      NEW a \in DOMAIN e.args \cap InRegister(e.callee),
                      ParamVreg(e.callee, a) \in is_seg'[e.callee],
                      param_regs'[e.callee][a] # NONE
               PROVE  e.args[a] \in is_seg'[e.caller]
  <2>1. /\ \A f : Prompt(f)' <=> Prompt(f)
        /\ \A f : InRegister(f)' = InRegister(f)
        /\ \A f, p : ParamVreg(f, p)' = ParamVreg(f, p)
        /\ \A k, a : Theirs(k, a)' = param_regs'[abi.edges[k].callee][a]
        /\ abi' = abi
    BY <1>0, PassersKept DEF Theirs
  <2>2. SUFFICES ASSUME NEW k \in 1 .. Len(abi.edges),
                        abi.edges[k].callee \in Fn \cap Told', Prompt(abi.edges[k].caller),
                        NEW a \in DOMAIN abi.edges[k].args \cap InRegister(abi.edges[k].callee),
                        ParamVreg(abi.edges[k].callee, a) \in is_seg'[abi.edges[k].callee],
                        param_regs'[abi.edges[k].callee][a] # NONE
                 PROVE  abi.edges[k].args[a] \in is_seg'[abi.edges[k].caller]
    BY <2>1 DEF SegsInv
  <2>3. PICK e : e = abi.edges[k]
    OBVIOUS
  <2>4. QED
    BY <1>1, <2>2, <2>3
<1>2. PICK c, f : c = e.callee /\ f = e.caller
  OBVIOUS
<1>3. /\ abi \in AbiType /\ is_seg \in [Fn -> SUBSET Vreg] /\ DOMAIN param_regs = Fn
      /\ ti \in 1 .. NF + 1 /\ e \in Edge /\ k \in DOMAIN abi.edges
      /\ DOMAIN e.args = 1 .. Len(e.args)
  <2>1. /\ abi \in AbiType /\ is_seg \in [Fn -> SUBSET Vreg] /\ DOMAIN param_regs = Fn
        /\ ti \in 1 .. NF + 1
    BY DEF PreferInv
  <2>2. e \in Edge /\ k \in DOMAIN abi.edges
    BY <1>1, <2>1, AbiFields
  <2>3. e.args \in Seq(Vreg)
    BY <2>2 DEF Edge
  <2>4. QED
    BY <2>1, <2>2, <2>3
<1>4. f \in Fn /\ c \in Fn /\ c \in Callees(f)
  BY <1>1, <1>2, <1>3 DEF Edge, TurnInv, SameCalls, Callees
<1>5. /\ c \in Told /\ ParamVreg(c, a) \in is_seg[c] /\ param_regs[c][a] # NONE
      => e.args[a] \in is_seg[f]
  BY <1>1, <1>2, <1>4 DEF SegsInv, Theirs
<1>6. CASE TellsExterns
  BY <1>1, <1>6 DEF TellsExterns
<1>7. CASE ChoosesRow
  <2>1. This \in Fn \ Told /\ Told' = Told /\ is_seg' = is_seg
        /\ \E regs : param_regs' = [param_regs EXCEPT ![This] = regs]
    BY <1>7 DEF ChoosesRow
  <2>2. c \in Told /\ param_regs'[c] = param_regs[c]
    BY <1>1, <1>2, <1>3, <1>4, <2>1
  <2>3. QED
    BY <1>1, <1>2, <1>5, <2>1, <2>2
<1>8. CASE TellsOthers
  <2>1. /\ This \in Fn \ Told /\ Told' = Told \cup {This} /\ ti <= Len(topo_order)
        /\ param_regs' = param_regs /\ is_seg' = SegsTold(This)
    BY <1>8 DEF TellsOthers
  <2>2. SegsSpread(This, Len(abi.edges), is_seg, is_seg')
    BY <1>3, <2>1, SegsToldIs
  <2>3. Prompt(c) /\ (f \in Told \/ f = This => c \in Told)
    BY <1>1, <1>2, <1>3, <1>4, <2>1, PromptCallees
  <2>4. is_seg'[c] = is_seg[c]
    <3>1. SUFFICES ASSUME is_seg'[c] # is_seg[c] PROVE FALSE
      OBVIOUS
    <3>2. PICK m \in 1 .. Len(abi.edges) : abi.edges[m].callee = This /\ abi.edges[m].caller = c
      BY <1>4, <2>2, <3>1 DEF SegsSpread
    <3>3. This \in Callees(c)
      <4>1. m \in DOMAIN abi.edges
        BY <1>3, <3>2, AbiFields
      <4>2. QED
        BY <2>1, <3>2, <4>1 DEF TurnInv, SameCalls, Callees
    <3>4. c \in Told \/ c = This => This \in Told
      BY <1>3, <2>1, <2>3, <3>3, PromptCallees
    <3>5. c \in Told \/ c = This
      BY <1>1, <1>2, <2>1
    <3>6. QED
      BY <2>1, <3>4, <3>5
  <2>5. is_seg[f] \subseteq is_seg'[f]
    BY <1>4, <2>2 DEF SegsSpread
  <2>6. CASE c \in Told
    BY <1>1, <1>2, <1>5, <2>1, <2>4, <2>5, <2>6
  <2>7. CASE c = This
    <3>1. a \in 1 .. Len(e.args) /\ a \in Params(c)
      BY <1>1, <1>2, <1>3 DEF InRegister
    <3>2. abi.params[c][a].v \in is_seg[c] /\ param_regs[c][a] # NONE
      BY <1>1, <1>2, <2>1, <2>4 DEF ParamVreg
    <3>3. abi.edges[k].args[a] \in is_seg'[abi.edges[k].caller]
      BY <1>1, <1>2, <2>2, <2>7, <3>1, <3>2 DEF SegsSpread
    <3>4. QED
      BY <1>1, <3>3
  <2>8. QED
    BY <1>1, <1>2, <2>1, <2>6, <2>7
<1>9. CASE SettlesAll
  BY <1>1, <1>2, <1>5, <1>9 DEF SettlesAll
<1>10. QED
  BY <1>0, <1>6, <1>7, <1>8, <1>9

\* The functions have their turn one after the other.
LEMMA TurnNext ==
    ASSUME TypeOK, PreferInv, SettledInv, TurnInv, PreferStep
    PROVE  TurnInv'
<1>0. /\ TellsExterns \/ ChoosesRow \/ TellsOthers \/ SettlesAll
      /\ UNCHANGED <<prog, topo_order, abi>>
  BY PreferMoves
<1>1. /\ pc = "rest" /\ i = NF + 1 /\ UNCHANGED <<pc, i>> /\ step' # "externs"
      /\ step' = "resolved" => ti' > Len(topo_order')
  BY DEF PreferStep, PropagateExterns, HonourPreferences, FollowMoves, TakeFree, Propagate, Settle,
         Resolving, vars
<1>2. SameCalls(prog, abi)'
  BY <1>0 DEF TurnInv, SameCalls
<1>3. \A f \in Fn \ Treated' : param_regs'[f] = param_regs[f] /\ f \notin Treated
  <2>1. CASE TellsExterns \/ TellsOthers \/ SettlesAll
    BY <2>1 DEF TellsExterns, TellsOthers, SettlesAll
  <2>2. CASE ChoosesRow
    <3>1. /\ Treated' = Told \cup {This} /\ DOMAIN param_regs = Fn
          /\ \E regs : param_regs' = [param_regs EXCEPT ![This] = regs]
      BY <2>2 DEF ChoosesRow, PreferInv
    <3>2. Treated \subseteq Told \cup {This}
      BY DEF Treated
    <3>3. QED
      BY <3>1, <3>2
  <2>3. QED
    BY <1>0, <2>1, <2>2
<1>4. \A f \in Fn \ Treated' : \A p \in Params(f)' : param_regs'[f][p] = NONE
  BY <1>0, <1>3 DEF TurnInv, Params
<1>5. QED
  BY <1>1, <1>2, <1>4 DEF TurnInv

-----------------------------------------------------------------------------
(* The rest of main(). *)

WishInv == TurnInv /\ HearInv /\ GotInv /\ SegsInv

\* Nobody has been told anything when main() starts.
LEMMA WishStart ==
    ASSUME BindInit
    PROVE  WishInv
<1>1. /\ abi \in AbiType /\ PreferInit /\ StartSort /\ SameCalls(prog, abi) /\ PreferInv
  BY InputsAssumption, PreferStart DEF BindInit
<1>2. Told = {} /\ Treated = {}
  <2>1. 1 .. ti - 1 = {} /\ step = "externs"
    BY <1>1 DEF PreferInit
  <2>2. QED
    BY <2>1 DEF Told, Treated
<1>3. TurnInv
  BY <1>1, <1>2 DEF TurnInv, PreferInit, Params
<1>4. HearInv
  BY <1>1, <1>2 DEF HearInv, Passer, PreferInit, ParamVreg
<1>5. GotInv /\ SegsInv
  BY <1>2 DEF GotInv, SegsInv
<1>6. QED
  BY <1>3, <1>4, <1>5 DEF WishInv

\* The rest of main() changes no wish, and the call order only before the first turn.
LEMMA WishRests ==
    ASSUME TypeOK, PreferInv, WishInv, [BindNext]_mainVars, ~Preferring
    PROVE  WishInv'
<1>1. UNCHANGED preferVars
  <2>1. CASE Placing
    BY <2>1 DEF Placing
  <2>2. CASE EndPlacement \/ AbiFailed \/ BeginEmission \/ EndEmission
    BY <2>2 DEF EndPlacement, AbiFailed, BeginEmission, EndEmission
  <2>3. CASE SortStep \/ Clobbering
    BY <2>3 DEF SortStep, Clobbering
  <2>4. CASE UNCHANGED mainVars
    BY <2>4 DEF mainVars
  <2>5. QED
    BY <2>1, <2>2, <2>3, <2>4 DEF BindNext, Exited
<1>2. UNCHANGED <<abi, step, ti, prefer, is_seg, param_regs>>
  BY <1>1 DEF preferVars
<1>3. TurnInv /\ HearInv /\ GotInv /\ SegsInv
  BY DEF WishInv
<1>4. /\ UNCHANGED prog
      /\ UNCHANGED topo_order \/ step = "externs"
      /\ step # "externs" => pc' \in {"clobbers", "done"} \/ (pc' = "rest" /\ i' = NF + 1)
  <2>1. CASE AddLeaf \/ StartScan \/ ScanFunction \/ StartRest
    BY <1>3, <2>1 DEF AddLeaf, StartScan, ScanFunction, StartRest, TurnInv
  <2>2. CASE AddRest
    <3>1. i # NF + 1 /\ pc = "rest" /\ UNCHANGED prog
      BY <2>2, NFAssumption DEF AddRest, TypeOK
    <3>2. QED
      BY <1>3, <3>1 DEF TurnInv
  <2>3. CASE StartClobbers \/ ComputeClobbers \/ Finish
    BY <2>3 DEF StartClobbers, ComputeClobbers, Finish
  <2>4. CASE UNCHANGED vars
    BY <1>3, <2>4 DEF TurnInv, vars
  <2>5. QED
    BY BindClobbers, <2>1, <2>2, <2>3, <2>4 DEF Next, Done
<1>5. Told' = Told /\ Treated' = Treated
  <2>1. CASE UNCHANGED topo_order
    BY <1>2, <2>1 DEF Told, Treated, This
  <2>2. CASE step = "externs"
    <3>1. ti = 1 /\ ti' = 1 /\ 1 .. 1 - 1 = {}
      BY <1>2, <1>3, <2>2 DEF TurnInv
    <3>2. Told = {} /\ Told' = {}
      BY <3>1 DEF Told
    <3>3. QED
      BY <1>2, <2>2, <3>2 DEF Treated
  <2>3. QED
    BY <1>4, <2>1, <2>2
<1>6. /\ \A f, p, k, a : Passer(f, p, k, a)' <=> Passer(f, p, k, a)
      /\ \A f : Params(f)' = Params(f) /\ InRegister(f)' = InRegister(f)
      /\ \A f, p : ParamVreg(f, p)' = ParamVreg(f, p)
      /\ \A f, p : PassedOn(f, p)' = PassedOn(f, p)
  <2>1. /\ \A f : Params(f)' = Params(f) /\ InRegister(f)' = InRegister(f)
        /\ \A f, p : ParamVreg(f, p)' = ParamVreg(f, p)
        /\ \A f, p : PassedOn(f, p)' = PassedOn(f, p)
    BY <1>2 DEF Params, InRegister, ParamVreg, PassedOn
  <2>2. QED
    BY <1>2, <2>1 DEF Passer
<1>7. TurnInv'
  <2>1. step' = "resolved" => ti' > Len(topo_order')
    BY <1>2, <1>3, <1>4 DEF TurnInv
  <2>2. SameCalls(prog, abi)'
    BY <1>2, <1>3, <1>4 DEF TurnInv, SameCalls
  <2>3. \A f \in Fn \ Treated' : \A p \in Params(f)' : param_regs'[f][p] = NONE
    BY <1>2, <1>3, <1>5, <1>6 DEF TurnInv
  <2>4. step' = "externs" => ti' = 1
    BY <1>2, <1>3 DEF TurnInv
  <2>5. QED
    BY <1>2, <1>4, <2>1, <2>2, <2>3, <2>4 DEF TurnInv
<1>8. \A k, a : Theirs(k, a)' = Theirs(k, a)
  BY <1>2 DEF Theirs
<1>9. HearInv'
  BY <1>2, <1>3, <1>5, <1>6, <1>8 DEF HearInv
<1>10. GotInv' /\ SegsInv'
  <2>1. CASE UNCHANGED topo_order
    <3>1. /\ \A f : Prompt(f)' <=> Prompt(f)
          /\ \A f, regs, p, r : Satisfied(f, regs, p, r)' <=> Satisfied(f, regs, p, r)
      BY <1>2, <1>4, <2>1, PassersKept
    <3>2. GotInv'
      <4>1. SUFFICES ASSUME NEW f, NEW p, NEW k, NEW a, Passer(f, p, k, a), f \in Treated,
                            Prompt(f), Wanted(Theirs(k, a))
                     PROVE  Satisfied(f, param_regs[f], p, Theirs(k, a))'
        BY <1>5, <1>6, <1>8, <3>1 DEF GotInv, Wanted
      <4>2. Satisfied(f, param_regs[f], p, Theirs(k, a))
        BY <1>3, <4>1 DEF GotInv
      <4>3. QED
        BY <1>2, <1>6, <1>8, <4>2 DEF Satisfied
    <3>3. SegsInv'
      BY <1>2, <1>3, <1>5, <1>6, <1>8, <3>1 DEF SegsInv
    <3>4. QED
      BY <3>2, <3>3
  <2>2. CASE step = "externs"
    <3>1. Told = {} /\ Treated = {}
      <4>1. ti = 1 /\ 1 .. 1 - 1 = {}
        BY <1>3, <2>2 DEF TurnInv
      <4>2. Told = {}
        BY <4>1 DEF Told
      <4>3. QED
        BY <2>2, <4>2 DEF Treated
    <3>2. QED
      BY <1>5, <3>1 DEF GotInv, SegsInv
  <2>3. QED
    BY <1>4, <2>1, <2>2
<1>11. QED
  BY <1>7, <1>9, <1>10 DEF WishInv

-----------------------------------------------------------------------------
(* Wishes travel. *)

\* What holds between its steps.
WishIInv == PreferIInv /\ OrderInv /\ WishInv

\* It holds when main() starts,
LEMMA WishIInvInit == BindInit => WishIInv
<1>1. BindInit => OrderInv
  BY BindStarts DEF Started, StartSort, OrderInv
<1>2. QED
  BY <1>1, PreferIInvInit, WishStart DEF WishIInv

\* and every step of main() keeps it.
LEMMA WishIInvNext == WishIInv /\ [BindNext]_mainVars => WishIInv'
<1> SUFFICES ASSUME WishIInv, [BindNext]_mainVars PROVE WishIInv'
  OBVIOUS
<1>1. TypeOK /\ SortInv /\ PreferInv /\ SettledInv /\ OrderInv /\ WishInv
      /\ TurnInv /\ HearInv /\ GotInv /\ SegsInv
  BY DEF WishIInv, PreferIInv, WishInv
<1>2. PreferIInv' /\ OrderInv'
  BY <1>1, PreferIInvNext, BindClobbers, OrderNext DEF WishIInv
<1>3. CASE Preferring
  <2>1. PreferStep
    BY <1>3 DEF Preferring
  <2>2. WishInv'
    BY <1>1, <2>1, TurnNext, HearNext, GotNext, SegsNext DEF WishInv
  <2>3. QED
    BY <1>2, <2>2 DEF WishIInv
<1>4. CASE ~Preferring
  <2>1. WishInv'
    BY <1>1, <1>4, WishRests
  <2>2. QED
    BY <1>2, <2>1 DEF WishIInv
<1>5. QED
  BY <1>3, <1>4

\* In the end every function has had its turn, and those that reach no recursion
\* had it when they should.
LEMMA AllTreated ==
    ASSUME WishIInv, step = "resolved"
    PROVE  Treated = Told /\ Fn \subseteq Told /\ \A f \in Grounded : Prompt(f)
<1>1. /\ TypeOK /\ SortInv /\ PreferInv /\ OrderInv /\ TurnInv
  BY DEF WishIInv, PreferIInv, WishInv
<1>2. Treated = Told
  BY DEF Treated
<1>3. pc \in {"clobbers", "done"} \/ (pc = "rest" /\ i = NF + 1)
  BY <1>1 DEF TurnInv
<1>4. Visited = Fn
  <2>1. CASE pc = "rest" /\ i = NF + 1
    <3>1. 1 .. i - 1 = Fn
      BY <2>1, NFAssumption DEF Fn
    <3>2. Visited \subseteq Fn
      BY <1>1 DEF TypeOK, Visited, ToSet
    <3>3. QED
      BY <1>1, <2>1, <3>1, <3>2 DEF SortInv
  <2>2. CASE pc \in {"clobbers", "done"}
    BY <1>1, <2>2 DEF SortInv
  <2>3. QED
    BY <1>3, <2>1, <2>2
<1>5. Fn \subseteq Told
  <2>1. /\ ti > Len(topo_order) /\ Len(topo_order) \in Nat /\ ti \in Nat
        /\ DOMAIN topo_order = 1 .. Len(topo_order)
    BY <1>1, NFAssumption DEF TurnInv, PreferInv, TypeOK
  <2>2. 1 .. Len(topo_order) \subseteq 1 .. ti - 1
    BY <2>1
  <2>3. QED
    BY <1>4, <2>1, <2>2 DEF Told, Visited, ToSet
<1>6. QED
  BY <1>1, <1>2, <1>3, <1>5, GroundedPrompt

\* A parameter that is only passed on arrives where the callee takes it, or
\* another parameter arrives there.
LEMMA Unmoved == WishIInv => NoMoves
<1> SUFFICES ASSUME WishIInv, step = "resolved",
                    NEW f \in Grounded, NEW p \in InRegister(f), NEW ka \in PassedOn(f, p),
                    NEW e, e = abi.edges[ka[1]], NEW v, v = abi.params[f][p].v,
                    NEW theirs, theirs = param_regs[e.callee][ka[2]],
                    PassedOn(f, p) = {ka}, e.callee \in Fn,
                    ka[2] \in DOMAIN e.args \cap InRegister(e.callee),
                    ka[2] \notin DOMAIN e.rets,
                    abi.pins[f][v] = NONE, theirs \notin {NONE, "SP"}
             PROVE  \/ param_regs[f][p] = theirs
                    \/ \E q \in Params(f) : q # p /\ pregs_alias(param_regs[f][q], theirs)
  BY DEF NoMoves
<1>1. TypeOK /\ PreferInv /\ GotInv
  BY DEF WishIInv, PreferIInv, WishInv
<1>2. Treated = Told /\ Fn \subseteq Told /\ Prompt(f) /\ f \in Fn
  <2>1. Treated = Told /\ Fn \subseteq Told /\ Prompt(f)
    BY AllTreated
  <2>2. PICK n \in 1 .. Len(topo_order) : topo_order[n] = f
    BY <2>1 DEF Prompt
  <2>3. QED
    BY <1>1, <2>1, <2>2 DEF TypeOK
<1>3. PICK k, a : ka = <<k, a>> /\ k \in 1 .. Len(abi.edges)
  <2>1. PICK m \in {n \in DOMAIN abi.edges : abi.edges[n].caller = f} :
            ka \in {<<m, b>> : b \in {c \in DOMAIN abi.edges[m].args : abi.edges[m].args[c] = v}
                                \cup {c \in DOMAIN abi.edges[m].rets : abi.edges[m].rets[c] = v}}
    BY DEF PassedOn
  <2>2. PICK b : ka = <<m, b>>
    BY ONLY <2>1
  <2>3. DOMAIN abi.edges = 1 .. Len(abi.edges)
    BY <1>1, AbiFields DEF PreferInv
  <2>4. QED
    BY ONLY <2>1, <2>2, <2>3
<1>4. ka[1] = k /\ ka[2] = a
  BY <1>3
<1>5. Passer(f, p, k, a)
  BY <1>2, <1>3, <1>4 DEF Passer, ParamVreg
<1>6. Theirs(k, a) = theirs /\ Wanted(theirs)
  BY <1>4 DEF Theirs, Wanted
<1>7. Satisfied(f, param_regs[f], p, theirs)
  <2>1. f \in Treated /\ Prompt(f) /\ Wanted(Theirs(k, a))
    BY ONLY <1>2, <1>6
  <2>2. Satisfied(f, param_regs[f], p, Theirs(k, a))
    BY ONLY <1>1, <1>5, <2>1, Zenon DEF GotInv
  <2>3. QED
    BY ONLY <1>6, <2>2
<1>8. QED
  BY <1>7 DEF Satisfied, pregs_alias

\* Seg parameters are known to the callers.
LEMMA SegsAreKnown == WishIInv => SegsKnown
<1> SUFFICES ASSUME WishIInv, step = "resolved",
                    NEW k \in DOMAIN abi.edges, NEW e, e = abi.edges[k],
                    e.callee \in Fn, e.caller \in Grounded,
                    NEW a \in DOMAIN e.args \cap InRegister(e.callee),
                    abi.params[e.callee][a].v \in is_seg[e.callee],
                    param_regs[e.callee][a] # NONE
             PROVE  e.args[a] \in is_seg[e.caller]
  BY DEF SegsKnown
<1>1. PreferInv /\ SegsInv
  BY DEF WishIInv, PreferIInv, WishInv
<1>2. Fn \subseteq Told /\ Prompt(e.caller)
  BY AllTreated
<1>3. k \in 1 .. Len(abi.edges)
  BY <1>1, AbiFields DEF PreferInv
<1>4. QED
  BY <1>1, <1>2, <1>3 DEF SegsInv, ParamVreg, Theirs

\* What a function wants of a parameter has reached its callers when their own
\* parameters are placed, however many calls up: because propagate_preferences()
\* follows topo_sort(), in which a function that reaches no recursion comes after
\* all it calls.
THEOREM WishesTravelCorrect == BindSpec => []WishesTravel
<1>1. WishIInv => WishesTravel
  BY Unmoved, SegsAreKnown DEF WishesTravel
<1>2. QED
  BY <1>1, WishIInvInit, WishIInvNext, PTL DEF BindSpec
=============================================================================
