----------------------------- MODULE BuildProofs -----------------------------
(***************************************************************************)
(* Proofs about the build driver (Build): for every graph of uses, every   *)
(* sequence of edits and every behaviour of the clock.                     *)
(***************************************************************************)
EXTENDS Build, ProofFacts

-----------------------------------------------------------------------------
(* Type correctness. *)

Output == [mtime : Nat, from : SUBSET (Mod \X Nat)]
ScanCall == [m : Mod, next : Nat \ {0}]
Phases == {"idle", "scan", "sort", "rest", "decide", "compile", "bind"}

FilesInv ==
    /\ world \in World /\ clock \in Nat /\ edits \in Nat
    /\ src \in [Mod -> Source] /\ nir \in [Mod -> Output] /\ nif \in [Mod -> Output]

ProcessInv ==
    /\ pc \in Phases /\ result \in {"none", "ok", "failed"} /\ force \in BOOLEAN
    /\ work \in Seq(ScanCall) /\ deps \in [Mod -> SUBSET Mod]
    /\ modules \in Seq(Mod) /\ Distinct(modules)
    /\ build_order \in Seq(Mod) /\ Distinct(build_order) /\ Ordered \subseteq ToSet(modules)
    /\ sorting \in [k : 1 .. Len(modules) + 1, changed : BOOLEAN]
    /\ needs \subseteq ToSet(modules)
    /\ i \in 1 .. Len(build_order) + 1 /\ errors \in 0 .. i - 1

\* Nothing is ordered, decided or compiled before its phase, and no process runs
\* between builds.
PhaseInv ==
    /\ pc = "idle" => work = << >> /\ modules = << >> /\ deps = [m \in Mod |-> {}]
    /\ pc \in {"idle", "scan"} =>
          build_order = << >> /\ sorting = [k |-> 1, changed |-> FALSE]
    /\ pc \in {"idle", "scan", "sort", "rest", "decide"} => i = 1 /\ errors = 0
    /\ pc \in {"idle", "scan", "sort", "rest"} => needs = {}

BuildInv == FilesInv /\ ProcessInv /\ PhaseInv

\* No build has run before the first.
LEMMA BuildInit == Init => BuildInv
<1> SUFFICES ASSUME Init PROVE BuildInv
  OBVIOUS
<1>1. FilesInv
  BY BuildAssumption DEF Init, FilesInv, Source, Output
<1>2. ProcessInv /\ PhaseInv
  <2>1. << >> \in Seq(Mod) /\ << >> \in Seq(ScanCall) /\ Distinct(<< >>) /\ Len(<< >>) = 0
        /\ ToSet(<< >>) = {} /\ 1 \in 1 .. 0 + 1 /\ 0 \in 0 .. 1 - 1
    BY DEF Distinct, ToSet
  <2>2. /\ work = << >> /\ modules = << >> /\ deps = [m \in Mod |-> {}] /\ build_order = << >>
        /\ sorting = [k |-> 1, changed |-> FALSE] /\ needs = {} /\ i = 1 /\ errors = 0
        /\ result = "none" /\ force = FALSE /\ pc = "idle"
    BY DEF Init
  <2>3. QED
    BY <2>1, <2>2 DEF ProcessInv, PhaseInv, Phases, Ordered
<1>3. QED
  BY <1>1, <1>2 DEF BuildInv

\* The files: only an edit writes sources, only a compilation outputs.
LEMMA FilesNext == FilesInv /\ ProcessInv /\ [Next]_vars => FilesInv'
<1> SUFFICES ASSUME FilesInv, ProcessInv, [Next]_vars PROVE FilesInv'
  OBVIOUS
<1>1. CASE Edit
  <2>1. PICK m \in Mod, bad \in BOOLEAN :
            src' = [src EXCEPT ![m] = [ver |-> src[m].ver + 1, mtime |-> clock, bad |-> bad]]
    BY <1>1 DEF Edit
  <2>2. src' \in [Mod -> Source]
    BY <2>1 DEF FilesInv, Source
  <2>3. clock' \in Nat /\ edits' \in Nat
    BY <1>1 DEF Edit, FilesInv, Later
  <2>4. QED
    BY <1>1, <2>2, <2>3 DEF Edit, FilesInv
<1>2. CASE Tick
  BY <1>2 DEF Tick, FilesInv, files
<1>3. CASE Compile
  <2> DEFINE m == build_order[i]
             read == UNION {nif[d].from : d \in deps[m]}
  <2>1. m \in Mod
    BY <1>3 DEF Compile, ProcessInv
  <2>2. read \subseteq Mod \X Nat
    BY <2>1 DEF FilesInv, ProcessInv, Output
  <2>3. src[m].ver \in Nat
    BY <2>1 DEF FilesInv, Source
  <2>4. PICK fails \in BOOLEAN, t \in Times(clock) :
            /\ nir' = [nir EXCEPT ![m] = [mtime |-> t[1], from |->
                          IF fails THEN {<<m, 0>>} ELSE {<<m, src[m].ver>>} \cup read]]
            /\ nif' = [nif EXCEPT ![m] = [mtime |-> t[2], from |->
                          IF fails THEN {<<m, 0>>} ELSE {<<m, src[m].ver>>} \cup read]]
            /\ clock' = Later(t[2])
    BY <1>3 DEF Compile
  <2>5. t[1] \in Nat /\ t[2] \in Nat
    BY DEF Times, FilesInv
  <2> DEFINE from == IF fails THEN {<<m, 0>>} ELSE {<<m, src[m].ver>>} \cup read
  <2>6. from \in SUBSET (Mod \X Nat)
    <3> HIDE DEF m, read
    <3>1. QED
      BY <2>1, <2>2, <2>3
  <2>7. nir' \in [Mod -> Output] /\ nif' \in [Mod -> Output]
    <3> HIDE DEF m, read
    <3>1. [mtime |-> t[1], from |-> from] \in Output /\ [mtime |-> t[2], from |-> from] \in Output
      BY <2>5, <2>6 DEF Output
    <3> HIDE DEF from
    <3>2. nir' = [nir EXCEPT ![m] = [mtime |-> t[1], from |-> from]]
          /\ nif' = [nif EXCEPT ![m] = [mtime |-> t[2], from |-> from]]
      BY <2>4 DEF from
    <3>3. QED
      BY <2>1, <3>1, <3>2 DEF FilesInv
  <2>8. clock' \in Nat
    BY <2>4, <2>5 DEF Later
  <2>9. QED
    BY <1>3, <2>7, <2>8 DEF Compile, FilesInv
<1>4. CASE UNCHANGED <<world, files, clock, edits>>
  BY <1>4 DEF FilesInv, files
<1>5. QED
  BY <1>1, <1>2, <1>3, <1>4
     DEF Next, BuildStep, StartBuild, ScanUse, EndOfSource, SortModule, SortAgain, StartRest,
         AddRest, EndSort, Decide, Skip, EndCompile, BindAndAssemble, vars

\* The process that ended leaves nothing.
LEMMA ExitKeeps ==
    ASSUME NEW how \in {"none", "ok", "failed"}, Exit(how), force' \in BOOLEAN
    PROVE  ProcessInv' /\ PhaseInv'
<1>1. << >> \in Seq(Mod) /\ << >> \in Seq(ScanCall) /\ Distinct(<< >>) /\ Len(<< >>) = 0
      /\ ToSet(<< >>) = {}
  BY DEF Distinct, ToSet
<1>2. QED
  BY <1>1 DEF Exit, ProcessInv, PhaseInv, Phases, Ordered

\* What a process knows stays well formed while modules are found.
LEMMA ScanKeeps ==
    ASSUME BuildInv, StartBuild \/ ScanUse \/ EndOfSource
    PROVE  ProcessInv' /\ PhaseInv'
<1> USE DEF BuildInv
<1>1. CASE StartBuild
  <2>1. /\ work' = <<[m |-> Root, next |-> 1]>> /\ modules' = <<Root>> /\ pc' = "scan"
        /\ result' = "none" /\ force' \in BOOLEAN
        /\ UNCHANGED <<deps, build_order, sorting, needs, i, errors>>
    BY <1>1 DEF StartBuild, FilesInv, World
  <2>2. build_order = << >> /\ sorting = [k |-> 1, changed |-> FALSE] /\ needs = {} /\ i = 1
        /\ errors = 0 /\ deps = [m \in Mod |-> {}]
    BY <1>1 DEF StartBuild, PhaseInv
  <2>3. <<Root>> \in Seq(Mod) /\ <<[m |-> Root, next |-> 1]>> \in Seq(ScanCall)
        /\ Distinct(<<Root>>) /\ Len(<<Root>>) = 1
    BY BuildAssumption DEF ScanCall, Distinct
  <2>4. << >> \in Seq(Mod) /\ Distinct(<< >>) /\ Len(<< >>) = 0 /\ ToSet(<< >>) = {}
    BY DEF Distinct, ToSet
  <2>5. QED
    BY <2>1, <2>2, <2>3, <2>4 DEF ProcessInv, PhaseInv, Phases, Ordered
<1>2. CASE ScanUse
  <2>1. /\ pc = "scan" /\ work # << >> /\ Scanning = work[Len(work)]
        /\ Scanning.next <= Len(uses[Scanning.m])
        /\ UNCHANGED <<pc, force, build_order, sorting, needs, i, errors, result>>
    BY <1>2 DEF ScanUse, Scanning
  <2>2. Len(work) \in 1 .. Len(work) /\ Scanning \in ScanCall
    BY <2>1 DEF ProcessInv
  <2>3. Scanning.m \in Mod /\ Scanning.next \in Nat /\ Scanning.next # 0
    BY <2>2 DEF ScanCall
  <2>4. uses[Scanning.m] \in Seq(Mod)
    BY <2>3 DEF FilesInv, World, uses
  <2> DEFINE d == uses[Scanning.m][Scanning.next]
             new == [m |-> Scanning.m, next |-> Scanning.next + 1]
             on == [work EXCEPT ![Len(work)] = new]
  <2>5. d \in Mod
    BY <2>1, <2>3, <2>4
  <2>6. /\ deps' = [deps EXCEPT ![Scanning.m] = deps[Scanning.m] \cup {d}]
        /\ \/ d \in ToSet(modules) /\ work' = on /\ modules' = modules
           \/ /\ d \notin ToSet(modules)
              /\ work' = Append(on, [m |-> d, next |-> 1])
              /\ modules' = Append(modules, d)
    <3>1. [work EXCEPT ![Len(work)].next = @ + 1] = on
      <4>1. [Scanning EXCEPT !.next = Scanning.next + 1] = new
        BY <2>2 DEF ScanCall
      <4>2. Len(work) \in DOMAIN work
        BY <2>2 DEF ProcessInv
      <4> HIDE DEF new
      <4>3. QED
        BY <2>1, <4>1, <4>2
    <3>2. QED
      BY <1>2, <2>3, <3>1 DEF ScanUse, ProcessInv
  <2>7. on \in Seq(ScanCall)
    <3>1. new \in ScanCall
      BY <2>3 DEF ScanCall
    <3> HIDE DEF new
    <3>2. QED
      BY <2>2, <3>1, ChangeOne DEF ProcessInv
  <2> HIDE DEF d, on
  <2>8. deps' \in [Mod -> SUBSET Mod]
    BY <2>3, <2>5, <2>6 DEF ProcessInv
  <2>9. work' \in Seq(ScanCall)
    <3> DEFINE call == [m |-> d, next |-> 1]
    <3>1. call \in ScanCall
      BY <2>5 DEF ScanCall
    <3>2. work' = on \/ work' = Append(on, call)
      BY <2>6
    <3> HIDE DEF call
    <3>3. QED
      BY <2>7, <3>1, <3>2
  <2>10. modules' \in Seq(Mod) /\ Distinct(modules') /\ ToSet(modules) \subseteq ToSet(modules')
         /\ Len(modules') >= Len(modules)
    <3>1. CASE modules' = modules
      BY <3>1 DEF ProcessInv
    <3>2. CASE d \notin ToSet(modules) /\ modules' = Append(modules, d)
      <4>1. /\ modules' \in Seq(Mod) /\ Len(modules') = Len(modules) + 1
            /\ ToSet(modules') = ToSet(modules) \cup {d} /\ Distinct(modules')
        BY <2>5, <3>2, AppendNew DEF ProcessInv
      <4>2. QED
        BY <4>1 DEF ProcessInv
    <3>3. QED
      BY <2>6, <3>1, <3>2
  <2>11. sorting' \in [k : 1 .. Len(modules') + 1, changed : BOOLEAN]
    <3>1. Len(modules) \in Nat /\ Len(modules') \in Nat
      BY <2>10 DEF ProcessInv
    <3>2. QED
      BY <2>1, <2>10, <3>1 DEF ProcessInv
  <2>12. Ordered' \subseteq ToSet(modules') /\ needs' \subseteq ToSet(modules')
    BY <2>1, <2>10 DEF ProcessInv, Ordered
  <2>13. ProcessInv'
    BY <2>1, <2>8, <2>9, <2>10, <2>11, <2>12 DEF ProcessInv
  <2>14. QED
    BY <2>1, <2>13 DEF PhaseInv
<1>3. CASE EndOfSource
  <2>1. /\ pc = "scan" /\ work # << >> /\ pc' \in {"scan", "sort"}
        /\ work' = SubSeq(work, 1, Len(work) - 1)
        /\ UNCHANGED <<force, modules, deps, build_order, sorting, needs, i, errors, result>>
    BY <1>3 DEF EndOfSource
  <2>2. work' \in Seq(ScanCall)
    <3>1. work \in Seq(ScanCall) /\ Len(work) > 0
      BY <2>1 DEF ProcessInv
    <3>2. Front(work) \in Seq(ScanCall)
      BY ONLY <3>1, FrontOf
    <3>3. QED
      BY <2>1, <3>2 DEF Front
  <2>3. ProcessInv'
    BY <2>1, <2>2 DEF ProcessInv, Phases, Ordered
  <2>4. QED
    BY <2>1, <2>3 DEF PhaseInv
<1>4. QED
  BY <1>1, <1>2, <1>3

\* While they are put in order, what the process knows stays well formed.
LEMMA SortKeeps ==
    ASSUME BuildInv, SortModule \/ SortAgain \/ StartRest \/ AddRest \/ EndSort
    PROVE  ProcessInv' /\ PhaseInv'
<1>0. /\ Len(modules) \in Nat /\ sorting.k \in 1 .. Len(modules) + 1 /\ sorting.changed \in BOOLEAN
      /\ modules \in Seq(Mod) /\ build_order \in Seq(Mod) /\ Distinct(build_order)
      /\ Ordered \subseteq ToSet(modules)
  BY DEF BuildInv, ProcessInv
<1>1. sorting.k <= Len(modules) => modules[sorting.k] \in Mod /\ modules[sorting.k] \in ToSet(modules)
      /\ sorting.k + 1 \in 1 .. Len(modules) + 1
  BY <1>0 DEF ToSet
<1>2. 1 \in 1 .. Len(modules) + 1
  BY <1>0
<1>3. /\ UNCHANGED <<force, work, modules, deps, needs, i, errors, result>>
      /\ pc \in {"sort", "rest"} /\ pc' \in {"sort", "rest", "decide"}
  BY DEF SortModule, SortAgain, StartRest, AddRest, EndSort, discovery
<1>4. sorting' \in [k : 1 .. Len(modules) + 1, changed : BOOLEAN]
  <2>1. \A x \in 1 .. Len(modules) + 1 :
            [sorting EXCEPT !.k = x] \in [k : 1 .. Len(modules) + 1, changed : BOOLEAN]
    BY DEF BuildInv, ProcessInv
  <2>2. CASE SortModule
    <3>1. sorting' = [k |-> sorting.k + 1, changed |-> TRUE]
          \/ sorting' = [sorting EXCEPT !.k = sorting.k + 1]
      BY <2>2 DEF SortModule
    <3>2. sorting.k + 1 \in 1 .. Len(modules) + 1
      BY <1>1, <2>2 DEF SortModule
    <3>3. [k |-> sorting.k + 1, changed |-> TRUE] \in [k : 1 .. Len(modules) + 1, changed : BOOLEAN]
      BY <3>2
    <3>4. [sorting EXCEPT !.k = sorting.k + 1] \in [k : 1 .. Len(modules) + 1, changed : BOOLEAN]
      BY <2>1, <3>2
    <3>5. QED
      BY <3>1, <3>3, <3>4
  <2>3. CASE SortAgain
    BY <1>2, <2>3 DEF SortAgain
  <2>4. CASE StartRest
    BY <1>2, <2>1, <2>4 DEF StartRest
  <2>5. CASE AddRest
    BY <1>1, <2>1, <2>5 DEF AddRest
  <2>6. CASE EndSort
    BY <2>6 DEF EndSort, BuildInv, ProcessInv
  <2>7. QED
    BY <2>2, <2>3, <2>4, <2>5, <2>6
<1>5. build_order' \in Seq(Mod) /\ Distinct(build_order')
      /\ ToSet(build_order') \subseteq ToSet(modules)
  <2>1. CASE build_order' = build_order
    BY <1>0, <2>1 DEF Ordered
  <2>2. CASE /\ sorting.k <= Len(modules) /\ modules[sorting.k] \notin Ordered
             /\ build_order' = Append(build_order, modules[sorting.k])
    BY <1>0, <1>1, <2>2, AppendNew DEF Ordered
  <2>3. QED
    BY <2>1, <2>2 DEF SortModule, SortAgain, StartRest, AddRest, EndSort
<1>6. i = 1 /\ errors = 0 /\ needs = {}
  BY <1>3 DEF BuildInv, PhaseInv
<1>7. i \in 1 .. Len(build_order') + 1
  BY <1>5, <1>6
<1>8. ProcessInv'
  BY <1>3, <1>4, <1>5, <1>6, <1>7 DEF BuildInv, ProcessInv, Phases, Ordered
<1>9. QED
  BY <1>3, <1>6, <1>8 DEF PhaseInv

\* While they are compiled and the build ends, too.
LEMMA CompileKeeps ==
    ASSUME BuildInv, Decide \/ Skip \/ Compile \/ EndCompile \/ BindAndAssemble
    PROVE  ProcessInv' /\ PhaseInv'
<1>0. Len(build_order) \in Nat /\ i \in 1 .. Len(build_order) + 1 /\ errors \in 0 .. i - 1
      /\ force \in BOOLEAN
  BY DEF BuildInv, ProcessInv
<1>1. CASE Decide
  <2>1. /\ UNCHANGED <<force, work, modules, deps, build_order, sorting, i, errors, result>>
        /\ pc' = "compile" /\ needs' \subseteq ToSet(modules)
    BY <1>1 DEF Decide, discovery
  <2>2. QED
    BY <2>1 DEF BuildInv, ProcessInv, PhaseInv, Phases, Ordered
<1>2. CASE Skip \/ Compile
  <2>1. /\ UNCHANGED <<force, work, modules, deps, build_order, sorting, needs, result, pc>>
        /\ pc = "compile" /\ i <= Len(build_order) /\ i' = i + 1
        /\ errors' \in {errors, errors + 1}
    BY <1>2 DEF Skip, Compile, discovery
  <2>2. i' \in 1 .. Len(build_order) + 1 /\ errors' \in 0 .. i' - 1
    BY <1>0, <2>1
  <2>3. QED
    BY <2>1, <2>2 DEF BuildInv, ProcessInv, PhaseInv, Phases, Ordered
<1>3. CASE EndCompile /\ errors > 0
  BY <1>0, <1>3, ExitKeeps DEF EndCompile
<1>4. CASE EndCompile /\ ~(errors > 0)
  <2>1. /\ UNCHANGED <<force, work, modules, deps, build_order, sorting, needs, i, errors, result>>
        /\ pc' = "bind"
    BY <1>4 DEF EndCompile, discovery
  <2>2. QED
    BY <2>1 DEF BuildInv, ProcessInv, PhaseInv, Phases, Ordered
<1>5. CASE BindAndAssemble
  BY <1>0, <1>5, ExitKeeps DEF BindAndAssemble
<1>6. QED
  BY <1>1, <1>2, <1>3, <1>4, <1>5

\* Every step keeps the state well formed.
LEMMA BuildNext == BuildInv /\ [Next]_vars => BuildInv'
<1> SUFFICES ASSUME BuildInv, [Next]_vars PROVE BuildInv'
  OBVIOUS
<1>1. FilesInv'
  BY FilesNext DEF BuildInv
<1>2. CASE BuildStep
  BY <1>1, <1>2, ScanKeeps, SortKeeps, CompileKeeps DEF BuildStep, BuildInv
<1>3. CASE Edit \/ Tick
  <2>1. /\ UNCHANGED <<pc, force, work, modules, deps, build_order, sorting, needs, i, errors>>
        /\ result' \in {"none", result}
    BY <1>3 DEF Edit, Tick, discovery
  <2>2. QED
    BY <1>1, <2>1 DEF BuildInv, ProcessInv, PhaseInv, Ordered
<1>4. CASE UNCHANGED vars
  BY <1>1, <1>4 DEF vars, BuildInv, ProcessInv, PhaseInv, discovery, Ordered
<1>5. QED
  BY <1>2, <1>3, <1>4 DEF Next

\* The build driver's state is well formed: each module is found once and ordered
\* once, and none is compiled that was not found.
THEOREM TypeCorrect == Spec => []TypeOK
<1>1. BuildInv => TypeOK
  <2> SUFFICES ASSUME BuildInv PROVE TypeOK
    OBVIOUS
  <2>1. \A m \in Mod : nir[m].mtime \in Nat /\ nif[m].mtime \in Nat
    BY DEF BuildInv, FilesInv, Output
  <2>2. IsFiniteSet(Mod)
    BY BuildAssumption
  <2>3. Len(modules) = Cardinality(ToSet(modules)) /\ Len(build_order) = Cardinality(Ordered)
    BY <2>2, DistinctLen DEF BuildInv, ProcessInv, Ordered
  <2>4. errors \in 0 .. Len(build_order)
    BY DEF BuildInv, ProcessInv
  <2>5. QED
    BY <2>1, <2>3, <2>4 DEF BuildInv, ProcessInv, FilesInv, TypeOK, Phases
<1>2. QED
  BY <1>1, BuildInit, BuildNext, PTL DEF Spec

-----------------------------------------------------------------------------
(* The modules a module reaches. *)

UsedBy(X) == UNION {ToSet(uses[d]) : d \in X}
UseClosed(X) == UsedBy(X) \subseteq X

\* What modules use are modules.
LEMMA UsedByType ==
    ASSUME world \in World, NEW X \in SUBSET Mod
    PROVE  UsedBy(X) \in SUBSET Mod
<1>1. \A d \in X : uses[d] \in Seq(Mod)
  BY DEF World, uses
<1>2. \A d \in X : ToSet(uses[d]) \subseteq Mod
  BY <1>1 DEF ToSet
<1>3. QED
  BY <1>2 DEF UsedBy

\* Reach is the iteration it looks like.
LEMMA ReachDef ==
    ASSUME world \in World
    PROVE  /\ Reach \in [Nat -> [Mod -> SUBSET Mod]]
           /\ \A m \in Mod : Reach[0][m] = {m}
           /\ \A n \in Nat : \A m \in Mod :
                 Reach[n + 1][m] = Reach[n][m] \cup UsedBy(Reach[n][m])
<1> DEFINE Level(F) == [m \in Mod |-> F[m] \cup UsedBy(F[m])]
           First == [m \in Mod |-> {m}]
           grow == [F \in [Mod -> SUBSET Mod] |-> Level(F)]
           Eqn(b) == b = [n \in Nat |-> [m \in Mod |->
                             IF n = 0 THEN {m} ELSE b[n - 1][m] \cup UsedBy(b[n - 1][m])]]
<1>1. PICK b \in [Nat -> [Mod -> SUBSET Mod]] :
          b[0] = First /\ \A n \in Nat : b[n + 1] = grow[b[n]]
  <2> DEFINE S == [Mod -> SUBSET Mod]
  <2>1. grow \in [S -> S] /\ First \in S
    BY UsedByType
  <2>2. \E b \in [Nat -> S] : b[0] = First /\ \A n \in Nat : b[n + 1] = grow[b[n]]
    <3> HIDE DEF grow, S, First
    <3>1. QED
      BY ONLY <2>1, Iterates
  <2>3. QED
    BY <2>2
<1>2. \A n \in Nat : b[n] \in [Mod -> SUBSET Mod]
  OBVIOUS
<1>3. \A n \in Nat : b[n + 1] = Level(b[n])
  BY <1>1, <1>2
<1>4. Eqn(b)
  <2>1. ASSUME NEW n \in Nat
        PROVE  b[n] = [m \in Mod |-> IF n = 0 THEN {m}
                                     ELSE b[n - 1][m] \cup UsedBy(b[n - 1][m])]
    <3>1. CASE n = 0
      BY <1>1, <3>1
    <3>2. CASE n # 0
      <4>1. n - 1 \in Nat /\ n - 1 + 1 = n
        BY <3>2
      <4>2. b[n] = Level(b[n - 1])
        BY <1>3, <4>1
      <4>3. QED
        BY <3>2, <4>2
    <3>3. QED
      BY <3>1, <3>2
  <2>2. QED
    BY <2>1
<1>5. Reach = CHOOSE c : Eqn(c)
  BY DEF Reach, UsedBy
<1>6. Eqn(Reach)
  <2> HIDE DEF Eqn
  <2>1. QED
    BY <1>4, <1>5
<1>7. /\ DOMAIN Reach = Nat /\ Reach[0] = First
      /\ \A n \in Nat : Reach[n + 1] = Level(Reach[n])
  <2>1. DOMAIN Reach = Nat
        /\ \A n \in Nat : Reach[n] = [m \in Mod |-> IF n = 0 THEN {m}
                                        ELSE Reach[n - 1][m] \cup UsedBy(Reach[n - 1][m])]
    BY <1>6
  <2>2. ASSUME NEW n \in Nat PROVE Reach[n + 1] = Level(Reach[n])
    <3>1. PICK k \in Nat : k = n + 1 /\ k # 0 /\ k - 1 = n
      OBVIOUS
    <3>2. Reach[k] = [m \in Mod |-> Reach[k - 1][m] \cup UsedBy(Reach[k - 1][m])]
      BY <2>1, <3>1
    <3>3. QED
      BY <3>1, <3>2
  <2>3. QED
    BY <2>1, <2>2
<1> HIDE DEF Level, First
<1>8. \A n \in Nat : Reach[n] = b[n]
  <2> DEFINE Bad == {n \in Nat : Reach[n] # b[n]}
  <2> SUFFICES ASSUME Bad # {} PROVE FALSE
    OBVIOUS
  <2>1. PICK n \in Bad : \A m \in Bad : n <= m
    <3>1. Bad \subseteq Nat
      OBVIOUS
    <3> HIDE DEF Bad
    <3>2. QED
      BY <3>1, SmallestElement
  <2>2. n # 0
    BY <1>1, <1>7
  <2>3. n - 1 \in Nat /\ n - 1 + 1 = n
    BY <2>2
  <2>4. Reach[n - 1] = b[n - 1]
    BY <2>1, <2>3
  <2>5. QED
    BY <1>3, <1>7, <2>3, <2>4
<1>9. Reach = b
  <2>1. Reach = [n \in Nat |-> Reach[n]]
    BY <1>6
  <2>2. QED
    BY <1>8, <2>1
<1>10. QED
  BY <1>2, <1>7, <1>9 DEF Level, First

\* Cardinality(Mod) uses reach every module there is to reach: Below(m) is the
\* least closed set with m.
LEMMA BelowIs ==
    ASSUME world \in World, NEW m \in Mod
    PROVE  /\ Below(m) \in SUBSET Mod /\ m \in Below(m) /\ UseClosed(Below(m))
           /\ \A X \in SUBSET Mod : m \in X /\ UseClosed(X) => Below(m) \subseteq X
<1> DEFINE N == Cardinality(Mod)
           R == [n \in Nat |-> Reach[n][m]]
           grow == [X \in SUBSET Mod |-> X \cup UsedBy(X)]
<1>1. N \in Nat /\ IsFiniteSet(Mod)
  BY BuildAssumption, FS_CardinalityType
<1>2. R \in [Nat -> SUBSET Mod] /\ R[0] = {m} /\ \A n \in Nat : R[n + 1] = R[n] \cup UsedBy(R[n])
  <2>1. /\ \A n \in Nat : R[n] = Reach[n][m] /\ Reach[n][m] \in SUBSET Mod
        /\ DOMAIN R = Nat /\ R = [n \in Nat |-> R[n]]
    BY ReachDef
  <2> HIDE DEF R
  <2>2. \A n \in Nat : R[n + 1] = Reach[n + 1][m]
    BY <2>1
  <2>3. R \in [Nat -> SUBSET Mod]
    BY <2>1
  <2>4. QED
    BY <2>1, <2>2, <2>3, ReachDef
<1>3. grow \in [SUBSET Mod -> SUBSET Mod]
  BY UsedByType
<1>4. \A n \in Nat : R[n + 1] = grow[R[n]] /\ R[n] \subseteq R[n + 1]
  <2> HIDE DEF R
  <2>1. QED
    BY <1>2
<1>5. R[N + 1] = R[N]
  <2> HIDE DEF R, grow
  <2>1. QED
    BY ONLY <1>1, <1>2, <1>3, <1>4, ChainRests
<1>6. Below(m) = R[N]
  BY <1>1 DEF Below
<1> HIDE DEF R
<1>7. Below(m) \in SUBSET Mod /\ UseClosed(Below(m))
  BY <1>1, <1>2, <1>5, <1>6 DEF UseClosed
<1>8. ASSUME NEW X \in SUBSET Mod, m \in X, UseClosed(X), NEW n \in Nat
      PROVE  R[n] \subseteq X /\ m \in R[n]
  <2> DEFINE Bad == {k \in Nat : ~(R[k] \subseteq X /\ m \in R[k])}
  <2> SUFFICES ASSUME Bad # {} PROVE FALSE
    OBVIOUS
  <2>1. PICK k \in Bad : \A l \in Bad : k <= l
    <3>1. Bad \subseteq Nat
      OBVIOUS
    <3> HIDE DEF Bad
    <3>2. QED
      BY <3>1, SmallestElement
  <2>2. k # 0
    BY <1>2, <1>8
  <2>3. k - 1 \in Nat /\ k - 1 + 1 = k
    BY <2>2
  <2>4. R[k - 1] \subseteq X /\ m \in R[k - 1]
    BY <2>1, <2>3
  <2>5. UsedBy(R[k - 1]) \subseteq X
    BY <1>8, <2>4 DEF UseClosed, UsedBy
  <2>6. R[k] = R[k - 1] \cup UsedBy(R[k - 1])
    BY <1>2, <2>3
  <2>7. QED
    BY <2>4, <2>5, <2>6
<1>9. UseClosed(Mod)
  BY UsedByType DEF UseClosed
<1>10. QED
  BY <1>1, <1>6, <1>7, <1>8, <1>9

\* A module reaches itself and what its uses reach.
LEMMA BelowSteps ==
    ASSUME world \in World, NEW m \in Mod
    PROVE  /\ ToSet(uses[m]) \in SUBSET Mod
           /\ Below(m) = {m} \cup UNION {Below(d) : d \in ToSet(uses[m])}
<1> DEFINE U == ToSet(uses[m])
           X == {m} \cup UNION {Below(d) : d \in U}
<1>1. U \in SUBSET Mod
  <2>1. UsedBy({m}) = U
    BY DEF UsedBy
  <2>2. QED
    BY <2>1, UsedByType
<1>2. U \subseteq Below(m)
  BY BelowIs DEF UseClosed, UsedBy
<1>3. \A d \in U : Below(d) \subseteq Below(m)
  BY <1>1, <1>2, BelowIs
<1>4. X \subseteq Below(m)
  BY <1>3, BelowIs
<1>5. X \in SUBSET Mod
  BY <1>1, BelowIs
<1>6. UseClosed(X)
  <2> SUFFICES ASSUME NEW y \in X, NEW z \in ToSet(uses[y]) PROVE z \in X
    BY DEF UseClosed, UsedBy
  <2>1. CASE y = m
    BY <1>1, <2>1, BelowIs
  <2>2. CASE \E d \in U : y \in Below(d)
    <3>1. PICK d \in U : y \in Below(d)
      BY <2>2
    <3>2. z \in Below(d)
      BY <1>1, <3>1, BelowIs DEF UseClosed, UsedBy
    <3>3. QED
      BY <3>1, <3>2
  <2>3. QED
    BY <2>1, <2>2
<1>7. Below(m) \subseteq X
  BY <1>5, <1>6, BelowIs
<1>8. QED
  BY <1>1, <1>4, <1>7

-----------------------------------------------------------------------------
(* Discovery.  A use that the scan is past is a dependency; what is found is *)
(* reached from the root.                                                    *)

Found == ToSet(modules)
ScannedTo(m, e) == \A k \in 1 .. Len(work) : work[k].m = m => e < work[k].next

DiscoveryInv ==
    /\ pc # "idle" => Root \in Found
    /\ pc # "scan" => work = << >>
    /\ \A X \in SUBSET Mod : Root \in X /\ UseClosed(X) => Found \subseteq X
    /\ \A m \in Mod : deps[m] \subseteq Found \cap ToSet(uses[m])
    /\ \A m \in Found : \A e \in 1 .. Len(uses[m]) :
          ScannedTo(m, e) => uses[m][e] \in deps[m]
    /\ \A k \in 1 .. Len(work) : work[k].m \in Found

\* What discovery knows depends on these variables only.
LEMMA DiscoveryKept ==
    ASSUME DiscoveryInv, UNCHANGED <<world, work, modules, deps>>,
           pc' # "idle" => pc # "idle", pc' # "scan" => pc # "scan"
    PROVE  DiscoveryInv'
<1>1. UNCHANGED uses /\ UNCHANGED Found
  BY DEF uses, Found
<1>2. \A X : UseClosed(X)' <=> UseClosed(X)
  BY <1>1 DEF UseClosed, UsedBy
<1>3. QED
  BY <1>1, <1>2 DEF DiscoveryInv, ScannedTo

\* Scanning one more use keeps discovery right.
LEMMA ScanUseDiscovers ==
    ASSUME BuildInv, DiscoveryInv, ScanUse
    PROVE  DiscoveryInv'
<1> DEFINE n == Len(work)
<1>1. /\ pc = "scan" /\ pc' = "scan" /\ UNCHANGED world /\ work # << >> /\ Scanning = work[n]
      /\ Scanning.next <= Len(uses[Scanning.m])
  BY DEF ScanUse, Scanning
<1>2. n \in 1 .. n /\ Scanning \in ScanCall /\ work \in Seq(ScanCall)
  BY <1>1 DEF BuildInv, ProcessInv
<1>3. PICK s \in Mod, e \in Nat \ {0} : s = Scanning.m /\ e = Scanning.next
  BY <1>2 DEF ScanCall
<1>4. uses[s] \in Seq(Mod) /\ e \in 1 .. Len(uses[s])
  BY <1>1, <1>3 DEF BuildInv, FilesInv, World, uses
<1>5. PICK d \in Mod : d = uses[s][e]
  BY <1>4
<1>6. PICK on : on = [work EXCEPT ![n] = [m |-> s, next |-> e + 1]]
  OBVIOUS
<1>7. /\ on \in Seq(ScanCall) /\ Len(on) = n
      /\ \A k \in 1 .. n : on[k].m = work[k].m
                           /\ on[k].next = IF k = n THEN e + 1 ELSE work[k].next
  <2> DEFINE new == [m |-> s, next |-> e + 1]
  <2>1. new \in ScanCall /\ new.m = s /\ new.next = e + 1
    BY DEF ScanCall
  <2> HIDE DEF new
  <2>2. /\ on \in Seq(ScanCall) /\ Len(on) = n
        /\ \A k \in 1 .. n : on[k] = IF k = n THEN new ELSE work[k]
    BY <1>2, <1>6, <2>1, ChangeOne DEF new
  <2>3. QED
    BY <1>1, <1>3, <2>1, <2>2
<1>8. /\ deps' = [deps EXCEPT ![s] = deps[s] \cup {d}]
      /\ \/ d \in Found /\ work' = on /\ modules' = modules
         \/ /\ d \notin Found
            /\ work' = Append(on, [m |-> d, next |-> 1])
            /\ modules' = Append(modules, d)
  <2>1. [work EXCEPT ![Len(work)].next = @ + 1] = on
    <3>1. [Scanning EXCEPT !.next = Scanning.next + 1] = [m |-> s, next |-> e + 1]
      BY <1>2, <1>3 DEF ScanCall
    <3>2. n \in DOMAIN work
      BY <1>2
    <3>3. QED
      BY <1>1, <1>6, <3>1, <3>2
  <2>2. QED
    BY <1>3, <1>5, <2>1 DEF ScanUse, Found, BuildInv, ProcessInv
<1>9. UNCHANGED uses /\ \A X : UseClosed(X)' <=> UseClosed(X)
  BY <1>1 DEF uses, UseClosed, UsedBy
<1>10. Found' = Found \cup {d} /\ Found \subseteq Mod
  <2>1. modules \in Seq(Mod)
    BY DEF BuildInv, ProcessInv
  <2>2. CASE modules' = modules /\ d \in Found
    BY <2>1, <2>2 DEF Found, ToSet
  <2>3. CASE modules' = Append(modules, d)
    BY <2>1, <2>3, AppendNew DEF Found, ToSet
  <2>4. QED
    BY <1>8, <2>2, <2>3
<1>11. s \in Found
  BY <1>1, <1>2, <1>3 DEF DiscoveryInv
<1>12. \A m \in Mod : deps'[m] = IF m = s THEN deps[m] \cup {d} ELSE deps[m]
  BY <1>8 DEF BuildInv, ProcessInv
<1>13. ASSUME NEW X \in SUBSET Mod, Root \in X, UseClosed(X)
       PROVE  Found' \subseteq X
  <2>1. Found \subseteq X /\ s \in X
    BY <1>11, <1>13 DEF DiscoveryInv
  <2>2. d \in ToSet(uses[s])
    BY <1>4, <1>5 DEF ToSet
  <2>3. d \in X
    BY <1>13, <2>1, <2>2 DEF UseClosed, UsedBy
  <2>4. QED
    BY <1>10, <2>1, <2>3
<1>14. ASSUME NEW m \in Mod PROVE deps'[m] \subseteq Found' \cap ToSet(uses[m])
  <2>1. d \in ToSet(uses[s])
    BY <1>4, <1>5 DEF ToSet
  <2>2. QED
    BY <1>10, <1>12, <2>1 DEF DiscoveryInv
<1>15. \/ Len(work') = n /\ \A k \in 1 .. n : work'[k] = on[k]
       \/ /\ Len(work') = n + 1 /\ \A k \in 1 .. n : work'[k] = on[k]
          /\ work'[n + 1].m = d /\ work'[n + 1].next = 1 /\ d \notin Found
  <2>1. CASE work' = on
    BY <1>7, <2>1
  <2>2. CASE d \notin Found /\ work' = Append(on, [m |-> d, next |-> 1])
    <3> DEFINE call == [m |-> d, next |-> 1]
    <3>1. call \in ScanCall /\ call.m = d /\ call.next = 1
      BY DEF ScanCall
    <3>2. work' = Append(on, call)
      BY <2>2
    <3> HIDE DEF call
    <3>3. Len(work') = n + 1 /\ work'[n + 1] = call /\ \A k \in 1 .. n : work'[k] = on[k]
      BY <1>7, <3>1, <3>2
    <3>4. QED
      BY <2>2, <3>1, <3>3
  <2>3. QED
    BY <1>8, <2>1, <2>2
<1>16. ASSUME NEW m \in Found', NEW f \in 1 .. Len(uses[m]), ScannedTo(m, f)'
       PROVE  uses[m][f] \in deps'[m]
  <2>0. m \in Mod /\ f \in Nat /\ f # 0
    <3>1. m \in Mod
      BY <1>10, <1>16
    <3>2. uses[m] \in Seq(Mod)
      BY <3>1 DEF BuildInv, FilesInv, World, uses
    <3>3. QED
      BY <3>1, <3>2
  <2>1. \A k \in 1 .. n : k \in 1 .. Len(work') /\ work'[k] = on[k]
    BY <1>2, <1>15
  <2>2. \A k \in 1 .. n : on[k].m = m => f < on[k].next
    BY <1>16, <2>1 DEF ScannedTo
  <2>3. CASE m = s /\ f = e
    BY <1>5, <1>12, <2>3
  <2>4. CASE ~(m = s /\ f = e) /\ m \in Found
    <3>1. ScannedTo(m, f)
      <4> SUFFICES ASSUME NEW k \in 1 .. n, work[k].m = m PROVE f < work[k].next
        BY DEF ScannedTo
      <4>1. CASE k = n
        <5>1. m = s /\ f < e + 1 /\ work[k].next = e
          BY <1>1, <1>3, <1>7, <2>2, <4>1
        <5>2. QED
          BY <2>0, <2>4, <5>1
      <4>2. CASE k # n
        BY <1>7, <2>2, <4>2
      <4>3. QED
        BY <4>1, <4>2
    <3>2. QED
      BY <1>12, <2>0, <2>4, <3>1 DEF DiscoveryInv
  <2>5. CASE m \notin Found
    <3>1. m = d /\ d \notin Found /\ Len(work') = n + 1 /\ work'[n + 1].m = d
          /\ work'[n + 1].next = 1
      <4>1. m = d
        BY <1>10, <2>5
      <4>2. modules' # modules
        BY <1>8, <2>5, <4>1, <1>16 DEF Found
      <4>3. work' = Append(on, [m |-> d, next |-> 1]) /\ d \notin Found
        BY <1>8, <4>2
      <4>4. Len(work') = n + 1
        BY <1>7, <4>3
      <4>5. QED
        BY <1>2, <1>15, <4>1, <4>3, <4>4
    <3>2. f < 1
      BY <1>2, <1>16, <3>1 DEF ScannedTo
    <3>3. QED
      BY <2>0, <3>2
  <2>6. QED
    BY <2>3, <2>4, <2>5
<1>17. ASSUME NEW k \in 1 .. Len(work') PROVE work'[k].m \in Found'
  <2>1. k \in 1 .. n \/ (k = n + 1 /\ work'[k].m = d)
    BY <1>2, <1>15
  <2>2. QED
    BY <1>7, <1>10, <1>15, <2>1 DEF DiscoveryInv
<1>18. QED
  BY <1>1, <1>9, <1>10, <1>13, <1>14, <1>16, <1>17 DEF DiscoveryInv

\* So does going back to the module that used the one scanned.
LEMMA EndOfSourceDiscovers ==
    ASSUME BuildInv, DiscoveryInv, EndOfSource
    PROVE  DiscoveryInv'
<1> DEFINE n == Len(work)
<1>1. /\ pc = "scan" /\ pc' = IF n = 1 THEN "sort" ELSE "scan"
      /\ UNCHANGED <<world, modules, deps>> /\ work # << >> /\ Scanning = work[n]
      /\ Scanning.next > Len(uses[Scanning.m]) /\ work' = SubSeq(work, 1, n - 1)
  BY DEF EndOfSource, Scanning
<1>2. n \in 1 .. n /\ n - 1 \in Nat /\ work \in Seq(ScanCall) /\ Scanning \in ScanCall
  BY <1>1 DEF BuildInv, ProcessInv
<1>3. Len(work') = n - 1 /\ \A k \in 1 .. n - 1 : work'[k] = work[k]
  <2>1. work' = Front(work) /\ Len(work) > 0
    BY <1>1, <1>2 DEF Front
  <2>2. QED
    BY ONLY <1>2, <2>1, FrontOf
<1>4. n = 1 => work' = << >>
  BY <1>2, <1>3, <1>1
<1>5. UNCHANGED uses /\ UNCHANGED Found /\ \A X : UseClosed(X)' <=> UseClosed(X)
  BY <1>1 DEF uses, Found, UseClosed, UsedBy
<1>6. ASSUME NEW m \in Found, NEW e \in 1 .. Len(uses[m]), ScannedTo(m, e)'
      PROVE  ScannedTo(m, e)
  <2> SUFFICES ASSUME NEW k \in 1 .. n, work[k].m = m PROVE e < work[k].next
    BY DEF ScannedTo
  <2>1. m \in Mod
    BY DEF Found, ToSet, BuildInv, ProcessInv
  <2>2. uses[m] \in Seq(Mod)
    BY <2>1 DEF BuildInv, FilesInv, World, uses
  <2>3. CASE k = n
    <3>1. Scanning.m = m /\ Scanning.next \in Nat
      BY <1>1, <1>2, <2>3 DEF ScanCall
    <3>2. QED
      BY <1>1, <2>2, <2>3, <3>1
  <2>4. CASE k # n
    <3>1. k \in 1 .. Len(work') /\ work'[k] = work[k]
      BY <1>2, <1>3, <2>4
    <3>2. QED
      BY <1>6, <3>1 DEF ScannedTo
  <2>5. QED
    BY <2>3, <2>4
<1>7. \A k \in 1 .. Len(work') : work'[k].m \in Found
  BY <1>2, <1>3 DEF DiscoveryInv
<1>8. QED
  BY <1>1, <1>4, <1>5, <1>6, <1>7 DEF DiscoveryInv

\* A build starts with its root.
LEMMA StartDiscovers ==
    ASSUME BuildInv, DiscoveryInv, StartBuild
    PROVE  DiscoveryInv'
<1> DEFINE call == [m |-> Root, next |-> 1]
<1>1. /\ work' = <<call>> /\ modules' = <<Root>> /\ pc' = "scan" /\ UNCHANGED <<world, deps>>
      /\ deps = [m \in Mod |-> {}]
  BY DEF StartBuild, BuildInv, PhaseInv
<1>2. call.m = Root /\ call.next = 1
  OBVIOUS
<1> HIDE DEF call
<1>3. Len(work') = 1 /\ work'[1] = call /\ Found' = {Root}
  BY <1>1 DEF Found, ToSet
<1>4. UNCHANGED uses /\ \A X : UseClosed(X)' <=> UseClosed(X)
  BY <1>1 DEF uses, UseClosed, UsedBy
<1>5. \A m \in Found' : \A e \in 1 .. Len(uses[m]) : ~ScannedTo(m, e)'
  <2>1. uses[Root] \in Seq(Mod)
    BY BuildAssumption DEF BuildInv, FilesInv, World, uses
  <2>2. \A e \in 1 .. Len(uses[Root]) : ~(e < 1)
    BY <2>1
  <2>3. QED
    BY <1>2, <1>3, <2>2 DEF ScannedTo
<1>6. QED
  BY <1>1, <1>2, <1>3, <1>4, <1>5 DEF DiscoveryInv

\* Nothing is found before the first build, nor when one has ended.
LEMMA NothingFound ==
    ASSUME work = << >>, modules = << >>, deps = [m \in Mod |-> {}], pc = "idle"
    PROVE  DiscoveryInv
<1>1. Found = {} /\ Len(work) = 0
  BY DEF Found, ToSet
<1>2. QED
  BY <1>1 DEF DiscoveryInv

\* What was found is forgotten when a build ends.
LEMMA ExitForgets ==
    ASSUME NEW how, Exit(how)
    PROVE  DiscoveryInv'
<1>1. work' = << >> /\ modules' = << >> /\ deps' = [m \in Mod |-> {}] /\ pc' = "idle"
  BY DEF Exit
<1>2. Found' = {} /\ Len(work') = 0
  BY <1>1 DEF Found, ToSet
<1>3. QED
  BY <1>1, <1>2 DEF DiscoveryInv

\* Discovery through everything the driver and the programmer do.
LEMMA DiscoveryNext == BuildInv /\ DiscoveryInv /\ [Next]_vars => DiscoveryInv'
<1> SUFFICES ASSUME BuildInv, DiscoveryInv, [Next]_vars PROVE DiscoveryInv'
  OBVIOUS
<1>1. CASE StartBuild \/ ScanUse \/ EndOfSource
  BY <1>1, StartDiscovers, ScanUseDiscovers, EndOfSourceDiscovers
<1>2. CASE BindAndAssemble \/ (EndCompile /\ errors > 0)
  BY <1>2, ExitForgets DEF BindAndAssemble, EndCompile
<1>3. CASE /\ UNCHANGED <<world, work, modules, deps>>
           /\ pc' # "idle" => pc # "idle"
           /\ pc' # "scan" => pc # "scan"
  BY <1>3, DiscoveryKept
<1>4. QED
  BY <1>1, <1>2, <1>3
     DEF Next, BuildStep, SortModule, SortAgain, StartRest, AddRest, EndSort, Decide, Skip,
         Compile, EndCompile, Edit, Tick, vars, discovery

\* When the scan is over, the modules found are those the root reaches, with their
\* uses as dependencies.
LEMMA Discovered ==
    ASSUME BuildInv, DiscoveryInv, pc \notin {"idle", "scan"}
    PROVE  /\ Found = Below(Root) /\ Found \subseteq Mod
           /\ \A m \in Found : deps[m] = ToSet(uses[m])
<1>1. Found \subseteq Mod /\ world \in World /\ work = << >>
  BY DEF Found, ToSet, BuildInv, ProcessInv, FilesInv, DiscoveryInv
<1>2. \A m \in Found : deps[m] = ToSet(uses[m])
  <2> SUFFICES ASSUME NEW m \in Found, NEW d \in ToSet(uses[m]) PROVE d \in deps[m]
    BY <1>1 DEF DiscoveryInv
  <2>1. uses[m] \in Seq(Mod)
    BY <1>1 DEF World, uses
  <2>2. PICK e \in 1 .. Len(uses[m]) : d = uses[m][e]
    BY <2>1 DEF ToSet
  <2>3. ScannedTo(m, e)
    BY <1>1 DEF ScannedTo
  <2>4. QED
    BY <2>2, <2>3 DEF DiscoveryInv
<1>3. UseClosed(Found)
  BY <1>1, <1>2 DEF UseClosed, UsedBy, DiscoveryInv
<1>4. Root \in Found
  BY DEF DiscoveryInv
<1>5. QED
  BY <1>1, <1>2, <1>3, <1>4, BelowIs, BuildAssumption DEF DiscoveryInv

-----------------------------------------------------------------------------
(* The order of compilation. *)

\* How far the sort is: an unchanged pass has found nothing to order so far, the
\* pass over the rest has left nothing behind.
SortInv ==
    /\ pc = "sort" /\ ~sorting.changed =>
          \A j \in 1 .. sorting.k - 1 : modules[j] \in Ordered \/ ~Ready(modules[j])
    /\ pc = "rest" => \A j \in 1 .. sorting.k - 1 : modules[j] \in Ordered
    /\ pc \in {"decide", "compile", "bind"} => Ordered = Found

\* Adding a module to the order.
LEMMA OrderMore ==
    ASSUME BuildInv, NEW m \in Found, m \notin Ordered, build_order' = Append(build_order, m)
    PROVE  /\ Ordered' = Ordered \cup {m} /\ Len(build_order') = Len(build_order) + 1
           /\ build_order'[Len(build_order) + 1] = m
           /\ \A k \in 1 .. Len(build_order) : build_order'[k] = build_order[k]
<1>1. m \in Mod /\ build_order \in Seq(Mod)
  BY DEF Found, ToSet, BuildInv, ProcessInv
<1>2. Ordered' = Ordered \cup {m}
  BY <1>1, AppendNew DEF Ordered
<1>3. QED
  BY <1>1, <1>2

\* Passing over the modules.
LEMMA SortNext == BuildInv /\ SortInv /\ [Next]_vars => SortInv'
<1> SUFFICES ASSUME BuildInv, SortInv, [Next]_vars PROVE SortInv'
  OBVIOUS
<1>0. /\ Len(modules) \in Nat /\ sorting.k \in 1 .. Len(modules) + 1 /\ sorting.k \in Nat
      /\ modules \in Seq(Mod) /\ Ordered \subseteq Found
      /\ sorting.k <= Len(modules) => modules[sorting.k] \in Found
      /\ \A j \in 1 .. Len(modules) : modules[j] \in Found
      /\ \A m \in Found : \E j \in 1 .. Len(modules) : m = modules[j]
  <2>1. Len(modules) \in Nat /\ sorting.k \in 1 .. Len(modules) + 1 /\ modules \in Seq(Mod)
        /\ Ordered \subseteq Found
    BY DEF BuildInv, ProcessInv, Found
  <2>2. sorting.k <= Len(modules) => sorting.k \in 1 .. Len(modules)
    BY <2>1
  <2>3. QED
    BY <2>1, <2>2 DEF Found, ToSet
<1>1. CASE SortModule
  <2>1. pc = "sort" /\ pc' = "sort" /\ UNCHANGED <<modules, deps>> /\ sorting.k <= Len(modules)
    BY <1>1 DEF SortModule, discovery
  <2>2. CASE sorting' = [k |-> sorting.k + 1, changed |-> TRUE]
    BY <2>1, <2>2 DEF SortInv
  <2>3. CASE /\ ~(modules[sorting.k] \notin Ordered /\ Ready(modules[sorting.k]))
             /\ sorting' = [sorting EXCEPT !.k = sorting.k + 1] /\ UNCHANGED build_order
    <3>1. sorting'.k = sorting.k + 1 /\ sorting'.changed = sorting.changed
      BY <2>3 DEF BuildInv, ProcessInv
    <3>2. UNCHANGED Ordered /\ \A m : Ready(m)' <=> Ready(m)
      BY <2>1, <2>3 DEF Ordered, Ready
    <3>3. \A j \in 1 .. sorting'.k - 1 : j \in 1 .. sorting.k - 1 \/ j = sorting.k
      BY <1>0, <3>1
    <3>4. QED
      BY <2>1, <2>3, <3>1, <3>2, <3>3 DEF SortInv
  <2>4. QED
    BY <1>1, <2>2, <2>3 DEF SortModule
<1>2. CASE SortAgain
  BY <1>2 DEF SortAgain, SortInv
<1>3. CASE StartRest
  <2>1. sorting'.k = 1 /\ pc' = "rest"
    BY <1>3 DEF StartRest, BuildInv, ProcessInv
  <2>2. QED
    BY <2>1 DEF SortInv
<1>4. CASE AddRest
  <2>1. /\ pc = "rest" /\ pc' = "rest" /\ UNCHANGED modules /\ sorting.k <= Len(modules)
        /\ sorting' = [sorting EXCEPT !.k = sorting.k + 1]
    BY <1>4 DEF AddRest, discovery
  <2>2. sorting'.k = sorting.k + 1
    BY <2>1 DEF BuildInv, ProcessInv
  <2>3. modules[sorting.k] \in Ordered' /\ Ordered \subseteq Ordered'
    <3>1. CASE modules[sorting.k] \in Ordered /\ build_order' = build_order
      BY <3>1 DEF Ordered
    <3>2. CASE /\ modules[sorting.k] \notin Ordered
               /\ build_order' = Append(build_order, modules[sorting.k])
      BY <1>0, <2>1, <3>2, OrderMore
    <3>3. QED
      BY <1>4, <3>1, <3>2 DEF AddRest
  <2>4. \A j \in 1 .. sorting'.k - 1 : j \in 1 .. sorting.k - 1 \/ j = sorting.k
    BY <1>0, <2>2
  <2>5. QED
    BY <2>1, <2>3, <2>4 DEF SortInv
<1>5. CASE EndSort
  <2>1. pc = "rest" /\ pc' = "decide" /\ sorting.k > Len(modules)
        /\ UNCHANGED <<modules, build_order>>
    BY <1>5 DEF EndSort, discovery
  <2>2. \A j \in 1 .. Len(modules) : modules[j] \in Ordered
    BY <1>0, <2>1 DEF SortInv
  <2>3. Ordered = Found
    BY <1>0, <2>2
  <2>4. QED
    BY <2>1, <2>3 DEF SortInv, Ordered, Found
<1>6. CASE pc' = "idle" \/ pc' = "scan"
  BY <1>6 DEF SortInv
<1>7. CASE EndOfSource /\ pc' = "sort"
  <2>1. pc = "scan" /\ UNCHANGED sorting
    BY <1>7 DEF EndOfSource
  <2>2. sorting'.k = 1
    BY <2>1 DEF BuildInv, PhaseInv
  <2>3. QED
    BY <1>7, <2>2 DEF SortInv
<1>8. CASE /\ UNCHANGED <<modules, build_order, deps, sorting>>
           /\ pc' = pc \/ {pc, pc'} \subseteq {"decide", "compile", "bind"}
  BY <1>8 DEF SortInv, Ordered, Found, Ready
<1>9. QED
  BY <1>1, <1>2, <1>3, <1>4, <1>5, <1>6, <1>7, <1>8
     DEF Next, BuildStep, StartBuild, ScanUse, EndOfSource, Decide, Skip,
         Compile, EndCompile, BindAndAssemble, Exit, Edit, Tick, vars, discovery

\* Where Order starts.
LEMMA SortingInit == Init => Sorting!Init
<1> SUFFICES ASSUME Init PROVE Sorting!Init
  OBVIOUS
<1>1. ToSet(modules) = {}
  BY DEF Init, ToSet
<1>2. QED
  BY <1>1 DEF Init, Sorting!Init

\* What Order calls placed and left.
LEMMA PlacedOrdered ==
    ASSUME BuildInv
    PROVE  Sorting!Placed = Ordered /\ Sorting!Left = Found \ Ordered
BY DEF BuildInv, ProcessInv, Ordered, Found, ToSet, Sorting!Placed, Sorting!Left

\* A module that is left may be appended once the sort is sealed, and none has to be.
LEMMA Arranged ==
    ASSUME NEW S \in SUBSET Mod
    PROVE  /\ << >> \in Sorting!Arrangements(S)
           /\ \A m \in S : <<m>> \in Sorting!Arrangements(S)
<1>1. IsFiniteSet(S) /\ Cardinality(S) \in Nat
  BY BuildAssumption, FS_Subset, FS_CardinalityType
<1>0. Sorting!Cardinality(S) = Cardinality(S)
  BY DEF Sorting!Cardinality, Cardinality, Sorting!IsFiniteSet, IsFiniteSet
<1>2. << >> \in Sorting!Injection(1 .. 0, S)
  BY DEF Sorting!Injection, Sorting!IsInjective
<1>3. << >> \in Sorting!Arrangements(S)
  <2>1. 0 \in 0 .. Cardinality(S)
    BY <1>1
  <2>2. QED
    BY <1>0, <1>2, <2>1 DEF Sorting!Arrangements
<1>4. ASSUME NEW m \in S PROVE <<m>> \in Sorting!Arrangements(S)
  <2>1. Cardinality(S) # 0
    BY <1>1, FS_EmptySet
  <2>2. 1 \in 0 .. Cardinality(S)
    BY <1>1, <2>1
  <2>3. <<m>> \in Sorting!Injection(1 .. 1, S)
    BY DEF Sorting!Injection, Sorting!IsInjective
  <2>4. QED
    BY <1>0, <2>2, <2>3 DEF Sorting!Arrangements
<1>5. QED
  BY <1>3, <1>4

\* Every step of the driver and of the programmer is one that Order allows, or
\* changes nothing Order speaks of.
LEMMA SortingNext ==
    BuildInv /\ BuildInv' /\ SortInv /\ [Next]_vars => [Sorting!Next]_Sorting!vars
<1> SUFFICES ASSUME BuildInv, BuildInv', SortInv, [Next]_vars
             PROVE  [Sorting!Next]_Sorting!vars
  OBVIOUS
<1> DEFINE sealed == pc \in {"rest", "decide", "compile", "bind"}
<1>1. /\ Found \subseteq Mod /\ deps \in [Mod -> SUBSET Mod] /\ build_order \in Seq(Mod)
      /\ Found' \subseteq Mod /\ deps' \in [Mod -> SUBSET Mod]
  BY DEF BuildInv, ProcessInv, Found, ToSet
<1>2. ASSUME UNCHANGED <<modules, deps, build_order, sealed>> PROVE UNCHANGED Sorting!vars
  BY <1>2 DEF Sorting!vars
<1>3. ASSUME pc \in {"idle", "scan"}, ~sealed', UNCHANGED build_order
      PROVE  Sorting!Next
  <2>1. build_order = << >> /\ ~sealed
    BY <1>3 DEF BuildInv, PhaseInv
  <2>2. Sorting!Discover
    BY <1>1, <1>3, <2>1 DEF Sorting!Discover, Found
  <2>3. QED
    BY <2>2 DEF Sorting!Next
<1>4. ASSUME sealed, Ordered = Found, ~sealed', build_order' = << >>
      PROVE  Sorting!Next
  <2>1. Sorting!Left = {}
    BY <1>4, PlacedOrdered
  <2>2. Sorting!Restart
    BY <1>1, <1>4, <2>1 DEF Sorting!Restart, Found
  <2>3. QED
    BY <2>2 DEF Sorting!Next
<1>5. ASSUME sealed \/ \A m \in Found \ Ordered : ~Ready(m), sealed', UNCHANGED <<modules, deps>>,
             \/ UNCHANGED build_order
             \/ \E m \in Found \ Ordered : build_order' = Append(build_order, m)
      PROVE  Sorting!Next
  <2>1. sealed \/ \A m \in Sorting!Left : ~Sorting!Ready(m)
    BY <1>5, PlacedOrdered DEF Sorting!Ready, Ready
  <2>2. build_order \o << >> = build_order
    BY <1>1
  <2>3. \A m \in Mod : Append(build_order, m) = build_order \o <<m>>
    BY <1>1, AppendIsConcat
  <2>4. \E s \in Sorting!Arrangements(Sorting!Left) : build_order' = build_order \o s
    <3>1. CASE UNCHANGED build_order
      <4>1. << >> \in Sorting!Arrangements(Sorting!Left)
        BY <1>1, PlacedOrdered, Arranged
      <4>2. QED
        BY <2>2, <3>1, <4>1
    <3>2. CASE \E m \in Found \ Ordered : build_order' = Append(build_order, m)
      <4>1. PICK m \in Found \ Ordered : build_order' = Append(build_order, m)
        BY <3>2
      <4>2. <<m>> \in Sorting!Arrangements(Sorting!Left)
        BY <1>1, PlacedOrdered, Arranged
      <4>3. QED
        BY <1>1, <2>3, <4>1, <4>2
    <3>3. QED
      BY <1>5, <3>1, <3>2
  <2>5. Sorting!PlaceRest
    BY <1>5, <2>1, <2>4 DEF Sorting!PlaceRest
  <2>6. QED
    BY <2>5 DEF Sorting!Next
<1>6. /\ Len(modules) \in Nat /\ sorting.k \in 1 .. Len(modules) + 1 /\ modules \in Seq(Mod)
      /\ sorting.k <= Len(modules) => modules[sorting.k] \in Found
      /\ \A m \in Found : \E j \in 1 .. Len(modules) : m = modules[j]
  <2>1. Len(modules) \in Nat /\ sorting.k \in 1 .. Len(modules) + 1 /\ modules \in Seq(Mod)
    BY DEF BuildInv, ProcessInv
  <2>2. sorting.k <= Len(modules) => sorting.k \in 1 .. Len(modules)
    BY <2>1
  <2>3. QED
    BY <2>1, <2>2 DEF Found, ToSet
<1>7. CASE StartBuild \/ ScanUse \/ EndOfSource
  <2>1. pc \in {"idle", "scan"} /\ pc' \in {"scan", "sort"} /\ UNCHANGED build_order
    BY <1>7 DEF StartBuild, ScanUse, EndOfSource
  <2>2. QED
    BY <1>3, <2>1
<1>8. CASE SortModule
  <2>1. pc = "sort" /\ pc' = "sort" /\ sorting.k <= Len(modules) /\ UNCHANGED <<modules, deps>>
    BY <1>8 DEF SortModule, discovery
  <2>2. CASE UNCHANGED build_order
    BY <1>2, <2>1, <2>2
  <2>3. CASE /\ modules[sorting.k] \notin Ordered /\ Ready(modules[sorting.k])
             /\ build_order' = Append(build_order, modules[sorting.k])
    <3>1. PICK m \in Found : m = modules[sorting.k]
      BY <1>6, <2>1
    <3>2. Sorting!Ready(m)
      BY <2>3, <3>1, PlacedOrdered DEF Sorting!Ready, Ready
    <3>3. Sorting!Place(m)
      BY <2>1, <2>3, <3>1, <3>2 DEF Sorting!Place
    <3>4. QED
      BY <1>1, <3>3 DEF Sorting!Next
  <2>4. QED
    BY <1>8, <2>2, <2>3 DEF SortModule
<1>9. CASE StartRest
  <2>1. /\ pc = "sort" /\ sorting.k > Len(modules) /\ ~sorting.changed
        /\ pc' = "rest" /\ UNCHANGED <<modules, deps, build_order>>
    BY <1>9 DEF StartRest, discovery
  <2>2. \A m \in Found \ Ordered : ~Ready(m)
    <3>1. \A j \in 1 .. Len(modules) : j \in 1 .. sorting.k - 1
      BY <1>6, <2>1
    <3>2. QED
      BY <1>6, <2>1, <3>1 DEF SortInv
  <2>3. QED
    BY <1>5, <2>1, <2>2
<1>10. CASE AddRest
  <2>1. pc = "rest" /\ pc' = "rest" /\ sorting.k <= Len(modules) /\ UNCHANGED <<modules, deps>>
    BY <1>10 DEF AddRest, discovery
  <2>2. UNCHANGED build_order \/ \E m \in Found \ Ordered : build_order' = Append(build_order, m)
    BY <1>6, <1>10, <2>1 DEF AddRest
  <2>3. QED
    BY <1>5, <2>1, <2>2
<1>11. CASE SortAgain \/ EndSort \/ Decide \/ Skip \/ Compile \/ (EndCompile /\ ~(errors > 0))
            \/ Edit \/ Tick \/ UNCHANGED vars
  <2>1. /\ UNCHANGED <<modules, deps, build_order>>
        /\ pc' = pc \/ {pc, pc'} \subseteq {"rest", "decide", "compile", "bind"}
    BY <1>11 DEF SortAgain, EndSort, Decide, Skip, Compile, EndCompile, Edit, Tick, vars, discovery
  <2>2. QED
    BY <1>2, <2>1
<1>12. CASE BindAndAssemble \/ (EndCompile /\ errors > 0)
  <2>1. /\ pc \in {"compile", "bind"} /\ pc' = "idle" /\ build_order' = << >>
    BY <1>12 DEF BindAndAssemble, EndCompile, Exit
  <2>2. QED
    BY <1>4, <2>1 DEF SortInv
<1>13. QED
  BY <1>7, <1>8, <1>9, <1>10, <1>11, <1>12 DEF Next, BuildStep

\* topo_sort() orders the modules found the way Order allows, in every build: no
\* module before one it uses unless it is on a cycle or above one, and a build that
\* ends has ordered all it found.
THEOREM SortsModulesCorrect == Spec => SortsModules
<1>1. Init => SortInv
  BY DEF Init, SortInv
<1>2. Spec => [](BuildInv /\ SortInv)
  BY <1>1, BuildInit, BuildNext, SortNext, PTL DEF Spec
<1>3. QED
  BY <1>2, SortingInit, SortingNext, PTL DEF Spec, SortsModules, Sorting!Spec

-----------------------------------------------------------------------------
(* Forced builds.  Without cycles every module is compiled after what it    *)
(* uses, so that, in a forced build, what it reads is current.              *)

\* A graph without cycles always has a next module to order.
LEMMA SomeReady ==
    ASSUME BuildInv, DiscoveryInv, pc \notin {"idle", "scan"}, Acyclic, Found \ Ordered # {}
    PROVE  \E m \in Found \ Ordered : Ready(m)
<1> DEFINE Size(m) == Cardinality(Below(m))
           Sizes == {Size(m) : m \in Found \ Ordered}
<1>1. world \in World /\ Found \subseteq Mod /\ \A m \in Found : deps[m] = ToSet(uses[m])
  BY Discovered DEF BuildInv, FilesInv
<1>2. \A m \in Mod : Below(m) \in SUBSET Mod /\ IsFiniteSet(Below(m)) /\ Size(m) \in Nat
  BY <1>1, BelowIs, BuildAssumption, FS_Subset, FS_CardinalityType
<1>3. PICK m \in Found \ Ordered : \A d \in Found \ Ordered : Size(m) <= Size(d)
  <2>1. Sizes \subseteq Nat /\ Sizes # {}
    BY <1>1, <1>2
  <2>2. PICK n \in Sizes : \A l \in Sizes : n <= l
    <3> HIDE DEF Sizes
    <3>1. QED
      BY <2>1, SmallestElement
  <2>3. QED
    BY <2>2
<1>4. ASSUME NEW d \in deps[m], d \notin Ordered PROVE FALSE
  <2>1. d \in Found \ Ordered /\ d \in ToSet(uses[m]) /\ d \in Mod /\ m \in Mod
    BY <1>1, <1>3, <1>4 DEF DiscoveryInv
  <2>2. Below(d) \subseteq Below(m) /\ m \in Below(m)
    BY <1>1, <2>1, BelowSteps
  <2>3. m \notin Below(d)
    BY <2>1 DEF Acyclic
  <2>4. Size(d) <= Size(m) /\ (Size(d) = Size(m) => Below(d) = Below(m))
    BY <1>2, <2>1, <2>2, FS_Subset
  <2>5. Size(d) # Size(m)
    BY <2>2, <2>3, <2>4
  <2>6. Size(m) <= Size(d) /\ Size(d) \in Nat /\ Size(m) \in Nat
    BY <1>2, <1>3, <2>1
  <2> HIDE DEF Size
  <2>7. QED
    BY <2>4, <2>5, <2>6
<1>5. QED
  BY <1>3, <1>4 DEF Ready

\* What modules use never changes.
LEMMA WorldKept ==
    ASSUME [Next]_vars
    PROVE  /\ UNCHANGED <<world, uses, Acyclic>>
           /\ \A m \in Mod : Below(m)' = Below(m)
<1>1. UNCHANGED world
  BY DEF Next, BuildStep, StartBuild, ScanUse, EndOfSource, SortModule, SortAgain, StartRest,
         AddRest, EndSort, Decide, Skip, Compile, EndCompile, BindAndAssemble, Edit, Tick, vars
<1>2. UNCHANGED uses
  BY <1>1 DEF uses
<1>3. UNCHANGED Reach
  BY <1>2 DEF Reach
<1>4. \A m \in Mod : Below(m)' = Below(m)
  BY <1>3 DEF Below
<1>5. UNCHANGED Acyclic
  BY <1>2, <1>3 DEF Acyclic, Below
<1>6. QED
  BY <1>1, <1>2, <1>4, <1>5

Before(k) == {build_order[j] : j \in 1 .. k - 1}
Fresh(m) == nir[m].from = Current(m) /\ nif[m].from = Current(m)

\* Without cycles, dependencies come first and no module is left over.
EarlyInv ==
    Acyclic =>
        /\ \A k \in 1 .. Len(build_order) : deps[build_order[k]] \subseteq Before(k)
        /\ pc \in {"rest", "decide", "compile", "bind"} => Ordered = Found

\* In a forced build, what was compiled so far is current unless a compilation
\* failed; so is what a build has bound.
FreshInv ==
    /\ pc \in {"compile", "bind"} /\ force /\ Acyclic =>
          /\ needs = Found
          /\ errors = 0 => \A k \in 1 .. i - 1 : Fresh(build_order[k])
    /\ pc = "bind" => errors = 0 /\ i = Len(build_order) + 1
    /\ result = "ok" => pc = "idle"
    /\ ForcedBuildCurrent

\* Ordering puts dependencies first.
LEMMA EarlyNext ==
    BuildInv /\ DiscoveryInv /\ SortInv /\ EarlyInv /\ [Next]_vars => EarlyInv'
<1> SUFFICES ASSUME BuildInv, DiscoveryInv, SortInv, EarlyInv, [Next]_vars, Acyclic
             PROVE  /\ \A k \in 1 .. Len(build_order') :
                          deps'[build_order'[k]] \subseteq Before(k)'
                    /\ pc' \in {"rest", "decide", "compile", "bind"} => Ordered' = Found'
  BY WorldKept DEF EarlyInv
<1>1. /\ \A k \in 1 .. Len(build_order) : deps[build_order[k]] \subseteq Before(k)
      /\ pc \in {"rest", "decide", "compile", "bind"} => Ordered = Found
  BY DEF EarlyInv
<1>2. build_order \in Seq(Mod) /\ Len(build_order) \in Nat /\ Ordered = Before(Len(build_order) + 1)
  BY DEF BuildInv, ProcessInv, Ordered, ToSet, Before
<1>3. CASE build_order' = << >> /\ pc' \notin {"rest", "decide", "compile", "bind"}
  BY <1>3
<1>4. CASE /\ UNCHANGED <<build_order, deps, modules>>
           /\ pc' = pc \/ {pc, pc'} \subseteq {"rest", "decide", "compile", "bind"}
  BY <1>1, <1>4 DEF Before, Ordered, Found
<1>5. CASE SortModule /\ build_order' # build_order
  <2>1. PICK m \in Mod : /\ m \in Found /\ m \notin Ordered /\ Ready(m)
                         /\ build_order' = Append(build_order, m)
    BY <1>5 DEF SortModule, BuildInv, ProcessInv, Found, ToSet
  <2>2. /\ Len(build_order') = Len(build_order) + 1 /\ build_order'[Len(build_order) + 1] = m
        /\ \A k \in 1 .. Len(build_order) : build_order'[k] = build_order[k]
    BY <2>1, OrderMore
  <2>3. \A k \in 1 .. Len(build_order) + 1 : Before(k)' = Before(k)
    BY <1>2, <2>2 DEF Before
  <2>4. deps' = deps /\ pc' = "sort"
    BY <1>5 DEF SortModule, discovery
  <2>5. deps[m] \subseteq Before(Len(build_order) + 1)
    BY <1>2, <2>1 DEF Ready
  <2>6. \A k \in 1 .. Len(build_order') : k \in 1 .. Len(build_order) \/ k = Len(build_order) + 1
    BY <1>2, <2>2
  <2>7. QED
    BY <1>1, <1>2, <2>2, <2>3, <2>4, <2>5, <2>6
<1>6. CASE StartRest
  <2>1. /\ pc = "sort" /\ pc' = "rest" /\ sorting.k > Len(modules) /\ ~sorting.changed
        /\ UNCHANGED <<modules, deps, build_order>>
    BY <1>6 DEF StartRest, discovery
  <2>2. \A m \in Found \ Ordered : ~Ready(m)
    <3>1. Len(modules) \in Nat /\ sorting.k \in Nat
      BY DEF BuildInv, ProcessInv
    <3>2. \A j \in 1 .. Len(modules) : j \in 1 .. sorting.k - 1
      BY <2>1, <3>1
    <3>3. \A m \in Found : \E j \in 1 .. Len(modules) : m = modules[j]
      BY DEF BuildInv, ProcessInv, Found, ToSet
    <3>4. QED
      BY <2>1, <3>2, <3>3 DEF SortInv
  <2>3. Found \ Ordered = {}
    BY <2>1, <2>2, SomeReady
  <2>4. Ordered = Found
    BY <2>3 DEF BuildInv, ProcessInv, Found
  <2>5. QED
    BY <1>1, <2>1, <2>4 DEF Before, Ordered, Found
<1>7. CASE AddRest
  <2>1. pc = "rest" /\ pc' = "rest" /\ sorting.k <= Len(modules) /\ UNCHANGED <<modules, deps>>
    BY <1>7 DEF AddRest, discovery
  <2>2. modules[sorting.k] \in Ordered
    BY <1>1, <2>1 DEF Found, ToSet, BuildInv, ProcessInv
  <2>3. UNCHANGED build_order
    BY <1>7, <2>2 DEF AddRest
  <2>4. QED
    BY <1>4, <2>1, <2>3
<1>8. CASE pc \in {"idle", "scan"} /\ UNCHANGED build_order
           /\ pc' \notin {"rest", "decide", "compile", "bind"}
  BY <1>3, <1>8 DEF BuildInv, PhaseInv
<1>9. CASE SortModule /\ UNCHANGED build_order
  BY <1>4, <1>9 DEF SortModule, discovery
<1>10. QED
  BY <1>3, <1>4, <1>5, <1>6, <1>7, <1>8, <1>9
     DEF Next, BuildStep, StartBuild, ScanUse, EndOfSource, SortAgain, EndSort, Decide, Skip,
         Compile, EndCompile, BindAndAssemble, Exit, Edit, Tick, vars, discovery

\* A module without errors that reads current interfaces becomes current.
LEMMA CompiledFresh ==
    ASSUME BuildInv, DiscoveryInv, EarlyInv, FreshInv, Compile, Acyclic, force, errors' = 0
    PROVE  \A k \in 1 .. i' - 1 : Fresh(build_order[k])'
<1> DEFINE m == build_order[i]
           read == UNION {nif[d].from : d \in deps[m]}
<1>1. /\ pc = "compile" /\ i <= Len(build_order) /\ i' = i + 1 /\ UNCHANGED src
  BY DEF Compile
<1>2. i \in Nat /\ i \in 1 .. Len(build_order) /\ build_order \in Seq(Mod) /\ m \in Mod
      /\ Distinct(build_order) /\ Ordered \subseteq Found
  BY <1>1 DEF BuildInv, ProcessInv, Found
<1>3. PICK fails \in BOOLEAN, t \in Times(clock) : \E from :
          /\ from = IF fails THEN {<<m, 0>>} ELSE {<<m, src[m].ver>>} \cup read
          /\ nir' = [nir EXCEPT ![m] = [mtime |-> t[1], from |-> from]]
          /\ nif' = [nif EXCEPT ![m] = [mtime |-> t[2], from |-> from]]
          /\ errors' = IF fails THEN errors + 1 ELSE errors
  BY DEF Compile
<1>4. PICK from :
          /\ from = IF fails THEN {<<m, 0>>} ELSE {<<m, src[m].ver>>} \cup read
          /\ nir' = [nir EXCEPT ![m] = [mtime |-> t[1], from |-> from]]
          /\ nif' = [nif EXCEPT ![m] = [mtime |-> t[2], from |-> from]]
  BY <1>3
<1>5. errors \in Nat /\ ~fails /\ errors = 0
  BY <1>3 DEF BuildInv, ProcessInv
<1>6. \A k \in 1 .. i - 1 : Fresh(build_order[k])
  BY <1>1, <1>5 DEF FreshInv
<1>7. m \in Found /\ world \in World /\ deps[m] = ToSet(uses[m])
  <2>1. m \in Found
    BY <1>2 DEF Ordered, ToSet
  <2>2. QED
    BY <1>1, <2>1, Discovered DEF BuildInv, FilesInv
<1>8. \A d \in deps[m] : nif[d].from = Current(d)
  <2>1. deps[m] \subseteq Before(i)
    BY <1>2 DEF EarlyInv
  <2>2. QED
    BY <1>6, <2>1 DEF Before, Fresh
<1>9. from = Current(m)
  <2>1. Below(m) = {m} \cup UNION {Below(d) : d \in deps[m]}
    BY <1>2, <1>7, BelowSteps
  <2>2. read = UNION {Current(d) : d \in deps[m]}
    BY <1>8
  <2>3. from = {<<m, src[m].ver>>} \cup read
    BY <1>4, <1>5
  <2> HIDE DEF m, read
  <2>4. QED
    BY <2>1, <2>2, <2>3 DEF Current
<1>10. \A d \in Mod : Current(d)' = Current(d)
  BY <1>1, WorldKept DEF Current, Next, BuildStep
<1>11. ASSUME NEW k \in 1 .. i' - 1 PROVE Fresh(build_order[k])'
  <2>1. UNCHANGED build_order /\ build_order[k] \in Mod
    BY <1>1, <1>2 DEF Compile
  <2> DEFINE new1 == [mtime |-> t[1], from |-> from]
             new2 == [mtime |-> t[2], from |-> from]
  <2>2. new1.from = from /\ new2.from = from /\ nir' = [nir EXCEPT ![m] = new1]
        /\ nif' = [nif EXCEPT ![m] = new2]
    BY <1>4
  <2> HIDE DEF new1, new2
  <2>3. CASE k = i
    <3>1. nir'[m].from = from /\ nif'[m].from = from
      BY <1>2, <2>2 DEF BuildInv, FilesInv
    <3>2. QED
      BY <1>2, <1>9, <1>10, <2>1, <2>3, <3>1 DEF Fresh
  <2>4. CASE k # i
    <3>1. k \in 1 .. i - 1 /\ k \in 1 .. Len(build_order)
      BY <1>1, <1>2, <2>4
    <3>2. build_order[k] # m
      BY <1>2, <2>4, <3>1 DEF Distinct
    <3>3. nir'[build_order[k]] = nir[build_order[k]] /\ nif'[build_order[k]] = nif[build_order[k]]
      BY <2>1, <2>2, <3>2 DEF BuildInv, FilesInv
    <3>4. QED
      BY <1>6, <1>10, <2>1, <3>1, <3>3 DEF Fresh
  <2>5. QED
    BY <2>3, <2>4
<1>12. QED
  BY <1>11

\* What is bound after a forced build without errors is current.
LEMMA BoundFresh ==
    ASSUME BuildInv, DiscoveryInv, EarlyInv, FreshInv, BindAndAssemble, Acyclic, force
    PROVE  binary' = Current(Root)
<1>1. pc = "bind" /\ errors = 0 /\ i = Len(build_order) + 1 /\ build_order \in Seq(Mod)
      /\ binary' = UNION {nir[m].from : m \in Ordered}
  BY DEF BindAndAssemble, FreshInv, BuildInv, ProcessInv
<1>2. Ordered = Found /\ Found = Below(Root) /\ Found \subseteq Mod /\ world \in World
  BY <1>1, Discovered DEF EarlyInv, BuildInv, FilesInv
<1>3. \A m \in Ordered : nir[m].from = Current(m)
  <2>1. \A k \in 1 .. Len(build_order) : k \in 1 .. i - 1
    BY <1>1
  <2>2. QED
    BY <1>1, <2>1 DEF FreshInv, Fresh, Ordered, ToSet
<1>4. \A m \in Found : Below(m) \subseteq Below(Root)
  BY <1>2, BelowIs, BuildAssumption
<1>5. \A m \in Found : Current(m) \subseteq Current(Root)
  BY <1>4 DEF Current
<1>6. Root \in Found
  BY <1>1 DEF DiscoveryInv
<1>7. UNION {Current(m) : m \in Found} = Current(Root)
  BY <1>5, <1>6
<1>8. QED
  BY <1>1, <1>2, <1>3, <1>7

\* What a forced build makes is current, and stays so until the next edit or build.
LEMMA FreshNext ==
    BuildInv /\ DiscoveryInv /\ EarlyInv /\ FreshInv /\ [Next]_vars => FreshInv'
<1> SUFFICES ASSUME BuildInv, DiscoveryInv, EarlyInv, FreshInv, [Next]_vars PROVE FreshInv'
  OBVIOUS
<1>0. UNCHANGED <<world, Acyclic>> /\ \A m \in Mod : Below(m)' = Below(m)
  BY WorldKept
<1>1. ASSUME UNCHANGED src PROVE \A m \in Mod : Current(m)' = Current(m)
  BY <1>0, <1>1 DEF Current
<1>2. CASE UNCHANGED <<src, nir, nif, pc, force, modules, build_order, needs, i, errors, binary,
                       result>>
  BY <1>0, <1>1, <1>2, BuildAssumption
     DEF FreshInv, Fresh, ForcedBuildCurrent, Found, BuildInv, ProcessInv
<1>3. CASE /\ pc' \notin {"compile", "bind"} /\ result' # "ok"
  BY <1>3 DEF FreshInv, ForcedBuildCurrent
<1>4. CASE Decide
  <2>1. /\ pc' = "compile" /\ UNCHANGED <<modules, force, i, result>>
        /\ needs' = {m \in ToSet(modules) : force \/ OutOfDate(m)}
    BY <1>4 DEF Decide, discovery
  <2>2. i = 1 /\ result # "ok"
    BY <1>4 DEF Decide, BuildInv, PhaseInv, FreshInv
  <2>3. force => needs' = Found
    BY <2>1 DEF Found
  <2>4. QED
    BY <2>1, <2>2, <2>3 DEF FreshInv, ForcedBuildCurrent, Found
<1>5. CASE Skip
  <2>1. /\ pc = "compile" /\ pc' = "compile" /\ i <= Len(build_order) /\ build_order[i] \notin needs
        /\ UNCHANGED <<force, needs, modules, build_order, result>>
    BY <1>5 DEF Skip, discovery
  <2>2. build_order[i] \in Found
    <3>1. i \in 1 .. Len(build_order) /\ Ordered \subseteq Found
      BY <2>1 DEF BuildInv, ProcessInv, Found
    <3>2. QED
      BY <3>1 DEF Ordered, ToSet
  <2>3. ~(force /\ Acyclic)
    BY <2>1, <2>2 DEF FreshInv
  <2>4. QED
    BY <1>0, <2>1, <2>3 DEF FreshInv, ForcedBuildCurrent
<1>6. CASE Compile
  <2>1. /\ pc = "compile" /\ pc' = "compile"
        /\ UNCHANGED <<force, needs, modules, build_order, result>>
    BY <1>6 DEF Compile, discovery
  <2>2. result' # "ok"
    BY <2>1 DEF FreshInv
  <2>3. force' /\ Acyclic' /\ errors' = 0 => \A k \in 1 .. i' - 1 : Fresh(build_order[k])'
    BY <1>0, <1>6, <2>1, CompiledFresh
  <2>4. force' /\ Acyclic' => needs' = Found'
    BY <1>0, <2>1 DEF FreshInv, Found
  <2>5. QED
    BY <2>1, <2>2, <2>3, <2>4 DEF FreshInv, ForcedBuildCurrent, Fresh, Current
<1>7. CASE EndCompile /\ ~(errors > 0)
  <2>1. /\ pc = "compile" /\ pc' = "bind" /\ i > Len(build_order)
        /\ UNCHANGED <<src, nir, nif, force, needs, modules, build_order, i, errors, binary, result>>
    BY <1>7 DEF EndCompile, discovery, files
  <2>2. errors = 0 /\ i = Len(build_order) + 1
    BY <1>7, <2>1 DEF BuildInv, ProcessInv
  <2>3. \A k \in 1 .. i - 1 : build_order[k] \in Mod
    BY <2>2 DEF BuildInv, ProcessInv
  <2>4. \A k \in 1 .. i - 1 : Fresh(build_order[k])' <=> Fresh(build_order[k])
    BY <1>1, <2>1, <2>3 DEF Fresh
  <2>5. result' # "ok"
    BY <2>1 DEF FreshInv
  <2>6. QED
    BY <1>0, <2>1, <2>2, <2>4, <2>5 DEF FreshInv, ForcedBuildCurrent, Found
<1>8. CASE BindAndAssemble
  <2>1. pc' = "idle" /\ UNCHANGED <<src, force>>
    BY <1>8 DEF BindAndAssemble, Exit, files
  <2>2. force' /\ Acyclic' => binary' = Current(Root)'
    BY <1>0, <1>1, <1>8, <2>1, BoundFresh, BuildAssumption
  <2>3. QED
    BY <2>1, <2>2 DEF FreshInv, ForcedBuildCurrent
<1>9. CASE Tick \/ UNCHANGED vars
  BY <1>2, <1>9 DEF Tick, vars, files, discovery
<1>10. CASE EndCompile /\ errors > 0
  BY <1>3, <1>10 DEF EndCompile, Exit
<1>11. CASE \/ StartBuild \/ ScanUse \/ EndOfSource \/ SortModule \/ SortAgain \/ StartRest
            \/ AddRest \/ EndSort \/ Edit
  BY <1>3, <1>11
     DEF FreshInv, StartBuild, ScanUse, EndOfSource, SortModule, SortAgain, StartRest, AddRest,
         EndSort, Edit
<1>12. QED
  BY <1>4, <1>5, <1>6, <1>7, <1>8, <1>9, <1>10, <1>11 DEF Next, BuildStep

\* A forced build that completes is made from the sources as they are, whatever the
\* file times say and however earlier builds failed: dependencies are compiled
\* first, each from interfaces that are current.
THEOREM ForcedBuildCurrentCorrect == Spec => []ForcedBuildCurrent
<1>1. Init => DiscoveryInv
  BY NothingFound DEF Init
<1>2. Init => SortInv /\ EarlyInv /\ FreshInv
  <2>1. Len(<< >>) = 0
    OBVIOUS
  <2>2. QED
    BY <2>1 DEF Init, SortInv, EarlyInv, FreshInv, ForcedBuildCurrent
<1>3. Spec => [](BuildInv /\ DiscoveryInv /\ SortInv /\ EarlyInv /\ FreshInv)
  BY <1>1, <1>2, BuildInit, BuildNext, DiscoveryNext, SortNext, EarlyNext, FreshNext, PTL DEF Spec
<1>4. FreshInv => ForcedBuildCurrent
  BY DEF FreshInv
<1>5. QED
  BY <1>3, <1>4, PTL
=============================================================================
