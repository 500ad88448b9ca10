------------------------------- MODULE Build -------------------------------
(***************************************************************************)
(* The build driver (build.c): discover modules through use declarations,  *)
(* order them, decide by file times which to compile, compile, bind,       *)
(* assemble.  The programmer edits sources between builds.                 *)
(*                                                                         *)
(* What a file was made from is a set of <<module, version>> pairs; version*)
(* 0 marks the output of a compilation that failed.  Times are whole       *)
(* seconds (st_mtime); 0 is the time of a file that does not exist.        *)
(***************************************************************************)
EXTENDS Naturals, FiniteSets, Sequences, SequencesExt

CONSTANTS Mod,        \* modules, as .nib paths
          Root,       \* the module named on the command line
          Worlds      \* the circumstances considered

(* A world: the use declarations; slow, when every edit and compilation    *)
(* takes at least a second; bad, when an edit may leave a semantic error;  *)
(* forced, whether builds are run with -f, without, or both; and the       *)
(* bounds on edits and on the clock.                                       *)
World ==
    [uses : [Mod -> Seq(Mod)], slow : BOOLEAN, bad : BOOLEAN,
     forced : SUBSET BOOLEAN, edits : Nat, clock : Nat]

ASSUME BuildAssumption == Root \in Mod /\ Worlds \subseteq World /\ IsFiniteSet(Mod)

VARIABLES
    world,         \* never changes
    src, nir, nif, \* the files of each module
    clock, edits,
    pc,            \* "idle", "scan", "sort", "rest", "decide", "compile", "bind"
    force,         \* -f
    work,          \* calls of scan_uses() in progress: module, next use
    modules,       \* modules found, in order
    deps,          \* dependencies found
    build_order,
    sorting,       \* index and "changed" flag of topo_sort()
    needs,         \* modules with needs_compile
    i,             \* position in build_order
    errors,
    binary,        \* what the last binary was made from
    result         \* exit of the last build: "none", "ok", "failed"

files == <<src, nir, nif>>
discovery == <<work, modules, deps>>
uses == world.uses
Slow == world.slow

vars == <<world, files, clock, edits, pc, force, discovery, build_order,
          sorting, needs, i, errors, binary, result>>

\* compile() closes the .nir before the .nif: the clock may tick in between.
Times(t) == {<<t, t>>, <<t, t + 1>>}
Later(t) == IF Slow THEN t + 1 ELSE t

Init ==
    /\ world \in Worlds
    /\ src = [m \in Mod |-> [ver |-> 1, mtime |-> 1, bad |-> FALSE]]
    /\ nir = [m \in Mod |-> [mtime |-> 0, from |-> {}]]
    /\ nif = [m \in Mod |-> [mtime |-> 0, from |-> {}]]
    /\ clock = 2 /\ edits = 0
    /\ pc = "idle" /\ force = FALSE
    /\ work = << >> /\ modules = << >> /\ deps = [m \in Mod |-> {}]
    /\ build_order = << >> /\ sorting = [k |-> 1, changed |-> FALSE]
    /\ needs = {} /\ i = 1 /\ errors = 0
    /\ binary = {} /\ result = "none"

-----------------------------------------------------------------------------
(* Between builds. *)

Edit ==
    /\ pc = "idle" /\ edits < world.edits
    /\ \E m \in Mod, bad \in BOOLEAN :
          /\ bad => world.bad
          /\ src' = [src EXCEPT ![m] =
                       [ver |-> @.ver + 1, mtime |-> clock, bad |-> bad]]
    /\ edits' = edits + 1
    /\ clock' = Later(clock)
    /\ result' = "none"
    /\ UNCHANGED <<world, nir, nif, pc, force, discovery, build_order, sorting,
                   needs, i, errors, binary>>

Tick ==
    /\ pc = "idle" /\ ~Slow /\ clock < world.clock
    /\ clock' = clock + 1
    /\ UNCHANGED <<world, files, edits, pc, force, discovery, build_order,
                   sorting, needs, i, errors, binary, result>>

StartBuild ==
    /\ pc = "idle" /\ clock < world.clock
    /\ force' \in world.forced
    /\ work' = <<[m |-> Root, next |-> 1]>>
    /\ modules' = <<Root>>
    /\ result' = "none"
    /\ pc' = "scan"
    /\ UNCHANGED <<world, files, clock, edits, deps, build_order, sorting, needs,
                   i, errors, binary>>

\* The process ends, and with it everything it knew; the files remain.
Exit(how) ==
    /\ result' = how /\ pc' = "idle"
    /\ work' = << >> /\ modules' = << >> /\ deps' = [m \in Mod |-> {}]
    /\ build_order' = << >> /\ needs' = {} /\ i' = 1 /\ errors' = 0
    /\ sorting' = [k |-> 1, changed |-> FALSE]

-----------------------------------------------------------------------------
(* add_module(), scan_uses(). *)

Scanning == work[Len(work)]

\* The next use line: a module not seen yet is scanned before the line's
\* module goes on.
ScanUse ==
    /\ pc = "scan" /\ work # << >>
    /\ Scanning.next <= Len(uses[Scanning.m])
    /\ LET d == uses[Scanning.m][Scanning.next]
           on == [work EXCEPT ![Len(work)].next = @ + 1]
       IN  /\ deps' = [deps EXCEPT ![Scanning.m] = @ \cup {d}]
           /\ IF d \in ToSet(modules)
              THEN work' = on /\ UNCHANGED modules
              ELSE /\ work' = Append(on, [m |-> d, next |-> 1])
                   /\ modules' = Append(modules, d)
    /\ UNCHANGED <<world, files, clock, edits, pc, force, build_order, sorting,
                   needs, i, errors, binary, result>>

EndOfSource ==
    /\ pc = "scan" /\ work # << >>
    /\ Scanning.next > Len(uses[Scanning.m])
    /\ work' = SubSeq(work, 1, Len(work) - 1)
    /\ pc' = IF Len(work) = 1 THEN "sort" ELSE pc
    /\ UNCHANGED <<world, files, clock, edits, force, modules, deps,
                   build_order, sorting, needs, i, errors, binary, result>>

-----------------------------------------------------------------------------
(* topo_sort(). *)

Ordered == ToSet(build_order)

\* Faulty variant: a module is ready when some dependency is.
Ready_some(m) == deps[m] = {} \/ deps[m] \cap Ordered # {}
Ready(m) == deps[m] \subseteq Ordered

SortModule ==
    /\ pc = "sort" /\ sorting.k <= Len(modules)
    /\ LET m == modules[sorting.k]
       IN  IF m \notin Ordered /\ Ready(m)
           THEN /\ build_order' = Append(build_order, m)
                /\ sorting' = [k |-> sorting.k + 1, changed |-> TRUE]
           ELSE /\ sorting' = [sorting EXCEPT !.k = @ + 1]
                /\ UNCHANGED build_order
    /\ UNCHANGED <<world, files, clock, edits, pc, force, discovery, needs, i,
                   errors, binary, result>>

SortAgain ==
    /\ pc = "sort" /\ sorting.k > Len(modules) /\ sorting.changed
    /\ sorting' = [k |-> 1, changed |-> FALSE]
    /\ UNCHANGED <<world, files, clock, edits, pc, force, discovery,
                   build_order, needs, i, errors, binary, result>>

\* Modules on a use cycle are reported and come last.
StartRest ==
    /\ pc = "sort" /\ sorting.k > Len(modules) /\ ~sorting.changed
    /\ pc' = "rest" /\ sorting' = [sorting EXCEPT !.k = 1]
    /\ UNCHANGED <<world, files, clock, edits, force, discovery, build_order,
                   needs, i, errors, binary, result>>

AddRest ==
    /\ pc = "rest" /\ sorting.k <= Len(modules)
    /\ build_order' = IF modules[sorting.k] \in Ordered THEN build_order
                      ELSE Append(build_order, modules[sorting.k])
    /\ sorting' = [sorting EXCEPT !.k = @ + 1]
    /\ UNCHANGED <<world, files, clock, edits, pc, force, discovery, needs, i,
                   errors, binary, result>>

EndSort ==
    /\ pc = "rest" /\ sorting.k > Len(modules)
    /\ pc' = "decide"
    /\ UNCHANGED <<world, files, clock, edits, force, discovery, build_order,
                   sorting, needs, i, errors, binary, result>>

-----------------------------------------------------------------------------
(* main(). *)

\* Faulty variant: the times of the dependencies are ignored.
OutOfDate_own(m) ==
    \/ nir[m].mtime = 0 \/ nif[m].mtime = 0
    \/ src[m].mtime > nir[m].mtime \/ src[m].mtime > nif[m].mtime

OutOfDate(m) ==
    \/ nir[m].mtime = 0 \/ nif[m].mtime = 0
    \/ src[m].mtime > nir[m].mtime \/ src[m].mtime > nif[m].mtime
    \/ \E d \in deps[m] : nif[d].mtime > nir[m].mtime

\* Faulty variant: -f forces the root only.
Decide_root ==
    /\ pc = "decide"
    /\ needs' = {m \in ToSet(modules) : (force /\ m = Root) \/ OutOfDate(m)}
    /\ pc' = "compile"
    /\ UNCHANGED <<world, files, clock, edits, force, discovery, build_order,
                   sorting, i, errors, binary, result>>

\* All decisions are taken before the first compilation.
Decide ==
    /\ pc = "decide"
    /\ needs' = {m \in ToSet(modules) : force \/ OutOfDate(m)}
    /\ pc' = "compile"
    /\ UNCHANGED <<world, files, clock, edits, force, discovery, build_order,
                   sorting, i, errors, binary, result>>

Skip ==
    /\ pc = "compile" /\ i <= Len(build_order) /\ build_order[i] \notin needs
    /\ i' = i + 1
    /\ UNCHANGED <<world, files, clock, edits, pc, force, discovery,
                   build_order, sorting, needs, errors, binary, result>>

\* nib reads the source and the interfaces it uses and rewrites both outputs,
\* whether it finds errors or not.
Compile ==
    /\ pc = "compile" /\ i <= Len(build_order) /\ build_order[i] \in needs
    /\ LET m    == build_order[i]
           read == UNION {nif[d].from : d \in deps[m]}
           must == src[m].bad \/ \E d \in deps[m] : nif[d].mtime = 0
           may  == \E p \in read : p[2] = 0
       IN  \E fails \in BOOLEAN, t \in Times(clock) :
              /\ must => fails
              /\ fails => must \/ may
              /\ LET from == IF fails THEN {<<m, 0>>}
                             ELSE {<<m, src[m].ver>>} \cup read
                 IN  /\ nir' = [nir EXCEPT ![m] = [mtime |-> t[1], from |-> from]]
                     /\ nif' = [nif EXCEPT ![m] = [mtime |-> t[2], from |-> from]]
              /\ errors' = IF fails THEN errors + 1 ELSE errors
              /\ clock' = Later(t[2])
    /\ i' = i + 1
    /\ UNCHANGED <<world, src, edits, pc, force, discovery, build_order,
                   sorting, needs, binary, result>>

\* Any failed compilation ends the build after the others were tried.
EndCompile ==
    /\ pc = "compile" /\ i > Len(build_order)
    /\ IF errors > 0
       THEN Exit("failed")
       ELSE /\ pc' = "bind"
            /\ UNCHANGED <<discovery, build_order, sorting, needs, i, errors,
                           result>>
    /\ UNCHANGED <<world, files, clock, edits, force, binary>>

\* nibbind takes every .nir in build order, nibasm its output.
BindAndAssemble ==
    /\ pc = "bind"
    /\ binary' = UNION {nir[m].from : m \in Ordered}
    /\ Exit("ok")
    /\ UNCHANGED <<world, files, clock, edits, force>>

BuildStep ==
    \/ StartBuild \/ ScanUse \/ EndOfSource \/ SortModule \/ SortAgain
    \/ StartRest \/ AddRest \/ EndSort \/ Decide \/ Skip \/ Compile \/ EndCompile \/ BindAndAssemble

Next == BuildStep \/ Edit \/ Tick

\* The programmer runs nibbuild again and again, and edits as they please.
Spec == Init /\ [][Next]_vars /\ WF_vars(BuildStep)

-----------------------------------------------------------------------------
(* Properties. *)

Source == [ver : Nat, mtime : Nat, bad : BOOLEAN]

\* Files, discovery, order and decisions are well formed; each module is
\* found once and ordered once.
TypeOK ==
    /\ src \in [Mod -> Source]
    /\ \A m \in Mod : nir[m].mtime \in Nat /\ nif[m].mtime \in Nat
    /\ pc \in {"idle", "scan", "sort", "rest", "decide", "compile", "bind"}
    /\ modules \in Seq(Mod) /\ Len(modules) = Cardinality(ToSet(modules))
    /\ build_order \in Seq(Mod)
    /\ Len(build_order) = Cardinality(Ordered)
    /\ deps \in [Mod -> SUBSET Mod] /\ needs \subseteq ToSet(modules)
    /\ i \in 1 .. Len(build_order) + 1 /\ errors \in 0 .. Len(build_order)
    /\ result \in {"none", "ok", "failed"}

\* Modules reached from m in up to n uses, m included.
Reach[n \in Nat] ==
    [m \in Mod |-> IF n = 0 THEN {m}
                   ELSE Reach[n - 1][m]
                        \cup UNION {ToSet(uses[d]) : d \in Reach[n - 1][m]}]
Below(m) == Reach[Cardinality(Mod)][m]
Acyclic == \A m \in Mod : \A d \in ToSet(uses[m]) : m \notin Below(d)

\* topo_sort() orders the modules found the way Order allows, build after build,
\* modules on use cycles and the dependents of such modules last.
Sorting == INSTANCE Order WITH
    Node <- Mod, nodes <- ToSet(modules), needs <- deps,
    order <- build_order, sealed <- pc \in {"rest", "decide", "compile", "bind"}
SortsModules == Sorting!Spec

Current(m) == {<<d, src[d].ver>> : d \in Below(m)}

\* A forced build that completes is made from the sources as they are, whatever
\* the file times say and however earlier builds failed.
ForcedBuildCurrent ==
    result = "ok" /\ force /\ Acyclic => binary = Current(Root)

\* Once the programmer stops editing, repeating nibbuild brings every output up
\* to date, chains of dependents and outputs of failed builds included,
\* provided no two writes fall into the same second.
EventuallyCurrent ==
    Slow /\ Acyclic =>
        <>[]((\A m \in Below(Root) : ~src[m].bad) =>
                \A m \in Below(Root) : nir[m].from = Current(m))

=============================================================================
