------------------------------ MODULE Clobbers ------------------------------
(***************************************************************************)
(* Clobber sets in the binder: which registers a call of each function may *)
(* change.  topo_sort() orders the functions callees first, main() then    *)
(* computes fn_assigns[].clobbers in that order, and call sites save the   *)
(* live registers the callee does not preserve.                            *)
(***************************************************************************)
EXTENDS Naturals, FiniteSets, Sequences, SequencesExt

CONSTANTS NF,        \* nfunctions
          Reg,       \* registers
          Ext,       \* extern functions
          Programs   \* call graphs the binder may be given

Fn == 1 .. NF

ASSUME NFAssumption == NF \in Nat /\ Ext \subseteq Nat

(***************************************************************************)
(* A program.  own[f] are the registers f's own instructions and fixups    *)
(* change (collect_insn_clobbers, collect_fixup_clobbers); calls[f] its    *)
(* call, mcall, icall and ncall sites and tails[f] its tail calls, by      *)
(* callee; preserves the declared contract, {} when there is none; ds      *)
(* tells whether a DS policy is declared.                                  *)
(***************************************************************************)
Program ==
    [own : [Fn -> SUBSET Reg],
     calls : [Fn -> SUBSET (Fn \cup Ext)], tails : [Fn -> SUBSET (Fn \cup Ext)],
     preserves : [Fn \cup Ext -> SUBSET Reg], ds : SUBSET (Fn \cup Ext)]

ASSUME ProgramsAssumption ==
    /\ Fn \cap Ext = {}
    /\ \A p \in Programs : p \in Program

VARIABLES
    prog,
    pc,          \* "leaves", "scan", "rest", "clobbers", "done"
    i,           \* loop index
    changed,     \* the scan found a function
    topo_order,
    clobbers     \* fn_assigns[].clobbers

vars == <<prog, pc, i, changed, topo_order, clobbers>>

Visited == ToSet(topo_order)
Callees(f) == (prog.calls[f] \cup prog.tails[f]) \cap Fn

-----------------------------------------------------------------------------
(* build_call_graph(), topo_sort(). *)

StartSort ==
    /\ pc = "leaves" /\ i = 1 /\ changed = FALSE
    /\ topo_order = << >>
    /\ clobbers = [f \in Fn |-> {}]

Init == prog \in Programs /\ StartSort

Visit(f) == topo_order' = Append(topo_order, f)

AddLeaf ==
    /\ pc = "leaves" /\ i <= NF
    /\ IF Callees(i) = {} THEN Visit(i) ELSE UNCHANGED topo_order
    /\ i' = i + 1
    /\ UNCHANGED <<prog, pc, changed, clobbers>>

StartScan ==
    /\ \/ pc = "leaves" /\ i = NF + 1
       \/ pc = "scan" /\ i = NF + 1 /\ changed
    /\ pc' = "scan" /\ i' = 1 /\ changed' = FALSE
    /\ UNCHANGED <<prog, topo_order, clobbers>>

\* Faulty variant: one visited callee is enough.
AllCalleesVisited_some(f) == Callees(f) \cap Visited # {}

AllCalleesVisited(f) == Callees(f) \subseteq Visited

\* Faulty variant: the scan starts over whether it found a function or not.
ScanFunction_always ==
    /\ pc = "scan" /\ i <= NF
    /\ IF i \notin Visited /\ AllCalleesVisited(i)
       THEN Visit(i) ELSE UNCHANGED topo_order
    /\ changed' = TRUE
    /\ i' = i + 1
    /\ UNCHANGED <<prog, pc, clobbers>>

ScanFunction ==
    /\ pc = "scan" /\ i <= NF
    /\ IF i \notin Visited /\ AllCalleesVisited(i)
       THEN Visit(i) /\ changed' = TRUE
       ELSE UNCHANGED <<topo_order, changed>>
    /\ i' = i + 1
    /\ UNCHANGED <<prog, pc, clobbers>>

\* Recursive functions, and their callers, come last in source order.
StartRest ==
    /\ pc = "scan" /\ i = NF + 1 /\ ~changed
    /\ pc' = "rest" /\ i' = 1
    /\ UNCHANGED <<prog, changed, topo_order, clobbers>>

\* Faulty variant: visited functions are added again.
AddRest_again ==
    /\ pc = "rest" /\ i <= NF
    /\ Visit(i)
    /\ i' = i + 1
    /\ UNCHANGED <<prog, pc, changed, clobbers>>

AddRest ==
    /\ pc = "rest" /\ i <= NF
    /\ IF i \notin Visited THEN Visit(i) ELSE UNCHANGED topo_order
    /\ i' = i + 1
    /\ UNCHANGED <<prog, pc, changed, clobbers>>

-----------------------------------------------------------------------------
(* main(): the clobber sets. *)

StartClobbers ==
    /\ pc = "rest" /\ i = NF + 1
    /\ pc' = "clobbers" /\ i' = 1
    /\ UNCHANGED <<prog, changed, topo_order, clobbers>>

DsKept(f) == IF f \in prog.ds THEN {"DS"} ELSE {}

\* What a call site adds: the callee's set as it is now, or everything an
\* extern does not declare preserved.
SiteClobbers(c) ==
    IF c \in Fn THEN clobbers[c]
    ELSE (Reg \ prog.preserves[c]) \ DsKept(c)

\* Faulty variant: calls do not count.
ComputeClobbers_own ==
    /\ pc = "clobbers" /\ i <= Len(topo_order)
    /\ LET f == topo_order[i]
       IN  clobbers' = [clobbers EXCEPT ![f] = prog.own[f] \ DsKept(f)]
    /\ i' = i + 1
    /\ UNCHANGED <<prog, pc, changed, topo_order>>

ComputeClobbers ==
    /\ pc = "clobbers" /\ i <= Len(topo_order)
    /\ LET f == topo_order[i]
           all == prog.own[f] \cup UNION {SiteClobbers(c) : c \in prog.calls[f]}
       IN  clobbers' = [clobbers EXCEPT ![f] = all \ DsKept(f)]
    /\ i' = i + 1
    /\ UNCHANGED <<prog, pc, changed, topo_order>>

Finish ==
    /\ pc = "clobbers" /\ i > Len(topo_order)
    /\ pc' = "done"
    /\ UNCHANGED <<prog, i, changed, topo_order, clobbers>>

Done == pc = "done" /\ UNCHANGED vars

Next ==
    \/ AddLeaf \/ StartScan \/ ScanFunction \/ StartRest \/ AddRest
    \/ StartClobbers \/ ComputeClobbers \/ Finish \/ Done

\* main() runs to its end.
Spec == Init /\ [][Next]_vars /\ WF_vars(Next)

-----------------------------------------------------------------------------
(* insert_fixup_moves(), emit_function(): what the sets are used for. *)

\* The registers a call site takes the callee to preserve: the declaration
\* when there is one, else what the callee does not clobber.
callee_preserves(c) ==
    (IF c \in Ext \/ prog.preserves[c] # {} THEN prog.preserves[c]
     ELSE Reg \ clobbers[c])
    \cup DsKept(c)

\* A function pushes the registers it promises to preserve and clobbers.
collect_function_save_regs(f) == prog.preserves[f] \cap clobbers[f]

\* What calling f really changes: its instructions and its callees do, its
\* epilogue restores the saved registers, a tail callee runs after that.
Changes[n \in Nat] ==
    [c \in Fn \cup Ext |->
       IF n = 0 THEN {}
       ELSE IF c \in Ext THEN (Reg \ prog.preserves[c]) \ DsKept(c)
       ELSE ((prog.own[c] \cup UNION {Changes[n - 1][d] : d \in prog.calls[c]})
                \ (collect_function_save_regs(c) \cup DsKept(c)))
            \cup UNION {Changes[n - 1][d] : d \in prog.tails[c]}]

-----------------------------------------------------------------------------
(* Properties. *)

\* topo_sort() and the clobber loop keep their state well formed; a function
\* enters the order once.
TypeOK ==
    /\ prog \in Program
    /\ pc \in {"leaves", "scan", "rest", "clobbers", "done"}
    /\ i \in 1 .. NF + 1 /\ changed \in BOOLEAN
    /\ topo_order \in Seq(Fn)
    /\ \A j, k \in 1 .. Len(topo_order) :
          topo_order[j] = topo_order[k] => j = k
    /\ clobbers \in [Fn -> SUBSET Reg]

\* f is recursive or calls something recursive.
Before[n \in Nat] ==
    IF n = 0 THEN {} ELSE {f \in Fn : Callees(f) \subseteq Before[n - 1]}
Grounded == Before[NF]

\* topo_sort() orders the call graph the way Order allows: a function once, after
\* all its callees, and before the recursive ones.
Sorting == INSTANCE Order WITH
    Node <- Fn, nodes <- Fn, needs <- [f \in Fn |-> Callees(f)],
    order <- topo_order, sealed <- pc \in {"rest", "clobbers", "done"}
SortsCallees == Sorting!Spec

\* Whatever is live across a call survives it: what the callee changes and the
\* call site does not save is nothing.
SiteSafe(c) == Changes[NF + 1][c] \cap callee_preserves(c) = {}

\* Without tail calls and recursion no call site loses a live register,
\* through any chain of calls, externs, preserves() contracts and DS policies.
AcyclicCallsSafe ==
    pc = "done" /\ (\A f \in Fn : prog.tails[f] = {}) =>
        \A f \in Grounded : \A c \in prog.calls[f] : SiteSafe(c)

\* "For internal functions without a declaration, use the computed clobber
\* set: preserves = everything not clobbered" (bind.c, insert_fixup_moves).
CallsSafe ==
    pc = "done" => \A f \in Fn : \A c \in prog.calls[f] : SiteSafe(c)
=============================================================================
