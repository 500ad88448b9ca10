------------------------------- MODULE Program -------------------------------
(***************************************************************************)
(* main() of the binder: modules are placed, functions sorted, parameter   *)
(* registers propagated, clobber sets computed and the assembly written,   *)
(* in this order; errors of placement and of parameter registers end it.   *)
(* Allocation and fixup moves, between these steps, are modules of their   *)
(* own; reading the modules and the DS checks are taken to succeed.        *)
(***************************************************************************)
EXTENDS Prefer, Place

CONSTANT Inputs     \* families of programs with their interfaces and layouts

\* build_call_graph() makes both out of the call instructions.
SameCalls(p, b) ==
    \A k \in DOMAIN b.edges : LET e == b.edges[k] IN
        e.callee \in p.calls[e.caller] \cup p.tails[e.caller]

ASSUME InputsAssumption ==
    \A family \in Inputs : \A input \in family :
        /\ input.prog \in Program /\ input.abi \in AbiType /\ input.layout \in Layout
        /\ SameCalls(input.prog, input.abi)

mainVars == <<vars, preferVars, placeVars>>

BindInit ==
    \E family \in Inputs : \E input \in family :
        /\ prog = input.prog /\ abi = input.abi /\ layout = input.layout
        /\ StartSort /\ PreferInit /\ PlaceInit

\* place_module() returned.
EndPlacement ==
    /\ stage = "place" /\ EndOfWalk
    /\ stage' = IF bind_errors > 0 THEN "failed" ELSE "sort"
    /\ walk' = << >> /\ entries' = << >>
    /\ UNCHANGED <<vars, preferVars, layout, seen, current_seg, seg_stack,
                   emit_seg, bind_errors, asm>>

Placing == PlaceNext /\ UNCHANGED <<vars, preferVars>>

SortStep ==
    /\ stage = "sort"
    /\ AddLeaf \/ StartScan \/ ScanFunction \/ StartRest \/ AddRest
    /\ UNCHANGED <<preferVars, placeVars>>

Preferring == stage = "sort" /\ PreferStep /\ UNCHANGED placeVars

AbiFailed ==
    /\ stage = "sort" /\ step = "resolved" /\ pc = "rest" /\ abi_errors > 0
    /\ stage' = "failed"
    /\ UNCHANGED <<vars, preferVars, layout, placing, emit_seg, bind_errors, asm>>

Clobbering ==
    /\ stage = "sort"
    /\ \/ StartClobbers /\ step = "resolved" /\ abi_errors = 0
       \/ ComputeClobbers \/ Finish
    /\ UNCHANGED <<preferVars, placeVars>>

BeginEmission ==
    /\ stage = "sort" /\ pc = "done"
    /\ stage' = "emit" /\ Begin
    /\ UNCHANGED <<vars, preferVars, layout, emit_seg, bind_errors, asm>>

EndEmission ==
    /\ stage = "emit" /\ EndOfWalk
    /\ stage' = "done" /\ walk' = << >> /\ entries' = << >>
    /\ UNCHANGED <<vars, preferVars, layout, seen, current_seg, seg_stack,
                   emit_seg, bind_errors, asm>>

Exited == stage \in {"done", "failed"} /\ UNCHANGED mainVars

BindNext ==
    \/ Placing \/ EndPlacement \/ SortStep \/ Preferring \/ AbiFailed
    \/ Clobbering \/ BeginEmission \/ EndEmission \/ Exited

\* main() runs to its end.
BindSpec == BindInit /\ [][BindNext]_mainVars /\ WF_mainVars(BindNext)

-----------------------------------------------------------------------------
(* Properties. *)

\* The state of all parts is well formed, and no part runs before its turn.
BindTypeOK ==
    /\ TypeOK /\ PreferTypeOK /\ PlaceTypeOK
    /\ stage \in {"place", "sort", "emit", "done", "failed"}
    /\ stage \in {"emit", "done"} => pc = "done" /\ step = "resolved"

\* The binder ends, with every function ordered, for every call graph and every
\* graph of uses, cycles included: the sort scans until nothing changes, and
\* modules are expanded once.
Terminates == <>(stage = "failed" \/ (stage = "done" /\ Visited = Fn))
=============================================================================
