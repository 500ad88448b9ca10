------------------------------- MODULE Alloc -------------------------------
(***************************************************************************)
(* Register allocation of one function in the binder: the per-function     *)
(* driver in main() of bind.c (pressure estimate, allocation, the retries  *)
(* without BP, coalescing of byte spills) around allocate_registers(), a   *)
(* Chaitin-Briggs allocator: pre-colour, simplify, select.                 *)
(*                                                                         *)
(* The function being bound is the variable fn: what the earlier phases    *)
(* (parsing, liveness, the interference graph, constraint scanning) hand   *)
(* to the allocator.  It never changes.                                    *)
(***************************************************************************)
EXTENDS Integers, FiniteSets, Pregs

CONSTANTS NV,         \* fn->nvregs
          Kind,       \* names for the vreg records in use
          KindInfo,   \* the record each name stands for
          Functions   \* the functions the allocator may be given

Vreg == 0 .. NV - 1

ASSUME NVAssumption == NV \in Nat \ {0}

(***************************************************************************)
(* A virtual register as the allocator sees it (vreg_info_t).  live stands *)
(* for def_pos >= 0 || last_use >= 0, remat for remat_kind != REMAT_NONE,  *)
(* mem_disp for vreg_has_mem_disp_use.                                     *)
(***************************************************************************)
VregInfo ==
    [is_byte : BOOLEAN, is_seg : BOOLEAN, needs_cl : BOOLEAN,
     needs_base : BOOLEAN, needs_index : BOOLEAN, needs_ds_addr : BOOLEAN,
     needs_addressable : BOOLEAN, fixed : BOOLEAN,
     prefer : Preg \cup {NONE}, is_stack_home : BOOLEAN,
     is_local_slot : BOOLEAN, live : BOOLEAN, remat : BOOLEAN,
     in_loop : BOOLEAN, mem_disp : BOOLEAN, use_count : Nat,
     def_pos : Int, last_use : Int, affinity : [Preg -> Int],
     group : Int, high : BOOLEAN]

ASSUME KindAssumption == KindInfo \in [Kind -> VregInfo]

\* scan_addressing_constraints() marks every vreg of an address addressable,
\* whatever part of the address it is.
ASSUME AddressAssumption ==
    \A k \in Kind :
        (KindInfo[k].needs_base \/ KindInfo[k].needs_index \/ KindInfo[k].needs_ds_addr)
            => KindInfo[k].needs_addressable

(***************************************************************************)
(* A function: its vregs, the interference graph, the call results it      *)
(* captures (vreg, ABI register, vregs live after the call), and what      *)
(* already forces a frame: stack-placed parameters or results (frame),     *)
(* stack locals (locals), and calls whose stack cleanup must keep FLAGS    *)
(* (temp_calls).                                                           *)
(***************************************************************************)
Func ==
    [vregs : [Vreg -> Kind], ig : [Vreg -> SUBSET Vreg],
     rets : SUBSET [v : Vreg, expected : Preg, after : SUBSET Vreg],
     frame : BOOLEAN, locals : BOOLEAN, temp_calls : BOOLEAN]

\* add_interference() keeps the graph symmetric and without loops, and
\* stack-placed parameters need a frame (propagate_preferences).
WellFormed(f) ==
    /\ f \in Func
    /\ \A v \in Vreg :
          /\ v \notin f.ig[v]
          /\ \A w \in f.ig[v] : v \in f.ig[w]
          /\ KindInfo[f.vregs[v]].is_stack_home => f.frame

ASSUME FunctionsAssumption == \A f \in Functions : WellFormed(f)

VARIABLES
    fn,                 \* the function being bound
    pc,                 \* where the driver or the allocator is
    cont,               \* where the driver continues after allocation
    bp_available,       \* BP may be allocated
    needs_frame,        \* the function gets a BP frame
    needs_call_temp,    \* the frame has a slot for call results
    i,                  \* loop index
    assigned,           \* vreg -> physical register
    spill_slot,         \* vreg -> frame slot, or -1
    spill_byte_offset,  \* byte of the slot a coalesced byte vreg lives in
    nspill_slots,       \* frame slots in use
    removed,            \* vregs taken out of the graph
    stack,              \* select stack of the allocator
    changed             \* a pair of byte spills was coalesced

vars == <<fn, pc, cont, bp_available, needs_frame, needs_call_temp, i,
          assigned, spill_slot, spill_byte_offset, nspill_slots, removed,
          stack, changed>>

driver == <<fn, needs_frame, needs_call_temp>>
spills == <<spill_slot, spill_byte_offset, nspill_slots, changed>>

vreg(v) == KindInfo[fn.vregs[v]]

-----------------------------------------------------------------------------
(* Costs and colours. *)

vreg_can_rematerialize(v) ==
    /\ vreg(v).remat
    /\ ~vreg(v).is_seg /\ ~vreg(v).fixed
    /\ ~vreg(v).needs_addressable /\ ~vreg(v).needs_base
    /\ ~vreg(v).needs_index /\ ~vreg(v).needs_ds_addr /\ ~vreg(v).needs_cl

\* V20 cycle counts of the binder's cost table.
mov_reg_imm16 == 4
mov_reg_mem16 == 15
mov_mem16_reg == 13
pop_reg16     == 12

uses(v) == IF vreg(v).use_count <= 0 THEN 1 ELSE vreg(v).use_count
vreg_loop_weight(v) == IF vreg(v).in_loop THEN 10 ELSE 1
vreg_frame_spill_cost(v) ==
    (mov_mem16_reg + uses(v) * mov_reg_mem16) * vreg_loop_weight(v)
vreg_remat_cost(v) == uses(v) * mov_reg_imm16 * vreg_loop_weight(v)

\* stack_spill_eligible is only set after allocation, so the stack-cache
\* alternative is never the cheapest here.
vreg_best_spill_cost(v) ==
    IF vreg_can_rematerialize(v) /\ vreg_remat_cost(v) < vreg_frame_spill_cost(v)
    THEN vreg_remat_cost(v) ELSE vreg_frame_spill_cost(v)

spill_cost(v) ==
    LET range == vreg(v).last_use - vreg(v).def_pos
        cost  == vreg_best_spill_cost(v) * 100
                 + (IF vreg(v).fixed THEN 10000
                    ELSE IF vreg(v).prefer # NONE THEN 500 ELSE 0)
                 - (IF range > 0 THEN range * pop_reg16 ELSE 0)
    IN  IF cost < 1 THEN 1 ELSE cost

\* Faulty variant: byte halves are not taken to clash with their word.
color_conflicts_exact(v, preg) ==
    \E w \in fn.ig[v] : assigned[w] = preg

color_conflicts(v, preg) ==
    \E w \in fn.ig[v] : assigned[w] # NONE /\ pregs_alias(assigned[w], preg)

byte_interference_count(v) == Cardinality({w \in fn.ig[v] : vreg(w).is_byte})

color_speed_score(v, preg, pool_index) ==
    LET byte_edges == byte_interference_count(v)
        general == /\ ~vreg(v).is_byte /\ ~vreg(v).is_seg
                   /\ ~vreg(v).needs_addressable \/ vreg(v).mem_disp
                   /\ ~vreg(v).needs_base /\ ~vreg(v).needs_index
                   /\ ~vreg(v).needs_cl
    IN  (IF vreg(v).prefer = preg THEN 10000 ELSE 0) - pool_index
        + vreg(v).affinity[preg] * 100
        + (IF ~general THEN 0
           ELSE IF preg \in SplitWords THEN - byte_edges * 250
           ELSE IF preg \in {"SI", "DI"} THEN byte_edges * 50 ELSE 0)

Pool(v) == PoolSet(vreg(v), bp_available)

\* The register choose_color() returns for v: the free register of the pool
\* with the best score, the first of equals.
is_choose_color(v, preg) ==
    LET pool  == get_vreg_pool(vreg(v), bp_available)
        free  == {k \in 1..Len(pool) : ~color_conflicts(v, pool[k])}
        score(k) == color_speed_score(v, pool[k], k - 1)
    IN  \E k \in free :
            /\ preg = pool[k]
            /\ \A m \in free : \/ score(m) < score(k)
                               \/ score(m) = score(k) /\ k <= m

active_deg(v) ==
    Cardinality({w \in fn.ig[v] \ removed : pools_may_alias(Pool(v), Pool(w))})

TriviallyColorable(v) ==
    active_deg(v) < Len(get_vreg_pool(vreg(v), bp_available))

\* The scan for the cheapest vreg settles on v rather than w: v costs less,
\* or as much and comes first.
cheaper(v, w) ==
    \/ spill_cost(v) < spill_cost(w)
    \/ spill_cost(v) = spill_cost(w) /\ v < w

-----------------------------------------------------------------------------
(* The driver: main() up to the first allocation. *)

\* Too many neighbours for v's pool: spills are likely.
HighPressure(v) ==
    /\ ~vreg(v).is_stack_home /\ ~vreg(v).is_local_slot
    /\ ~vreg_can_rematerialize(v)
    /\ vreg(v).live
    /\ Cardinality(fn.ig[v]) >= Len(get_vreg_pool(vreg(v), TRUE))

Unallocated ==
    /\ assigned = [v \in Vreg |-> NONE]
    /\ spill_slot = [v \in Vreg |-> -1]
    /\ spill_byte_offset = [v \in Vreg |-> 0]
    /\ nspill_slots = 0

Init ==
    /\ fn \in Functions
    /\ pc = "estimate" /\ cont = "call_temp"
    /\ bp_available = TRUE
    /\ needs_frame = fn.frame
    /\ needs_call_temp = FALSE
    /\ i = 0
    /\ Unallocated
    /\ removed = {} /\ stack = << >> /\ changed = FALSE

\* Reserve BP upfront for locals, FLAGS-preserving stack cleanup or pressure.
Estimate ==
    /\ pc = "estimate"
    /\ LET reserve == \/ fn.locals \/ fn.temp_calls
                      \/ \E v \in Vreg : HighPressure(v)
       IN  /\ bp_available' = ~reserve
           /\ needs_frame' = (needs_frame \/ reserve)
    /\ needs_call_temp' = fn.temp_calls
    /\ pc' = "fixed"
    /\ UNCHANGED <<fn, cont, i, assigned, spills, removed, stack>>

-----------------------------------------------------------------------------
(* allocate_registers(), phase 1: pre-colour. *)

\* Pinned vregs denote the hardware register itself.
ColorFixed ==
    /\ pc = "fixed"
    /\ assigned' = [v \in Vreg |->
                       IF /\ ~vreg(v).is_stack_home /\ vreg(v).fixed
                          /\ vreg(v).prefer # NONE
                       THEN vreg(v).prefer ELSE assigned[v]]
    /\ pc' = "prefer" /\ i' = 0
    /\ UNCHANGED <<driver, cont, bp_available, spills, removed, stack>>

\* Faulty variant: a preference for BP is honoured although BP is reserved.
preference_allowed_bp(v) ==
    /\ ~vreg(v).is_stack_home /\ ~vreg(v).is_local_slot
    /\ ~vreg(v).fixed
    /\ vreg(v).prefer # NONE
    /\ vreg(v).is_seg <=> vreg(v).prefer \in SegRegs
    /\ vreg(v).needs_base => vreg(v).prefer \in {"BX", "BP"}
    /\ vreg(v).needs_index => vreg(v).prefer \in {"SI", "DI"}
    /\ vreg(v).needs_addressable
          => vreg(v).prefer \in {"BX", "BP", "SI", "DI"}
    /\ vreg(v).needs_cl => vreg(v).prefer = "CL"

\* Faulty variant: an address is only checked as a base or an index.
preference_allowed_parts(v) ==
    /\ ~vreg(v).is_stack_home /\ ~vreg(v).is_local_slot
    /\ ~vreg(v).fixed
    /\ vreg(v).prefer # NONE
    /\ bp_available \/ vreg(v).prefer # "BP"
    /\ vreg(v).is_seg <=> vreg(v).prefer \in SegRegs
    /\ vreg(v).needs_base => vreg(v).prefer \in {"BX", "BP"}
    /\ vreg(v).needs_index => vreg(v).prefer \in {"SI", "DI"}
    /\ vreg(v).needs_cl => vreg(v).prefer = "CL"

\* The preferred register of v can hold v.
preference_allowed(v) ==
    LET preg == vreg(v).prefer
    IN  /\ ~vreg(v).is_stack_home /\ ~vreg(v).is_local_slot
        /\ ~vreg(v).fixed
        /\ preg # NONE
        /\ bp_available \/ preg # "BP"
        /\ vreg(v).is_seg <=> preg \in SegRegs
        /\ vreg(v).needs_base => preg \in {"BX", "BP"}
        /\ vreg(v).needs_index => preg \in {"SI", "DI"}
        /\ vreg(v).needs_addressable => preg \in {"BX", "BP", "SI", "DI"}
        /\ vreg(v).needs_cl => preg = "CL"

ColorPreferred ==
    /\ pc = "prefer" /\ i < NV
    /\ preference_allowed(i) /\ ~color_conflicts(i, vreg(i).prefer)
    /\ assigned' = [assigned EXCEPT ![i] = vreg(i).prefer]
    /\ i' = i + 1
    /\ UNCHANGED <<driver, pc, cont, bp_available, spills, removed, stack>>

SkipPreferred ==
    /\ pc = "prefer" /\ i < NV
    /\ ~(preference_allowed(i) /\ ~color_conflicts(i, vreg(i).prefer))
    /\ i' = i + 1
    /\ UNCHANGED <<driver, pc, cont, bp_available, assigned, spills, removed,
                   stack>>

(* Phase 2: simplify. *)

\* Faulty variant: a vreg with a preference is taken to have its register.
MarkRemoved_preferred ==
    /\ pc = "prefer" /\ i = NV
    /\ removed' = {v \in Vreg : \/ vreg(v).is_stack_home
                                \/ vreg(v).is_local_slot
                                \/ vreg(v).prefer # NONE
                                \/ ~vreg(v).live}
    /\ stack' = << >>
    /\ pc' = "simplify"
    /\ UNCHANGED <<driver, cont, bp_available, i, assigned, spills>>

\* Vregs that need no register, or have one, leave the graph.
MarkRemoved ==
    /\ pc = "prefer" /\ i = NV
    /\ removed' = {v \in Vreg : \/ vreg(v).is_stack_home
                                \/ vreg(v).is_local_slot
                                \/ assigned[v] # NONE
                                \/ ~vreg(v).live}
    /\ stack' = << >>
    /\ pc' = "simplify"
    /\ UNCHANGED <<driver, cont, bp_available, i, assigned, spills>>

Push(v) ==
    /\ stack' = Append(stack, v)
    /\ removed' = removed \cup {v}
    /\ UNCHANGED <<driver, pc, cont, bp_available, i, assigned, spills>>

Simplify ==
    /\ pc = "simplify"
    /\ \E v \in Vreg \ removed :
          /\ TriviallyColorable(v)
          /\ \A w \in Vreg \ removed : cheaper(w, v) => ~TriviallyColorable(w)
          /\ Push(v)

PotentialSpill ==
    /\ pc = "simplify"
    /\ \A w \in Vreg \ removed : ~TriviallyColorable(w)
    /\ \E v \in Vreg \ removed :
          /\ \A w \in Vreg \ removed : ~cheaper(w, v)
          /\ Push(v)

EndSimplify ==
    /\ pc = "simplify" /\ removed = Vreg
    /\ pc' = "select"
    /\ UNCHANGED <<driver, cont, bp_available, i, assigned, spills, removed,
                   stack>>

(* Phase 3: select. *)

Top == stack[Len(stack)]
Pop == stack' = SubSeq(stack, 1, Len(stack) - 1)

PreferenceFits(v) ==
    /\ vreg(v).prefer # NONE
    /\ bp_available \/ vreg(v).prefer # "BP"
    /\ vreg(v).prefer \in Pool(v)
    /\ ~color_conflicts(v, vreg(v).prefer)

SelectPreferred ==
    /\ pc = "select" /\ stack # << >>
    /\ PreferenceFits(Top)
    /\ assigned' = [assigned EXCEPT ![Top] = vreg(Top).prefer]
    /\ Pop
    /\ UNCHANGED <<driver, pc, cont, bp_available, i, spills, removed>>

SelectColor ==
    /\ pc = "select" /\ stack # << >>
    /\ ~PreferenceFits(Top)
    /\ \E preg \in Pool(Top) :
          /\ is_choose_color(Top, preg)
          /\ assigned' = [assigned EXCEPT ![Top] = preg]
    /\ Pop
    /\ UNCHANGED <<driver, pc, cont, bp_available, i, spills, removed>>

\* No colour is left: the vreg is recomputed at each use, or lives in a new
\* frame slot.
Spill ==
    /\ pc = "select" /\ stack # << >>
    /\ ~PreferenceFits(Top)
    /\ \A preg \in Pool(Top) : color_conflicts(Top, preg)
    /\ IF vreg_can_rematerialize(Top)
       THEN UNCHANGED <<spill_slot, nspill_slots>>
       ELSE /\ spill_slot' = [spill_slot EXCEPT ![Top] = nspill_slots]
            /\ nspill_slots' = nspill_slots + 1
    /\ Pop
    /\ UNCHANGED <<driver, pc, cont, bp_available, i, assigned,
                   spill_byte_offset, removed, changed>>

\* Faulty variant: the loop index runs on instead of being reset.
EndSelect_noreset ==
    /\ pc = "select" /\ stack = << >>
    /\ pc' = cont /\ i' = i + 1
    /\ UNCHANGED <<driver, cont, bp_available, assigned, spills, removed,
                   stack>>

EndSelect ==
    /\ pc = "select" /\ stack = << >>
    /\ pc' = cont /\ i' = 0
    /\ UNCHANGED <<driver, cont, bp_available, assigned, spills, removed,
                   stack>>

-----------------------------------------------------------------------------
(* The driver: main() after allocation. *)

\* Capturing a call result in its vreg's register may need a frame slot: the
\* result does not arrive in that register, or restoring the caller-saved
\* registers after the call would overwrite it.
call_returns_need_temp ==
    \E r \in fn.rets :
        LET actual == assigned[r.v]
            restore_reg == PushReg(actual)
        IN  /\ actual # NONE
            /\ \/ ~pregs_alias(actual, r.expected)
               \/ needs_frame /\ pregs_alias("BP", restore_reg)
               \/ \E w \in r.after \ {r.v} :
                     /\ assigned[w] \notin {NONE, "SP"}
                     /\ pregs_alias(PushReg(assigned[w]), restore_reg)

\* Forget the allocation and allocate again without BP.
Reallocate(next) ==
    /\ assigned' = [v \in Vreg |-> NONE]
    /\ spill_slot' = [v \in Vreg |-> -1]
    /\ spill_byte_offset' = [v \in Vreg |-> 0]
    /\ nspill_slots' = 0
    /\ bp_available' = FALSE
    /\ pc' = "fixed" /\ cont' = next

CheckCallTemp ==
    /\ pc = "call_temp"
    /\ needs_call_temp' = (needs_call_temp \/ call_returns_need_temp)
    /\ needs_frame' = (needs_frame \/ call_returns_need_temp)
    /\ IF call_returns_need_temp /\ ~needs_frame /\ bp_available
       THEN Reallocate("spill_retry")
       ELSE /\ pc' = "spill_retry"
            /\ UNCHANGED <<cont, bp_available, assigned, spill_slot,
                           spill_byte_offset, nspill_slots>>
    /\ UNCHANGED <<fn, i, removed, stack, changed>>

\* Faulty variants: the driver never starts over, or does so without end.
RetrySpills_never ==
    /\ pc = "spill_retry" /\ pc' = "coalesce"
    /\ UNCHANGED <<driver, cont, bp_available, i, assigned, spills, removed,
                   stack>>
RetrySpills_forever ==
    /\ pc = "spill_retry"
    /\ IF nspill_slots > 0
       THEN needs_frame' = TRUE /\ Reallocate("spill_retry")
       ELSE /\ pc' = "coalesce"
            /\ UNCHANGED <<needs_frame, cont, bp_available, assigned,
                           spill_slot, spill_byte_offset, nspill_slots>>
    /\ UNCHANGED <<fn, needs_call_temp, i, removed, stack, changed>>

\* Spill slots are addressed from BP: allocate again with BP reserved.
RetrySpills ==
    /\ pc = "spill_retry"
    /\ IF nspill_slots > 0 /\ bp_available
       THEN /\ needs_frame' = TRUE
            /\ Reallocate("coalesce")
       ELSE /\ pc' = "coalesce"
            /\ UNCHANGED <<needs_frame, cont, bp_available, assigned,
                           spill_slot, spill_byte_offset, nspill_slots>>
    /\ UNCHANGED <<fn, needs_call_temp, i, removed, stack, changed>>

(* coalesce_sibling_byte_spills(): the two halves of a word share a slot. *)

Spilled(v) ==
    /\ vreg(v).is_byte /\ spill_slot[v] >= 0
    /\ ~vreg(v).is_stack_home /\ ~vreg(v).is_local_slot

LowByteSpill(v) == vreg(v).group >= 0 /\ ~vreg(v).high /\ Spilled(v)

\* Faulty variant: a high byte already paired is offered again.
HighPeers_again(v) ==
    {w \in Vreg : /\ vreg(w).group = vreg(v).group /\ vreg(w).high
                  /\ Spilled(w)}

HighPeers(v) ==
    {w \in Vreg : /\ vreg(w).group = vreg(v).group /\ vreg(w).high
                  /\ Spilled(w) /\ spill_byte_offset[w] = 0}

peer_score(v, w) ==
    LET dist(a, b) == IF a < b THEN b - a ELSE a - b
    IN  dist(vreg(v).last_use, vreg(w).last_use) * 8
        + dist(vreg(v).def_pos, vreg(w).def_pos)

IsBestPeer(v, w) ==
    /\ w \in HighPeers(v)
    /\ \A u \in HighPeers(v) :
          \/ peer_score(v, w) < peer_score(v, u)
          \/ peer_score(v, w) = peer_score(v, u) /\ w <= u

CoalescePair ==
    /\ pc = "coalesce" /\ i < NV
    /\ LowByteSpill(i)
    /\ \E w \in Vreg :
          /\ IsBestPeer(i, w)
          /\ LET slot == IF spill_slot[w] < spill_slot[i]
                         THEN spill_slot[w] ELSE spill_slot[i]
             IN  spill_slot' = [spill_slot EXCEPT ![i] = slot, ![w] = slot]
          /\ spill_byte_offset' = [spill_byte_offset EXCEPT ![i] = 0, ![w] = 1]
    /\ changed' = TRUE
    /\ i' = i + 1
    /\ UNCHANGED <<driver, pc, cont, bp_available, assigned, nspill_slots,
                   removed, stack>>

CoalesceSkip ==
    /\ pc = "coalesce" /\ i < NV
    /\ ~LowByteSpill(i) \/ HighPeers(i) = {}
    /\ i' = i + 1
    /\ UNCHANGED <<driver, pc, cont, bp_available, assigned, spills, removed,
                   stack>>

\* compact_spill_slots(): slots are renumbered in order of first use, so a
\* slot's new number is how many slots are used before its first user.
UsedSlots == {spill_slot[w] : w \in Vreg} \ {-1}
UsedBefore(slot) ==
    {s \in UsedSlots :
        \E w \in Vreg : /\ spill_slot[w] = s
                        /\ \A u \in Vreg : spill_slot[u] = slot => w < u}

CompactSlots ==
    /\ pc = "coalesce" /\ i = NV
    /\ IF changed
       THEN /\ spill_slot' =
                  [v \in Vreg |->
                     IF spill_slot[v] < 0 THEN spill_slot[v]
                     ELSE Cardinality(UsedBefore(spill_slot[v]))]
            /\ nspill_slots' = Cardinality(UsedSlots)
       ELSE UNCHANGED <<spill_slot, nspill_slots>>
    /\ pc' = "done"
    /\ UNCHANGED <<driver, cont, bp_available, i, assigned, spill_byte_offset,
                   removed, stack, changed>>

Done == pc = "done" /\ UNCHANGED vars

Next ==
    \/ Estimate \/ ColorFixed \/ ColorPreferred \/ SkipPreferred
    \/ MarkRemoved \/ Simplify \/ PotentialSpill \/ EndSimplify
    \/ SelectPreferred \/ SelectColor \/ Spill \/ EndSelect
    \/ CheckCallTemp \/ RetrySpills
    \/ CoalescePair \/ CoalesceSkip \/ CompactSlots
    \/ Done

\* The binder is one sequential process that runs until it is done.
Spec == Init /\ [][Next]_vars /\ WF_vars(Next)

-----------------------------------------------------------------------------
(* Properties. *)

PC == {"estimate", "fixed", "prefer", "simplify", "select", "call_temp",
       "spill_retry", "coalesce", "done"}

\* The state of the allocator is well formed (func_t and the locals of
\* allocate_registers).
TypeOK ==
    /\ WellFormed(fn)
    /\ pc \in PC /\ cont \in {"call_temp", "spill_retry", "coalesce"}
    /\ bp_available \in BOOLEAN /\ needs_frame \in BOOLEAN
    /\ needs_call_temp \in BOOLEAN /\ changed \in BOOLEAN
    /\ i \in 0 .. NV
    /\ assigned \in [Vreg -> Preg \cup {NONE}]
    /\ spill_slot \in [Vreg -> Nat \cup {-1}]
    /\ spill_byte_offset \in [Vreg -> {0, 1}]
    /\ nspill_slots \in Nat
    /\ removed \subseteq Vreg
    /\ stack \in Seq(Vreg)

\* Values that are live together never share storage: interfering vregs get
\* registers that do not alias, through pre-colouring, optimistic selection
\* and the retries.  Only two registers the program itself pinned may clash.
Coloring ==
    \A v \in Vreg : \A w \in fn.ig[v] :
        pregs_alias(assigned[v], assigned[w])
            => vreg(v).fixed /\ vreg(w).fixed

\* Once BP is taken away from the allocator no vreg is left in it or given
\* it, except one the program pinned there.
BpReserved ==
    ~bp_available =>
        \A v \in Vreg : assigned[v] = "BP" => vreg(v).fixed

\* A function that ends up with spill slots, which only [BP-n] can address,
\* has a frame and was allocated with BP reserved.
SpillsHaveFrame ==
    pc = "done" /\ nspill_slots > 0 => needs_frame /\ ~bp_available

\* The frame bytes of two spilled vregs are disjoint, before and after byte
\* halves are coalesced into one slot and slots are renumbered.
SpillBytes(v) ==
    IF spill_slot[v] < 0 THEN {}
    ELSE IF vreg(v).is_byte THEN {2 * spill_slot[v] + spill_byte_offset[v]}
    ELSE {2 * spill_slot[v], 2 * spill_slot[v] + 1}

SpillsDisjoint ==
    \A v, w \in Vreg : v # w => SpillBytes(v) \cap SpillBytes(w) = {}

\* The finished frame has exactly the slots that are in use: no spilled vreg
\* lies outside it and coalescing leaves no hole.
FrameIsDense ==
    pc = "done" =>
        UsedSlots = 0 .. nspill_slots - 1

\* Every value the function computes and uses can be found again: it has a
\* register, a frame slot, or is recomputed at each use.
EveryVregStored ==
    pc = "done" =>
        \A v \in Vreg :
            vreg(v).live /\ ~vreg(v).is_stack_home /\ ~vreg(v).is_local_slot
                => \/ assigned[v] # NONE
                   \/ spill_slot[v] >= 0
                   \/ vreg_can_rematerialize(v)

\* What an instruction's encoding demands of an operand holds of the register
\* the operand is given: shift counts in CL, segments in segment registers,
\* word bases and indexes in registers that can address memory, addresses in DS
\* in a register that addresses DS, which BP does not.  Two DS addresses are
\* excepted: pre-colouring does not look at needs_ds_addr, so one that prefers
\* BP may get it; and the pool of a base is taken before that of a DS address,
\* so one that is also a base may.  Nor is a base that is also an index kept to
\* SI and DI, or a vreg to registers of its own size: pre-colouring grants a
\* byte preference to a word vreg on purpose.
RegisterClass ==
    \A v \in Vreg :
        assigned[v] # NONE /\ ~vreg(v).fixed =>
            /\ vreg(v).is_seg <=> assigned[v] \in SegRegs
            /\ ~vreg(v).is_seg /\ vreg(v).needs_cl => assigned[v] = "CL"
            /\ ~vreg(v).is_seg /\ ~vreg(v).needs_cl /\ ~vreg(v).is_byte =>
                  /\ vreg(v).needs_base => assigned[v] \in {"BX", "BP"}
                  /\ vreg(v).needs_index /\ ~vreg(v).needs_base
                        => assigned[v] \in {"SI", "DI"}
                  /\ vreg(v).needs_addressable
                        => assigned[v] \in {"BX", "BP", "SI", "DI"}
                  /\ vreg(v).needs_ds_addr
                        => \/ assigned[v] \in {"BX", "SI", "DI"}
                           \/ vreg(v).prefer = "BP"
                           \/ vreg(v).needs_base

\* Every value is stored, and where its encoding allows.
StorageSound == EveryVregStored /\ RegisterClass

\* The frame holds every spilled value, apart from the others and without holes.
FrameSound == SpillsDisjoint /\ FrameIsDense

\* The allocator always finishes, retries included.
Termination == <>(pc = "done")

=============================================================================
