----------------------------- MODULE StackCache -----------------------------
(***************************************************************************)
(* Stack-cache spills of the binder (bind.c, plan_stack_cache_spills): a   *)
(* spilled vreg with one definition and one use is not kept in the frame   *)
(* but pushed right after its definition and popped right before its use,  *)
(* where the control flow between the two and the spans of the other       *)
(* cached vregs allow it; two byte siblings that share a spill word are    *)
(* pushed and popped together.  The module continues the analysis of       *)
(* Liveness: any allocation that respects the interference graph, the      *)
(* planning, vreg by vreg, and then the function with its pushes and pops  *)
(* is run along every path.                                                *)
(***************************************************************************)
EXTENDS Liveness, Pregs

CONSTANTS
    Pool,        \* registers the allocator and the plan choose from
    Siblings,    \* pairs of byte vregs <<low, high>>
    MaxDepth     \* bound on the stack of a run

ASSUME PoolAssumption ==
    /\ Pool \subseteq SplitWords /\ Siblings \subseteq Vreg \X Vreg
    /\ MaxDepth \in Nat

VARIABLES
    assigned,     \* register of a vreg, or NONE
    spilled,      \* vregs with a spill slot
    pairs,        \* siblings that share a spill word
    span,         \* stack_spill_def and stack_spill_use of the cached vregs
    pv,           \* vreg at which the planning is
    frame,        \* needs_frame
    ip, rf, slot, stk,    \* the run: instruction, registers, frame, stack
    val,          \* what each vreg should hold, <<>> before it is defined
    gen,          \* how often a vreg was defined, modulo 2
    wrong         \* vregs that were read with another value

planVars  == <<assigned, spilled, pairs, span, pv, frame>>
runVars   == <<ip, rf, slot, stk, val, gen, wrong>>
flowVars  == <<fn, blocks, b, changed, max_iter, live_in, live_out,
               def_pos, last_use, use_count, in_loop, igraph>>
cacheVars == <<vars, planVars, runVars>>

IsByte(v)   == \E p \in Siblings : v \in {p[1], p[2]}
Mentioned   == UNION {Defs(insns[i]) \cup Uses(insns[i]) : i \in Pos}
NoSpan      == [def |-> 0, use |-> 0]
Eligible(v) == span[v] # NoSpan
Junk        == <<"junk">>

-----------------------------------------------------------------------------
(* The allocation: what Alloc guarantees, and coalesce_sibling_byte_spills(). *)

Candidates(v) == IF IsByte(v) THEN UNION {Halves(w) : w \in Pool} ELSE Pool

Allocate ==
    /\ pc = "done" /\ fn.planned
    /\ \E S \in SUBSET Mentioned \ {{}} :
       \E a \in [Mentioned \ S -> UNION {Candidates(v) : v \in Mentioned}] :
          /\ \A v \in DOMAIN a :
                /\ a[v] \in Candidates(v)
                /\ \A w \in igraph[v] \cap DOMAIN a : ~pregs_alias(a[v], a[w])
          /\ spilled' = S
          /\ assigned' = [v \in Vreg |-> IF v \in DOMAIN a THEN a[v] ELSE NONE]
          /\ pairs' = {p \in Siblings : p[1] \in S /\ p[2] \in S}
    /\ pc' = "pairs" /\ pv' = 0
    /\ UNCHANGED <<flowVars, span, frame, runVars>>

-----------------------------------------------------------------------------
(* When a span is safe. *)

stack_cache_hard_barrier(ins) == ins.op \in {"exit", "barrier"}
stack_cache_has_hard_barrier(start, end) ==
    \E i \in start .. end - 1 : i \in Pos /\ stack_cache_hard_barrier(insns[i])

block_of(i) == CHOOSE k \in Block : blocks[k].start <= i /\ i < blocks[k].end

\* Blocks reached from the entry without entering the block d.
ReachedWithout(d) ==
    LET reach[n \in 0 .. NBlocks] ==
            IF n = 0 THEN {1} \ {d}
            ELSE reach[n - 1] \cup
                 UNION {blocks[k].succs \ {d} : k \in reach[n - 1]}
    IN  reach[NBlocks]
use_block_is_dominated_by_def(d, u) == d = u \/ u \notin ReachedWithout(d)

\* The part of block k that lies between the definition and the use.
ScanStart(k, def) == IF k = block_of(def) THEN def + 1 ELSE blocks[k].start
ScanEnd(k, use)   == IF k = block_of(use) THEN use ELSE blocks[k].end

\* all_paths_reach_stack_cache_use(): no path ends, repeats a block or meets
\* a barrier before the block of the use.
AllPathsReach(def, use) ==
    LET clear == {k \in Block :
                     ~stack_cache_has_hard_barrier(ScanStart(k, def), ScanEnd(k, use))}
        good[n \in 0 .. NBlocks] ==
            IF n = 0 THEN {block_of(use)} \cap clear
            ELSE good[n - 1] \cup
                 {k \in clear : blocks[k].succs # {} /\ blocks[k].succs \subseteq good[n - 1]}
    IN  good[NBlocks]

stack_cache_cfg_span_ok(def, use) ==
    IF block_of(def) = block_of(use)
    THEN ~stack_cache_has_hard_barrier(def + 1, use)
    ELSE /\ use_block_is_dominated_by_def(block_of(def), block_of(use))
         /\ block_of(def) \in AllPathsReach(def, use)

\* Definitions are those of dst: further results of a call do not count.
DefsOf(v) == {i \in Pos : insn_defines_dst(insns[i]) /\ insns[i].dst = v}
UsesOf(v) == {i \in Pos : v \in Uses(insns[i])}

\* find_stack_cache_span()
HasSpan(v) ==
    /\ Cardinality(DefsOf(v)) = 1 /\ Cardinality(UsesOf(v)) = 1
    /\ \A d \in DefsOf(v), u \in UsesOf(v) :
          d < u /\ stack_cache_cfg_span_ok(d, u)
SpanOf(v) == [def |-> Max(DefsOf(v)), use |-> Max(UsesOf(v))]

stack_cache_span_compatible(def, use) ==
    \A v \in {w \in Vreg : Eligible(w)} :
        \/ use < span[v].def \/ span[v].use < def
        \/ def < span[v].def /\ span[v].use < use
        \/ span[v].def < def /\ use < span[v].use

-----------------------------------------------------------------------------
(* The register of a cached vreg. *)

\* free_regs_at(): the vregs live above instruction i, and whether a word
\* register no part of which holds one of them.
LiveAt(i) ==
    LET k == block_of(i)
        live[j \in i .. blocks[k].end] ==
            IF j = blocks[k].end THEN live_out[k]
            ELSE (live[j + 1] \ Defs(insns[j])) \cup Uses(insns[j])
    IN  live[i]

\* Faulty variant: the registers are looked up below the instruction only.
free_regs_at_below(i, r) ==
    \A v \in LiveAt(i) \ Uses(insns[i]) : PushReg(assigned[v]) # PushReg(r)

free_regs_at(i, r) == \A v \in LiveAt(i) : PushReg(assigned[v]) # PushReg(r)

choose_stack_cache_reg(v) ==
    {r \in Candidates(v) : free_regs_at(SpanOf(v).def, r) /\
                           free_regs_at(SpanOf(v).use, r)}

preg_range_occupied_except(r, start, end, except) ==
    \E v \in Vreg \ except :
        /\ assigned[v] # NONE /\ pregs_alias(assigned[v], r)
        /\ def_pos[v] <= end /\ last_use[v] >= start

\* What an instruction defines, as far as registers are assigned.
stack_cache_parent_clobbered_in_range(r, start, end) ==
    \E i \in start .. end : \E v \in Defs(insns[i]) : pregs_alias(assigned[v], r)

Smaller(x, y) == IF x < y THEN x ELSE y
Larger(x, y)  == IF x > y THEN x ELSE y

\* The span of two siblings: pushed after both definitions, popped before
\* the first use.
PairSpan(l, h) ==
    [first |-> Smaller(SpanOf(l).def, SpanOf(h).def),
     def   |-> Larger(SpanOf(l).def, SpanOf(h).def),
     use   |-> Smaller(SpanOf(l).use, SpanOf(h).use),
     last  |-> Larger(SpanOf(l).use, SpanOf(h).use)]

\* choose_pair_stack_cache_parent(), and the test of what it chose.
choose_pair_stack_cache_parent(l, h) ==
    LET s  == PairSpan(l, h)
        parents == <<"DX", "BX", "CX", "AX">>
        ok == {k \in DOMAIN parents :
                 /\ ~preg_range_occupied_except(parents[k], s.first, s.def, {l, h})
                 /\ ~preg_range_occupied_except(parents[k], s.use, s.last, {l, h})}
    IN  IF ok = {} THEN NONE ELSE parents[Min(ok)]

PairCached(l, h) ==
    /\ HasSpan(l) /\ HasSpan(h)
    /\ LET s == PairSpan(l, h)
           parent == choose_pair_stack_cache_parent(l, h)
       IN  /\ s.def < s.use
           /\ stack_cache_cfg_span_ok(s.def, s.use)
           /\ stack_cache_span_compatible(s.def, s.use)
           /\ parent # NONE
           /\ ~stack_cache_parent_clobbered_in_range(parent, s.first, s.def)
           /\ ~stack_cache_parent_clobbered_in_range(parent, s.use, s.last)

-----------------------------------------------------------------------------
(* The plan. *)

NVregs == 1 + Max(Vreg)

\* plan_paired_byte_stack_cache_spills(), one low byte at a time.
PlanPair ==
    /\ pc = "pairs" /\ pv < NVregs
    /\ LET found == {p \in pairs : p[1] = pv /\ PairCached(p[1], p[2])} IN
       IF found = {} THEN UNCHANGED <<assigned, spilled, span>>
       ELSE LET p == CHOOSE q \in found : TRUE
                s == [def |-> PairSpan(p[1], p[2]).def, use |-> PairSpan(p[1], p[2]).use]
                parent == choose_pair_stack_cache_parent(p[1], p[2])
            IN  /\ assigned' = [assigned EXCEPT ![p[1]] = preg_alias_lo[parent],
                                                ![p[2]] = preg_alias_hi[parent]]
                /\ spilled' = spilled \ {p[1], p[2]}
                /\ span' = [span EXCEPT ![p[1]] = s, ![p[2]] = s]
    /\ pv' = pv + 1
    /\ UNCHANGED <<flowVars, pc, pairs, frame, runVars>>

EndPairs ==
    /\ pc = "pairs" /\ pv = NVregs
    /\ pc' = "singles" /\ pv' = 0
    /\ UNCHANGED <<flowVars, assigned, spilled, pairs, span, frame, runVars>>

Cacheable(v) ==
    /\ v \in spilled /\ HasSpan(v)
    /\ stack_cache_span_compatible(SpanOf(v).def, SpanOf(v).use)
    /\ choose_stack_cache_reg(v) # {}

\* Any register that is free will do; the code takes the fastest.
PlanVreg ==
    /\ pc = "singles" /\ pv < NVregs
    /\ IF ~Cacheable(pv) THEN UNCHANGED <<assigned, spilled, span>>
       ELSE /\ \E r \in choose_stack_cache_reg(pv) :
                  assigned' = [assigned EXCEPT ![pv] = r]
            /\ spilled' = spilled \ {pv}
            /\ span' = [span EXCEPT ![pv] = SpanOf(pv)]
    /\ pv' = pv + 1
    /\ UNCHANGED <<flowVars, pc, pairs, frame, runVars>>

HalfOf(r) == IF r \in {preg_alias_hi[w] : w \in SplitWords} THEN 2 ELSE 1
Put(f, r, x) ==
    IF r \in ByteRegs THEN [f EXCEPT ![PushReg(r)][HalfOf(r)] = x]
    ELSE [f EXCEPT ![r] = <<x, x>>]

Written(f, vs, now) ==
    FoldLeft(LAMBDA g, v : IF assigned[v] = NONE THEN g
                           ELSE Put(g, assigned[v], now[v]), f, vs)

\* Without spill slots left the function needs no frame.
EndPlan ==
    /\ pc = "singles" /\ pv = NVregs
    /\ frame' = (spilled # {})
    /\ pc' = "run"
    /\ val' = [v \in Vreg |-> IF v \in fn.params THEN <<v, 0>> ELSE << >>]
    /\ rf' = Written(rf, SetToSeq(fn.params), val') /\ slot' = val'
    /\ UNCHANGED <<flowVars, assigned, spilled, pairs, span, pv,
                   ip, stk, gen, wrong>>

-----------------------------------------------------------------------------
(* The run: rins_ir_stack_cached() around every instruction. *)

stack_cache_storage_preg(v) == PushReg(assigned[v])

\* Storage registers of the vregs that satisfy P, in vreg order, each once.
Storage(P(_)) ==
    LET vs == SelectSeq([k \in 1 .. NVregs |-> k - 1], LAMBDA v : v \in Vreg /\ P(v))
    IN  FoldLeft(LAMBDA s, v : IF stack_cache_storage_preg(v) \in ToSet(s) THEN s
                               ELSE Append(s, stack_cache_storage_preg(v)),
                 << >>, vs)
rins_stack_cache_pop_for_insn(i)  == Storage(LAMBDA v : Eligible(v) /\ span[v].use = i)
rins_stack_cache_push_for_insn(i) == Storage(LAMBDA v : Eligible(v) /\ span[v].def = i)

PopWords(m, rs) ==
    FoldLeft(LAMBDA s, r : IF s.stk = << >> THEN [s EXCEPT !.rf[r] = <<Junk, Junk>>]
                           ELSE [rf |-> [s.rf EXCEPT ![r] = Head(s.stk)],
                                 stk |-> Tail(s.stk)],
             m, rs)
PushWords(m, rs) ==
    FoldLeft(LAMBDA s, r : [s EXCEPT !.stk = <<s.rf[r]>> \o s.stk], m, rs)

\* v is found with its value in the machine m.
Found(m, v) ==
    IF val[v] = << >> THEN TRUE
    ELSE IF assigned[v] = NONE THEN frame /\ slot[v] = val[v]
    ELSE IF assigned[v] \in ByteRegs
         THEN m.rf[PushReg(assigned[v])][HalfOf(assigned[v])] = val[v]
    ELSE m.rf[assigned[v]] = <<val[v], val[v]>>

\* What instruction i makes of the values.
NewVal(ins, v) ==
    IF ins.op = "copy" THEN val[CHOOSE s \in ins.srcs : TRUE]
    ELSE <<v, 1 - gen[v]>>
ValAfter(ins) == [v \in Vreg |-> IF v \in Defs(ins) THEN NewVal(ins, v) ELSE val[v]]
\* Registers a call saves: those of the vregs live after it.
CallSaved(i) ==
    Storage(LAMBDA v : /\ assigned[v] # NONE /\ v \notin Defs(insns[i])
                       /\ i \in LiveAfter(v))

\* The machine at the reads of an instruction, and after it.  The values of
\* RETVAL are moved to their places first.
Cached(m, ins, i, now) ==
    LET popped  == PopWords(m, rins_stack_cache_pop_for_insn(i))
        written == [popped EXCEPT !.rf = Written(popped.rf, Results(ins), now)]
    IN  [at |-> IF ins.op = "retval" THEN m ELSE popped, after |-> PushWords(written, rins_stack_cache_push_for_insn(i))]

\* A call (module CallSite): saved registers, reads of the arguments, the
\* call with its pops and pushes, restored registers; results arrive, those
\* whose register is restored by way of the call temp slot.
CachedCall(m, ins, i, now) ==
    LET saved == PushWords(m, CallSaved(i))
        popped == PopWords(saved, rins_stack_cache_pop_for_insn(i))
        called == [popped EXCEPT !.rf = [r \in SplitWords |-> <<Junk, Junk>>]]
        pushed == PushWords(called, rins_stack_cache_push_for_insn(i))
        restored == PopWords(pushed, Reverse(CallSaved(i)))
    IN  [at |-> saved,
         after |-> [restored EXCEPT !.rf = Written(restored.rf, Results(ins), now)]]

AtExit == IF ip \in Pos THEN insns[ip].op = "exit" ELSE TRUE

RunInsn ==
    /\ pc = "run" /\ ~AtExit
    /\ Len(stk) <= MaxDepth
    /\ LET ins == insns[ip]
           now == ValAfter(ins)
           m   == [rf |-> rf, stk |-> stk]
           done == IF ins.op = "mcall" THEN CachedCall(m, ins, ip, now)
                   ELSE Cached(m, ins, ip, now)
       IN  /\ wrong' = wrong \cup {v \in Uses(ins) : ~Found(done.at, v)}
           /\ rf' = done.after.rf
           /\ stk' = IF ins.op = "barrier" /\ done.after.stk # << >>
                     THEN Tail(done.after.stk) ELSE done.after.stk
           /\ slot' = [v \in Vreg |-> IF v \in Defs(ins) /\ assigned[v] = NONE
                                      THEN now[v] ELSE slot[v]]
           /\ val' = now
           /\ gen' = [v \in Vreg |-> IF v \in Defs(ins) THEN 1 - gen[v] ELSE gen[v]]
    /\ ip' \in Follows(ip) \cup (IF Follows(ip) = {} THEN {Len(insns) + 1} ELSE {})
    /\ UNCHANGED <<flowVars, pc, planVars>>

Leave ==
    /\ pc = "run" /\ AtExit
    /\ pc' = "left"
    /\ UNCHANGED <<flowVars, planVars, runVars>>

-----------------------------------------------------------------------------
CacheInit ==
    /\ Init
    /\ assigned = [v \in Vreg |-> NONE] /\ spilled = {} /\ pairs = {}
    /\ span = [v \in Vreg |-> NoSpan] /\ pv = 0 /\ frame = TRUE
    /\ ip = 1 /\ rf = [r \in SplitWords |-> <<Junk, Junk>>]
    /\ slot = [v \in Vreg |-> Junk] /\ stk = << >>
    /\ val = [v \in Vreg |-> << >>] /\ gen = [v \in Vreg |-> 0] /\ wrong = {}

Analyse ==
    /\ FlowBlock \/ NextSweep \/ EndFlow \/ ComputeLiveness
       \/ InterfereBlock \/ EndIgraph
    /\ UNCHANGED <<planVars, runVars>>

Stop ==
    /\ pc = "left" \/ (pc = "done" /\ ~fn.planned)
    /\ UNCHANGED cacheVars

CacheNext ==
    \/ Analyse \/ Allocate \/ PlanPair \/ EndPairs \/ PlanVreg \/ EndPlan
    \/ RunInsn \/ Leave \/ Stop

CacheSpec == CacheInit /\ [][CacheNext]_cacheVars

-----------------------------------------------------------------------------
(* Properties. *)

(***************************************************************************)
(* "true if CFG stack-cache proof succeeded" (bind.c, vreg_info_t): along  *)
(* every path each read finds the vreg's value, cached or not, and the     *)
(* stack is as before when the function is left.                           *)
(***************************************************************************)
CachedValuesArrive == wrong = {} /\ (pc = "left" => stk = << >>)

(***************************************************************************)
(* The cached vregs for which that fails: the use is repeated in a loop    *)
(* without the definition; the value is pushed or popped within the moves  *)
(* of a call or of the results; the vreg is also a further result of a     *)
(* call; a path from the definition to the use jumps back, so that the     *)
(* order of positions, by which spans and siblings are compared, is not    *)
(* the order of the run; the register of two siblings holds a value that   *)
(* lives above its first definition in the text, where its range of        *)
(* positions begins.                                                       *)
(***************************************************************************)
\* Instructions reached from the successors of i without passing j.
ReachedFrom(i, j) ==
    LET reach[n \in 0 .. Len(insns)] ==
            IF n = 0 THEN Follows(i) \ {j}
            ELSE reach[n - 1] \cup (UNION {Follows(l) : l \in reach[n - 1]} \ {j})
    IN  reach[Len(insns)]
UseRepeats(v)   == span[v].use \in ReachedFrom(span[v].use, span[v].def)
Routed(v)       == /\ {insns[span[v].def].op, insns[span[v].use].op} \cap
                      {"mcall", "retval", "exit"} # {}
AlsoReturned(v) == \E i \in Pos : insns[i].op = "mcall" /\ v \in ToSet(insns[i].rets)
JumpsBack(v)    ==
    \E d \in DefsOf(v), u \in UsesOf(v) :
        \E i \in {d} \cup ReachedFrom(d, u) : \E j \in Follows(i) : j <= i
RangeMissed(v)  ==
    IsByte(v) /\ \E w \in Vreg : /\ stack_cache_storage_preg(w) = stack_cache_storage_preg(v)
                                 /\ \E i \in LiveAbove(w) : i < def_pos[w]
NotProved == \E v \in {w \in Vreg : Eligible(w)} :
    UseRepeats(v) \/ Routed(v) \/ AlsoReturned(v) \/ JumpsBack(v) \/ RangeMissed(v)

\* Apart from those functions, the pushes and pops of cached vregs are
\* balanced on every path, each pop brings back the value pushed for it, and
\* neither overwrites a register that is in use (plan_stack_cache_spills).
CachedValuesKept == CachedValuesArrive \/ NotProved

=============================================================================
