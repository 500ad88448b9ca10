---------------------------- MODULE AllocProofs ----------------------------
(***************************************************************************)
(* Proofs about register allocation (Alloc), for every number of vregs,    *)
(* every set of functions and every interference graph.                    *)
(***************************************************************************)
EXTENDS Alloc, ProofFacts

\* Register sharing is symmetric: pregs_alias looks both ways.
LEMMA AliasSymmetric ==
    \A a, b : pregs_alias(a, b) <=> pregs_alias(b, a)
BY DEF pregs_alias

\* A register always shares storage with itself.
LEMMA AliasReflexive ==
    \A a : a # NONE => pregs_alias(a, a)
BY DEF pregs_alias

\* A pool holds registers of the machine, and BP only when it is available.
LEMMA PoolRegs ==
    ASSUME NEW vr, NEW bp \in BOOLEAN
    PROVE  /\ PoolSet(vr, bp) \subseteq Preg
           /\ NONE \notin PoolSet(vr, bp)
           /\ ~bp => "BP" \notin PoolSet(vr, bp)
<1> DEFINE p == get_vreg_pool(vr, bp)
           Ok(q) == /\ \A k \in 1 .. Len(q) : q[k] \in Preg /\ q[k] # NONE
                    /\ ~bp => \A k \in 1 .. Len(q) : q[k] # "BP"
<1> HIDE DEF p
<1>1. Ok(<<"ES">>)
  BY DEF Preg, WordRegs, ByteRegs, SegRegs, NONE
<1>2. Ok(<<"CL">>)
  BY DEF Preg, WordRegs, ByteRegs, SegRegs, NONE
<1>3. Ok(<<"AL", "AH", "BL", "BH", "CL", "CH", "DL", "DH">>)
  BY DEF Preg, WordRegs, ByteRegs, SegRegs, NONE
<1>4. bp => Ok(<<"BX", "BP">>)
  BY DEF Preg, WordRegs, ByteRegs, SegRegs, NONE
<1>5. Ok(<<"BX">>)
  BY DEF Preg, WordRegs, ByteRegs, SegRegs, NONE
<1>6. Ok(<<"SI", "DI">>)
  BY DEF Preg, WordRegs, ByteRegs, SegRegs, NONE
<1>7. Ok(<<"BX", "SI", "DI">>)
  BY DEF Preg, WordRegs, ByteRegs, SegRegs, NONE
<1>8. bp => Ok(<<"BX", "BP", "SI", "DI">>)
  BY DEF Preg, WordRegs, ByteRegs, SegRegs, NONE
<1>9. bp => Ok(<<"AX", "BX", "CX", "DX", "SI", "DI", "BP">>)
  BY DEF Preg, WordRegs, ByteRegs, SegRegs, NONE
<1>10. Ok(<<"AX", "BX", "CX", "DX", "SI", "DI">>)
  BY DEF Preg, WordRegs, ByteRegs, SegRegs, NONE
<1>11. Ok(p)
  <2> HIDE DEF Ok
  <2> QED BY <1>1, <1>2, <1>3, <1>4, <1>5, <1>6, <1>7, <1>8, <1>9, <1>10 DEF p, get_vreg_pool
<1>12. QED
  BY <1>11 DEF p, PoolSet

-----------------------------------------------------------------------------
(* Type correctness. *)

\* The record of a vreg has the type of vreg_info_t.
LEMMA VregType ==
    ASSUME WellFormed(fn), NEW v \in Vreg
    PROVE  vreg(v) \in VregInfo
BY KindAssumption DEF WellFormed, Func, vreg

\* The slots in use, and any subset of them, can be counted.
LEMMA SlotCounts ==
    ASSUME TypeOK
    PROVE  /\ IsFiniteSet(UsedSlots)
           /\ Cardinality(UsedSlots) \in Nat
           /\ \A slot : Cardinality(UsedBefore(slot)) \in Nat
<1>1. IsFiniteSet(Vreg)
  BY NVAssumption, FS_Interval DEF Vreg
<1>2. IsFiniteSet(Range(spill_slot))
  <2>1. spill_slot \in Surjection(Vreg, Range(spill_slot))
    BY DEF TypeOK, Surjection, Range
  <2>2. QED BY <1>1, <2>1, FS_Surjection
<1>3. IsFiniteSet(UsedSlots)
  <2>1. UsedSlots \subseteq Range(spill_slot)
    BY DEF UsedSlots, Range, TypeOK
  <2>2. QED BY <1>2, <2>1, FS_Subset
<1>4. \A slot : UsedBefore(slot) \subseteq UsedSlots
  BY DEF UsedBefore
<1>5. \A slot : IsFiniteSet(UsedBefore(slot))
  BY <1>3, <1>4, FS_Subset
<1>6. QED
  BY <1>3, <1>5, FS_CardinalityType

\* main() hands the allocator a well-formed state.
LEMMA TypeInit == Init => TypeOK
<1> SUFFICES ASSUME Init PROVE TypeOK
  OBVIOUS
<1>1. WellFormed(fn)
  BY FunctionsAssumption DEF Init
<1>2. needs_frame \in BOOLEAN
  BY <1>1 DEF Init, WellFormed, Func
<1>3. QED
  BY <1>1, <1>2, NVAssumption
  DEF Init, Unallocated, TypeOK, PC, Vreg, Preg, NONE

\* Starting over leaves a well-formed, empty allocation.
LEMMA ReallocateType ==
    ASSUME NEW next \in {"spill_retry", "coalesce"}, Reallocate(next)
    PROVE  /\ pc' \in PC /\ cont' \in {"call_temp", "spill_retry", "coalesce"}
           /\ bp_available' \in BOOLEAN
           /\ assigned' \in [Vreg -> Preg \cup {NONE}]
           /\ spill_slot' \in [Vreg -> Nat \cup {-1}]
           /\ spill_byte_offset' \in [Vreg -> {0, 1}]
           /\ nspill_slots' \in Nat
BY DEF Reallocate, PC

\* Every phase of allocate_registers() and of its driver keeps the types.
LEMMA TypeNext == TypeOK /\ [Next]_vars => TypeOK'
<1> SUFFICES ASSUME TypeOK, [Next]_vars PROVE TypeOK'
  OBVIOUS
<1>0. WellFormed(fn)' <=> WellFormed(fn)
  BY DEF Next, vars, Estimate, driver, ColorFixed, ColorPreferred,
         SkipPreferred, MarkRemoved, Simplify, PotentialSpill, Push,
         EndSimplify, SelectPreferred, SelectColor, Spill, EndSelect,
         CheckCallTemp, RetrySpills, CoalescePair, CoalesceSkip,
         CompactSlots, Done, WellFormed
<1>1. CASE Estimate
  BY <1>0, <1>1 DEF Estimate, spills, TypeOK, PC, WellFormed, Func
<1>2. CASE ColorFixed
  <2>1. assigned' \in [Vreg -> Preg \cup {NONE}]
    BY <1>2, VregType DEF ColorFixed, TypeOK, VregInfo
  <2>2. QED
    BY <1>0, <1>2, <2>1, NVAssumption DEF ColorFixed, driver, spills, TypeOK, PC
<1>3. CASE ColorPreferred
  <2>1. i \in Vreg
    BY <1>3, NVAssumption DEF ColorPreferred, TypeOK, Vreg
  <2>2. vreg(i).prefer \in Preg \cup {NONE}
    BY <2>1, VregType DEF TypeOK, VregInfo
  <2>3. QED
    BY <1>0, <1>3, <2>1, <2>2, NVAssumption
    DEF ColorPreferred, driver, spills, TypeOK, PC
<1>4. CASE SkipPreferred
  BY <1>0, <1>4, NVAssumption DEF SkipPreferred, driver, spills, TypeOK, PC
<1>5. CASE MarkRemoved
  BY <1>0, <1>5 DEF MarkRemoved, driver, spills, TypeOK, PC
<1>6. CASE Simplify \/ PotentialSpill
  <2>1. PICK v \in Vreg : Push(v)
    BY <1>6 DEF Simplify, PotentialSpill
  <2>2. QED
    BY <1>0, <2>1 DEF Push, driver, spills, TypeOK
<1>7. CASE EndSimplify
  BY <1>0, <1>7 DEF EndSimplify, driver, spills, TypeOK, PC
<1>8. CASE SelectPreferred \/ SelectColor \/ Spill
  <2>1. Top \in Vreg /\ SubSeq(stack, 1, Len(stack) - 1) \in Seq(Vreg)
    BY <1>8 DEF SelectPreferred, SelectColor, Spill, Top, TypeOK
  <2>2. CASE SelectPreferred
    <3>1. vreg(Top).prefer \in Preg \cup {NONE}
      BY <2>1, VregType DEF TypeOK, VregInfo
    <3>2. QED
      BY <1>0, <2>1, <2>2, <3>1 DEF SelectPreferred, Pop, driver, spills, TypeOK
  <2>3. CASE SelectColor
    <3>1. Pool(Top) \subseteq Preg
      BY PoolRegs DEF TypeOK, Pool
    <3>2. QED
      BY <1>0, <2>1, <2>3, <3>1 DEF SelectColor, Pop, driver, spills, TypeOK
  <2>4. CASE Spill
    BY <1>0, <2>1, <2>4 DEF Spill, Pop, driver, spills, TypeOK
  <2>5. QED
    BY <1>8, <2>2, <2>3, <2>4
<1>9. CASE EndSelect
  BY <1>0, <1>9, NVAssumption DEF EndSelect, driver, spills, TypeOK, PC
<1>10. CASE CheckCallTemp
  <2>1. call_returns_need_temp \in BOOLEAN
    BY DEF call_returns_need_temp
  <2>2. CASE Reallocate("spill_retry")
    BY <1>0, <1>10, <2>1, <2>2, ReallocateType DEF CheckCallTemp, TypeOK
  <2>3. CASE ~Reallocate("spill_retry")
    BY <1>0, <1>10, <2>1, <2>3 DEF CheckCallTemp, TypeOK, PC
  <2>4. QED BY <2>2, <2>3
<1>11. CASE RetrySpills
  <2>1. CASE Reallocate("coalesce")
    BY <1>0, <1>11, <2>1, ReallocateType DEF RetrySpills, TypeOK
  <2>2. CASE ~Reallocate("coalesce")
    BY <1>0, <1>11, <2>2 DEF RetrySpills, TypeOK, PC
  <2>3. QED BY <2>1, <2>2
<1>12. CASE CoalescePair
  <2>1. PICK w \in Vreg :
           /\ IsBestPeer(i, w)
           /\ LET slot == IF spill_slot[w] < spill_slot[i]
                          THEN spill_slot[w] ELSE spill_slot[i]
              IN  spill_slot' = [spill_slot EXCEPT ![i] = slot, ![w] = slot]
           /\ spill_byte_offset' = [spill_byte_offset EXCEPT ![i] = 0, ![w] = 1]
    BY <1>12 DEF CoalescePair
  <2>2. i \in Vreg
    BY <1>12, NVAssumption DEF CoalescePair, TypeOK, Vreg
  <2>3. QED
    BY <1>0, <1>12, <2>1, <2>2, NVAssumption
    DEF CoalescePair, driver, TypeOK, PC
<1>13. CASE CoalesceSkip
  BY <1>0, <1>13, NVAssumption DEF CoalesceSkip, driver, spills, TypeOK, PC
<1>14. CASE CompactSlots
  <2>1. spill_slot' \in [Vreg -> Nat \cup {-1}]
    BY <1>14, SlotCounts DEF CompactSlots, TypeOK
  <2>2. nspill_slots' \in Nat
    BY <1>14, SlotCounts DEF CompactSlots, TypeOK
  <2>3. QED
    BY <1>0, <1>14, <2>1, <2>2 DEF CompactSlots, driver, TypeOK, PC
<1>15. CASE UNCHANGED vars
  BY <1>0, <1>15 DEF vars, TypeOK
<1>16. QED
  BY <1>1, <1>2, <1>3, <1>4, <1>5, <1>6, <1>7, <1>8, <1>9, <1>10, <1>11,
     <1>12, <1>13, <1>14, <1>15 DEF Next, Done

\* The allocator's state stays well formed through every phase and retry.
THEOREM TypeCorrect == Spec => []TypeOK
BY TypeInit, TypeNext, PTL DEF Spec

-----------------------------------------------------------------------------
(***************************************************************************)
(* Storage is never shared.  Coloring is not inductive by itself: pinned   *)
(* vregs are coloured without looking at their neighbours, which is sound  *)
(* only because nothing else has a register yet.                           *)
(***************************************************************************)
Fresh ==
    pc \in {"estimate", "fixed"} => \A v \in Vreg : assigned[v] = NONE

ColoringInv == TypeOK /\ Fresh /\ Coloring

\* Giving v a register that conflicts with no neighbour keeps Coloring: the
\* step common to pre-colouring and selection.
LEMMA AssignColor ==
    ASSUME TypeOK, Coloring, NEW v \in Vreg, NEW preg \in Preg,
           ~color_conflicts(v, preg), UNCHANGED fn,
           assigned' = [assigned EXCEPT ![v] = preg]
    PROVE  Coloring'
<1> SUFFICES ASSUME NEW x \in Vreg, NEW y \in fn.ig[x],
                    pregs_alias(assigned'[x], assigned'[y])
             PROVE  vreg(x).fixed /\ vreg(y).fixed
  BY DEF Coloring, vreg
<1>1. y \in Vreg /\ x \in fn.ig[y] /\ x # y
  BY DEF TypeOK, WellFormed, Func
<1>2. preg # NONE
  BY DEF Preg, WordRegs, ByteRegs, SegRegs, NONE
<1>3. \A w \in fn.ig[v] : assigned[w] # NONE => ~pregs_alias(assigned[w], preg)
  BY DEF color_conflicts
<1>4. assigned[y] # NONE \/ y = v
  BY <1>1 DEF pregs_alias, TypeOK
<1>5. assigned[x] # NONE \/ x = v
  BY <1>1 DEF pregs_alias, TypeOK
<1>6. x # v /\ y # v
  BY <1>1, <1>3, <1>4, <1>5, AliasSymmetric DEF TypeOK
<1>7. pregs_alias(assigned[x], assigned[y])
  BY <1>1, <1>6 DEF TypeOK
<1>8. QED
  BY <1>7 DEF Coloring

\* No step makes interfering vregs share a register.
LEMMA ColoringNext == ColoringInv /\ [Next]_vars => ColoringInv'
<1> SUFFICES ASSUME ColoringInv, [Next]_vars PROVE ColoringInv'
  OBVIOUS
<1>1. TypeOK /\ Fresh /\ Coloring
  BY DEF ColoringInv
<1>2. TypeOK'
  BY <1>1, TypeNext
<1>3. CASE UNCHANGED <<fn, assigned>> /\ (pc' \in {"estimate", "fixed"} => pc = "estimate")
  BY <1>1, <1>2, <1>3 DEF ColoringInv, Fresh, Coloring, vreg
<1>4. CASE ColorFixed
  <2>1. \A v \in Vreg : assigned'[v] # NONE => vreg(v).fixed
    BY <1>1, <1>4 DEF ColorFixed, Fresh, TypeOK
  <2>2. Coloring'
    BY <1>1, <1>4, <2>1 DEF ColorFixed, driver, Coloring, vreg, pregs_alias,
                            TypeOK, WellFormed, Func
  <2>3. QED
    BY <1>2, <1>4, <2>2 DEF ColorFixed, ColoringInv, Fresh
<1>5. CASE ColorPreferred
  <2>1. i \in Vreg
    BY <1>1, <1>5, NVAssumption DEF ColorPreferred, TypeOK, Vreg
  <2>2. vreg(i).prefer \in Preg
    BY <1>1, <1>5, <2>1, VregType
    DEF TypeOK, VregInfo, ColorPreferred, preference_allowed
  <2>3. Coloring'
    BY <1>1, <1>5, <2>1, <2>2, AssignColor DEF ColorPreferred, driver
  <2>4. QED
    BY <1>2, <1>5, <2>3 DEF ColorPreferred, ColoringInv, Fresh
<1>6. CASE SelectPreferred \/ SelectColor
  <2>1. Top \in Vreg
    BY <1>1, <1>6 DEF SelectPreferred, SelectColor, Top, TypeOK
  <2>2. PICK preg \in Preg : /\ ~color_conflicts(Top, preg)
                             /\ assigned' = [assigned EXCEPT ![Top] = preg]
    <3>1. CASE SelectPreferred
      BY <1>1, <2>1, <3>1, VregType
      DEF SelectPreferred, PreferenceFits, TypeOK, VregInfo
    <3>2. CASE SelectColor
      <4>1. PICK preg \in Pool(Top) :
               /\ is_choose_color(Top, preg)
               /\ assigned' = [assigned EXCEPT ![Top] = preg]
        BY <3>2 DEF SelectColor
      <4>2. preg \in Preg
        BY <1>1, <4>1, PoolRegs DEF TypeOK, Pool
      <4>3. ~color_conflicts(Top, preg)
        BY <4>1 DEF is_choose_color
      <4>4. QED
        BY <4>1, <4>2, <4>3
    <3>3. QED
      BY <1>6, <3>1, <3>2
  <2>3. Coloring'
    BY <1>1, <1>6, <2>1, <2>2, AssignColor
    DEF SelectPreferred, SelectColor, driver
  <2>4. QED
    BY <1>2, <1>6, <2>3 DEF SelectPreferred, SelectColor, ColoringInv, Fresh
<1>7. CASE assigned' = [v \in Vreg |-> NONE]
  <2>1. Coloring'
    BY <1>2, <1>7 DEF Coloring, pregs_alias, TypeOK, WellFormed, Func
  <2>2. QED
    BY <1>2, <1>7, <2>1 DEF ColoringInv, Fresh
<1>8. CASE EndSelect
  <2>1. pc' \notin {"estimate", "fixed"}
    BY <1>1, <1>8 DEF EndSelect, TypeOK
  <2>2. QED
    BY <1>3, <1>8, <2>1 DEF EndSelect, driver
<1>9. CASE Estimate
  BY <1>3, <1>9 DEF Estimate
<1>10. CASE SkipPreferred \/ MarkRemoved \/ EndSimplify
  BY <1>3, <1>10 DEF SkipPreferred, MarkRemoved, EndSimplify, driver
<1>11. CASE Simplify \/ PotentialSpill
  BY <1>3, <1>11 DEF Simplify, PotentialSpill, Push, driver
<1>12. CASE Spill
  BY <1>3, <1>12 DEF Spill, driver
<1>13. CASE CheckCallTemp
  BY <1>3, <1>7, <1>13 DEF CheckCallTemp, Reallocate
<1>14. CASE RetrySpills
  BY <1>3, <1>7, <1>14 DEF RetrySpills, Reallocate
<1>15. CASE CoalescePair
  BY <1>3, <1>15 DEF CoalescePair, driver
<1>16. CASE CoalesceSkip \/ CompactSlots
  BY <1>3, <1>16 DEF CoalesceSkip, CompactSlots, driver
<1>17. CASE UNCHANGED vars
  BY <1>1, <1>2, <1>17 DEF vars, ColoringInv, Fresh, Coloring, vreg
<1>18. QED
  BY <1>4, <1>5, <1>6, <1>8, <1>9, <1>10, <1>11, <1>12, <1>13, <1>14, <1>15,
     <1>16, <1>17 DEF Next, Done

\* Interfering vregs never share a register, whatever the graph, the pools,
\* the preferences and the retries: allocate_registers is a colouring.
THEOREM ColoringCorrect == Spec => []Coloring
<1>1. Init => ColoringInv
  <2> SUFFICES ASSUME Init PROVE ColoringInv
    OBVIOUS
  <2>1. TypeOK
    BY TypeInit
  <2>2. QED
    BY <2>1 DEF Init, Unallocated, ColoringInv, Fresh, Coloring, pregs_alias,
                TypeOK, WellFormed, Func
<1>2. ColoringInv => Coloring
  BY DEF ColoringInv
<1>3. QED
  BY <1>1, <1>2, ColoringNext, PTL DEF Spec

-----------------------------------------------------------------------------
(***************************************************************************)
(* BP.  Taking BP away (Estimate) happens before anything is coloured, and *)
(* every later reservation forgets the colouring, so BpReserved needs      *)
(* Fresh to be inductive.                                                  *)
(***************************************************************************)
BpInv == TypeOK /\ Fresh /\ BpReserved

\* Without BP no pool of a vreg contains BP.
LEMMA PoolWithoutBp ==
    ASSUME TypeOK, ~bp_available, NEW v \in Vreg
    PROVE  "BP" \notin Pool(v)
BY PoolRegs DEF Pool, TypeOK

\* No step gives a vreg BP after BP was taken away.
LEMMA BpNext == BpInv /\ [Next]_vars => BpInv'
<1> SUFFICES ASSUME BpInv, [Next]_vars PROVE BpInv'
  OBVIOUS
<1>1. TypeOK /\ Fresh /\ BpReserved
  BY DEF BpInv
<1>2. TypeOK'
  BY <1>1, TypeNext
<1>3. CASE /\ UNCHANGED <<fn, assigned, bp_available>>
           /\ pc' \in {"estimate", "fixed"} => pc = "estimate"
  BY <1>1, <1>2, <1>3 DEF BpInv, Fresh, BpReserved, vreg
<1>4. CASE Estimate
  <2>1. \A v \in Vreg : assigned'[v] = NONE
    BY <1>1, <1>4 DEF Estimate, Fresh
  <2>2. QED
    BY <1>2, <2>1 DEF BpInv, Fresh, BpReserved, NONE
<1>5. CASE ColorFixed
  <2>1. BpReserved'
    BY <1>1, <1>5 DEF ColorFixed, driver, BpReserved, vreg, TypeOK
  <2>2. QED
    BY <1>2, <1>5, <2>1 DEF ColorFixed, BpInv, Fresh
<1>6. CASE ColorPreferred
  <2>1. bp_available \/ vreg(i).prefer # "BP"
    BY <1>6 DEF ColorPreferred, preference_allowed
  <2>2. BpReserved'
    BY <1>1, <1>6, <2>1 DEF ColorPreferred, driver, BpReserved, vreg, TypeOK
  <2>3. QED
    BY <1>2, <1>6, <2>2 DEF ColorPreferred, BpInv, Fresh
<1>7. CASE SelectPreferred
  <2>1. bp_available \/ vreg(Top).prefer # "BP"
    BY <1>7 DEF SelectPreferred, PreferenceFits
  <2>2. BpReserved'
    BY <1>1, <1>7, <2>1 DEF SelectPreferred, driver, BpReserved, vreg, TypeOK
  <2>3. QED
    BY <1>2, <1>7, <2>2 DEF SelectPreferred, BpInv, Fresh
<1>8. CASE SelectColor
  <2>1. Top \in Vreg
    BY <1>1, <1>8 DEF SelectColor, Top, TypeOK
  <2>2. PICK preg \in Pool(Top) :
            assigned' = [assigned EXCEPT ![Top] = preg]
    BY <1>8 DEF SelectColor
  <2>3. bp_available \/ preg # "BP"
    BY <1>1, <2>1, <2>2, PoolWithoutBp
  <2>4. BpReserved'
    BY <1>1, <1>8, <2>2, <2>3 DEF SelectColor, driver, BpReserved, vreg, TypeOK
  <2>5. QED
    BY <1>2, <1>8, <2>4 DEF SelectColor, BpInv, Fresh
<1>9. CASE assigned' = [v \in Vreg |-> NONE]
  BY <1>2, <1>9 DEF BpInv, Fresh, BpReserved, NONE
<1>10. CASE EndSelect
  <2>1. pc' \notin {"estimate", "fixed"}
    BY <1>1, <1>10 DEF EndSelect, TypeOK
  <2>2. QED
    BY <1>3, <1>10, <2>1 DEF EndSelect, driver
<1>11. CASE SkipPreferred \/ MarkRemoved \/ EndSimplify
  BY <1>3, <1>11 DEF SkipPreferred, MarkRemoved, EndSimplify, driver
<1>12. CASE Simplify \/ PotentialSpill
  BY <1>3, <1>12 DEF Simplify, PotentialSpill, Push, driver
<1>13. CASE Spill
  BY <1>3, <1>13 DEF Spill, driver
<1>14. CASE CheckCallTemp
  BY <1>3, <1>9, <1>14 DEF CheckCallTemp, Reallocate
<1>15. CASE RetrySpills
  BY <1>3, <1>9, <1>15 DEF RetrySpills, Reallocate
<1>16. CASE CoalescePair
  BY <1>3, <1>16 DEF CoalescePair, driver
<1>17. CASE CoalesceSkip \/ CompactSlots
  BY <1>3, <1>17 DEF CoalesceSkip, CompactSlots, driver
<1>18. CASE UNCHANGED vars
  BY <1>1, <1>2, <1>18 DEF vars, BpInv, Fresh, BpReserved, vreg
<1>19. QED
  BY <1>4, <1>5, <1>6, <1>7, <1>8, <1>10, <1>11, <1>12, <1>13, <1>14, <1>15,
     <1>16, <1>17, <1>18 DEF Next, Done

\* Once the driver takes BP away, no vreg the program did not pin keeps BP or
\* gets it, whichever of the three retries took it.
THEOREM BpReservedCorrect == Spec => []BpReserved
<1>1. Init => BpInv
  BY TypeInit DEF Init, Unallocated, BpInv, Fresh, BpReserved
<1>2. BpInv => BpReserved
  BY DEF BpInv
<1>3. QED
  BY <1>1, <1>2, BpNext, PTL DEF Spec

-----------------------------------------------------------------------------
(***************************************************************************)
(* Frames.  The driver reaches coalescing with spills only after BP was    *)
(* taken away, and BP is never taken away without asking for a frame.      *)
(***************************************************************************)
FrameInv ==
    /\ TypeOK
    /\ ~bp_available => needs_frame
    /\ pc = "estimate" => cont = "call_temp"
    /\ cont = "coalesce" => ~bp_available
    /\ nspill_slots = 0 => \A v \in Vreg : spill_slot[v] = -1
    /\ pc \in {"coalesce", "done"} /\ nspill_slots > 0 => ~bp_available

\* No step leaves spill slots behind without a frame to come.
LEMMA FrameNext == FrameInv /\ [Next]_vars => FrameInv'
<1> SUFFICES ASSUME FrameInv, [Next]_vars PROVE FrameInv'
  OBVIOUS
<1>1. TypeOK /\ TypeOK'
  BY TypeNext DEF FrameInv
<1>2. CASE /\ UNCHANGED <<cont, bp_available, needs_frame, spill_slot,
                          nspill_slots>>
           /\ pc' # "estimate" /\ pc' \notin {"coalesce", "done"}
  BY <1>1, <1>2 DEF FrameInv
<1>3. CASE Estimate
  BY <1>1, <1>3 DEF Estimate, spills, FrameInv
<1>4. CASE \/ ColorFixed \/ ColorPreferred \/ SkipPreferred \/ MarkRemoved
           \/ EndSimplify \/ SelectPreferred
  BY <1>2, <1>4 DEF ColorFixed, ColorPreferred, SkipPreferred, MarkRemoved,
                    EndSimplify, SelectPreferred, driver, spills
<1>5. CASE Simplify \/ PotentialSpill
  BY <1>2, <1>5 DEF Simplify, PotentialSpill, Push, driver, spills
<1>6. CASE SelectColor
  BY <1>2, <1>6 DEF SelectColor, driver, spills
<1>7. CASE Spill
  <2>1. nspill_slots' = 0 => UNCHANGED <<spill_slot, nspill_slots>>
    BY <1>1, <1>7 DEF Spill, TypeOK
  <2>2. QED
    BY <1>1, <1>7, <2>1 DEF Spill, driver, FrameInv
<1>8. CASE EndSelect
  BY <1>1, <1>8 DEF EndSelect, driver, spills, FrameInv, TypeOK
<1>9. CASE CheckCallTemp
  BY <1>1, <1>9 DEF CheckCallTemp, Reallocate, FrameInv, call_returns_need_temp
<1>10. CASE RetrySpills
  BY <1>1, <1>10 DEF RetrySpills, Reallocate, driver, FrameInv
<1>11. CASE CoalescePair
  <2>1. spill_slot[i] >= 0 /\ i \in Vreg
    BY <1>1, <1>11, NVAssumption
    DEF CoalescePair, LowByteSpill, Spilled, TypeOK, Vreg
  <2>2. nspill_slots # 0
    BY <2>1 DEF FrameInv
  <2>3. QED
    BY <1>1, <1>11, <2>2 DEF CoalescePair, driver, FrameInv
<1>12. CASE CoalesceSkip
  BY <1>1, <1>12 DEF CoalesceSkip, driver, spills, FrameInv
<1>13. CASE CompactSlots
  <2>1. CASE ~changed
    BY <1>1, <1>13, <2>1 DEF CompactSlots, driver, FrameInv
  <2>2. CASE changed
    <3>1. IsFiniteSet(UsedSlots)
      BY <1>1, SlotCounts
    <3>2. nspill_slots' = Cardinality(UsedSlots)
      BY <1>13, <2>2 DEF CompactSlots
    <3>3. nspill_slots' = 0 => \A v \in Vreg : spill_slot[v] = -1
      BY <3>1, <3>2, FS_EmptySet DEF UsedSlots
    <3>4. nspill_slots = 0 => nspill_slots' = 0
      BY <3>1, <3>2, FS_EmptySet DEF UsedSlots, FrameInv
    <3>5. nspill_slots' = 0 => \A v \in Vreg : spill_slot'[v] = -1
      BY <1>13, <2>2, <3>3 DEF CompactSlots
    <3>6. QED
      BY <1>1, <1>13, <3>4, <3>5 DEF CompactSlots, driver, FrameInv, TypeOK
  <2>3. QED
    BY <1>1, <2>1, <2>2 DEF TypeOK
<1>14. CASE UNCHANGED vars
  BY <1>1, <1>14 DEF vars, FrameInv
<1>15. QED
  BY <1>3, <1>4, <1>5, <1>6, <1>7, <1>8, <1>9, <1>10, <1>11, <1>12, <1>13,
     <1>14 DEF Next, Done

\* A function with spill slots always has the frame that addresses them, and
\* was allocated with BP out of the pools.
THEOREM SpillsHaveFrameCorrect == Spec => []SpillsHaveFrame
<1>1. Init => FrameInv
  BY TypeInit DEF Init, Unallocated, FrameInv
<1>2. FrameInv => SpillsHaveFrame
  BY DEF FrameInv, SpillsHaveFrame
<1>3. QED
  BY <1>1, <1>2, FrameNext, PTL DEF Spec

-----------------------------------------------------------------------------
(***************************************************************************)
(* Storage.  Every vreg that needs a place is either still to be given one, *)
(* on the select stack, or has it; the registers given are in the pool, or  *)
(* are preferences that were checked.                                       *)
(***************************************************************************)
NeedsStorage(v) == vreg(v).live /\ ~vreg(v).is_stack_home /\ ~vreg(v).is_local_slot
Stored(v) == assigned[v] # NONE \/ spill_slot[v] >= 0 \/ vreg_can_rematerialize(v)
Waiting == {stack[k] : k \in 1 .. Len(stack)}

StoredInv ==
    /\ pc = "simplify" =>
          \A v \in removed : NeedsStorage(v) => assigned[v] # NONE \/ v \in Waiting
    /\ pc = "select" => \A v \in Vreg : NeedsStorage(v) => Stored(v) \/ v \in Waiting
    /\ pc \in {"call_temp", "spill_retry", "coalesce", "done"} =>
          \A v \in Vreg : NeedsStorage(v) => Stored(v)

\* What the encoding of the vreg's uses asks of a register.
InClass(vr, preg) ==
    /\ vr.is_seg <=> preg \in SegRegs
    /\ ~vr.is_seg /\ vr.needs_cl => preg = "CL"
    /\ ~vr.is_seg /\ ~vr.needs_cl /\ ~vr.is_byte =>
          /\ vr.needs_base => preg \in {"BX", "BP"}
          /\ vr.needs_index /\ ~vr.needs_base => preg \in {"SI", "DI"}
          /\ vr.needs_addressable => preg \in {"BX", "BP", "SI", "DI"}
          /\ vr.needs_ds_addr => preg \in {"BX", "SI", "DI"} \/ vr.prefer = "BP" \/ vr.needs_base

\* Registers of the pool suit the vreg, unless it is to be a base or an index and
\* addressable by other registers, too.
LEMMA PoolClass ==
    ASSUME NEW vr \in VregInfo, NEW bp \in BOOLEAN, NEW preg \in PoolSet(vr, bp)
    PROVE  InClass(vr, preg)
<1> DEFINE p == get_vreg_pool(vr, bp)
           Suits(q) == \A k \in 1 .. Len(q) : InClass(vr, q[k])
<1>0. vr.is_seg \in BOOLEAN /\ vr.needs_cl \in BOOLEAN /\ vr.is_byte \in BOOLEAN
      /\ vr.needs_base \in BOOLEAN /\ vr.needs_index \in BOOLEAN
      /\ vr.needs_addressable \in BOOLEAN /\ vr.needs_ds_addr \in BOOLEAN
  BY DEF VregInfo
<1>1. CASE vr.is_seg
  <2>1. p = <<"ES">>
    BY <1>1 DEF get_vreg_pool
  <2>2. InClass(vr, "ES")
    BY <1>1 DEF InClass, SegRegs
  <2> HIDE DEF p
  <2>3. QED
    BY <2>1, <2>2 DEF PoolSet, p
<1>2. CASE ~vr.is_seg /\ vr.needs_cl
  <2>1. p = <<"CL">>
    BY <1>2 DEF get_vreg_pool
  <2>2. InClass(vr, "CL")
    BY <1>2 DEF InClass, SegRegs
  <2> HIDE DEF p
  <2>3. QED
    BY <2>1, <2>2 DEF PoolSet, p
<1>3. CASE ~vr.is_seg /\ ~vr.needs_cl /\ vr.is_byte
  <2>1. p = <<"AL", "AH", "BL", "BH", "CL", "CH", "DL", "DH">>
    BY <1>3 DEF get_vreg_pool
  <2>2. \A r : r \notin SegRegs => InClass(vr, r)
    BY <1>3 DEF InClass
  <2>3. \A k \in 1 .. Len(p) : p[k] \notin SegRegs
    BY <2>1 DEF SegRegs
  <2> HIDE DEF p
  <2>4. QED
    BY <2>2, <2>3 DEF PoolSet, p
<1>4. CASE ~vr.is_seg /\ ~vr.needs_cl /\ ~vr.is_byte
  <2>1. CASE vr.needs_base
    <3>1. p = <<"BX", "BP">> \/ p = <<"BX">>
      BY <1>4, <2>1 DEF get_vreg_pool
    <3>2. InClass(vr, "BX") /\ InClass(vr, "BP")
      BY <1>4, <2>1 DEF InClass, SegRegs
    <3> HIDE DEF p
    <3>3. QED
      BY <3>1, <3>2 DEF PoolSet, p
  <2>2. CASE ~vr.needs_base /\ vr.needs_index
    <3>1. p = <<"SI", "DI">>
      BY <1>4, <2>2 DEF get_vreg_pool
    <3>2. InClass(vr, "SI") /\ InClass(vr, "DI")
      BY <1>4, <2>2 DEF InClass, SegRegs
    <3> HIDE DEF p
    <3>3. QED
      BY <3>1, <3>2 DEF PoolSet, p
  <2>3. CASE ~vr.needs_base /\ ~vr.needs_index /\ (vr.needs_ds_addr \/ vr.needs_addressable)
    <3>1. \/ p = <<"BX", "SI", "DI">>
          \/ p = <<"BX", "BP", "SI", "DI">> /\ ~vr.needs_ds_addr
      BY <1>4, <2>3 DEF get_vreg_pool
    <3>2. /\ InClass(vr, "BX") /\ InClass(vr, "SI") /\ InClass(vr, "DI")
          /\ ~vr.needs_ds_addr => InClass(vr, "BP")
      BY <1>4, <2>3 DEF InClass, SegRegs
    <3> HIDE DEF p
    <3>3. QED
      BY <3>1, <3>2 DEF PoolSet, p
  <2>4. CASE ~vr.needs_base /\ ~vr.needs_index /\ ~vr.needs_ds_addr /\ ~vr.needs_addressable
    <3>1. p = <<"AX", "BX", "CX", "DX", "SI", "DI", "BP">>
          \/ p = <<"AX", "BX", "CX", "DX", "SI", "DI">>
      BY <1>4, <2>4 DEF get_vreg_pool
    <3>2. \A r : r \notin SegRegs => InClass(vr, r)
      BY <1>4, <2>4 DEF InClass
    <3>3. \A k \in 1 .. Len(p) : p[k] \notin SegRegs
      BY <3>1 DEF SegRegs
    <3> HIDE DEF p
    <3>4. QED
      BY <3>2, <3>3 DEF PoolSet, p
  <2>5. QED
    BY <1>0, <2>1, <2>2, <2>3, <2>4
<1>5. QED
  BY <1>0, <1>1, <1>2, <1>3, <1>4

\* A register that suits its vreg keeps RegisterClass when it is given.
LEMMA AssignClass ==
    ASSUME TypeOK, RegisterClass, NEW v \in Vreg, NEW preg \in Preg,
           ~vreg(v).fixed => InClass(vreg(v), preg), UNCHANGED fn,
           assigned' = [assigned EXCEPT ![v] = preg]
    PROVE  RegisterClass'
<1>1. \A w \in Vreg : vreg(w)' = vreg(w)
  BY DEF vreg
<1>2. \A w \in Vreg : assigned'[w] # NONE /\ ~vreg(w).fixed => InClass(vreg(w), assigned'[w])
  BY DEF TypeOK, RegisterClass, InClass
<1>3. QED
  BY <1>1, <1>2 DEF RegisterClass, InClass

\* No step gives a vreg a register that cannot do what is asked of it.
LEMMA ClassNext == TypeOK /\ Fresh /\ RegisterClass /\ [Next]_vars => RegisterClass'
<1> SUFFICES ASSUME TypeOK, Fresh, RegisterClass, [Next]_vars PROVE RegisterClass'
  OBVIOUS
<1>1. CASE UNCHANGED <<fn, assigned>>
  BY <1>1 DEF RegisterClass, vreg
<1>2. CASE ColorFixed
  <2>1. \A v \in Vreg : assigned'[v] # NONE => vreg(v).fixed
    BY <1>2 DEF ColorFixed, Fresh, TypeOK
  <2>2. QED
    BY <1>2, <2>1 DEF ColorFixed, driver, RegisterClass, vreg
<1>3. CASE ColorPreferred
  <2>1. i \in Vreg
    BY <1>3, NVAssumption DEF ColorPreferred, TypeOK, Vreg
  <2>2. vreg(i) \in VregInfo /\ vreg(i).prefer \in Preg
    BY <1>3, <2>1, VregType DEF TypeOK, VregInfo, ColorPreferred, preference_allowed
  <2>3. vreg(i).needs_ds_addr => vreg(i).needs_addressable
    BY <2>1, AddressAssumption DEF vreg, TypeOK, WellFormed, Func
  <2>4. InClass(vreg(i), vreg(i).prefer)
    BY <1>3, <2>3 DEF ColorPreferred, preference_allowed, InClass
  <2>5. QED
    BY <1>3, <2>1, <2>2, <2>4, AssignClass DEF ColorPreferred, driver
<1>4. CASE SelectPreferred \/ SelectColor
  <2>1. Top \in Vreg
    BY <1>4 DEF SelectPreferred, SelectColor, Top, TypeOK
  <2>2. PICK preg \in Pool(Top) : assigned' = [assigned EXCEPT ![Top] = preg]
    BY <1>4 DEF SelectPreferred, SelectColor, PreferenceFits
  <2>3. preg \in Preg /\ InClass(vreg(Top), preg)
    BY <2>1, <2>2, PoolRegs, PoolClass, VregType DEF Pool, TypeOK
  <2>4. QED
    BY <1>4, <2>1, <2>2, <2>3, AssignClass DEF SelectPreferred, SelectColor, driver
<1>5. CASE assigned' = [v \in Vreg |-> NONE]
  BY <1>5 DEF RegisterClass
<1>6. QED
  BY <1>1, <1>2, <1>3, <1>4, <1>5
     DEF Next, Done, Estimate, SkipPreferred, MarkRemoved, EndSimplify, Simplify, PotentialSpill,
         Push, Spill, EndSelect, CheckCallTemp, RetrySpills, Reallocate, CoalescePair,
         CoalesceSkip, CompactSlots, driver, vars

\* The stack when its top is taken off.
LEMMA PopStack ==
    ASSUME TypeOK, stack # << >>, Pop
    PROVE  /\ Top \in Vreg /\ stack' \in Seq(Vreg) /\ Len(stack') = Len(stack) - 1
           /\ \A k \in 1 .. Len(stack') : k \in 1 .. Len(stack) /\ stack'[k] = stack[k]
           /\ Top = stack[Len(stack)] /\ Len(stack) \in 1 .. Len(stack)
           /\ Waiting \subseteq Waiting' \cup {Top} /\ Waiting' \subseteq Waiting
<1>1. stack \in Seq(Vreg) /\ Len(stack) > 0 /\ Len(stack) \in Nat
  BY DEF TypeOK
<1>2. stack' = Front(stack)
  BY DEF Pop, Front
<1>3. /\ Front(stack) \in Seq(Vreg) /\ Len(Front(stack)) = Len(stack) - 1
      /\ \A k \in 1 .. Len(stack) - 1 : Front(stack)[k] = stack[k]
  BY ONLY <1>1, FrontOf
<1>4. /\ Len(stack') = Len(stack) - 1
      /\ \A k \in 1 .. Len(stack') : k \in 1 .. Len(stack) /\ stack'[k] = stack[k]
  BY <1>1, <1>2, <1>3
<1>5. \A k \in 1 .. Len(stack) : k \in 1 .. Len(stack') \/ k = Len(stack)
  BY <1>1, <1>4
<1>6. Top = stack[Len(stack)] /\ Len(stack) \in 1 .. Len(stack) /\ Top \in Vreg
  BY <1>1 DEF Top
<1>7. Waiting \subseteq Waiting' \cup {Top}
  BY <1>4, <1>5, <1>6 DEF Waiting
<1>8. Waiting' \subseteq Waiting
  BY <1>4 DEF Waiting
<1>9. QED
  BY <1>2, <1>3, <1>4, <1>6, <1>7, <1>8

\* No vreg that needs a place is forgotten.
\* A push adds its vreg to the waiting ones.
LEMMA PushStack ==
    ASSUME TypeOK, NEW v \in Vreg, Push(v)
    PROVE  Waiting' = Waiting \cup {v}
<1>1. stack \in Seq(Vreg) /\ Len(stack) \in Nat
  BY DEF TypeOK
<1>2. /\ Len(stack') = Len(stack) + 1 /\ stack'[Len(stack) + 1] = v
      /\ \A k \in 1 .. Len(stack) : stack'[k] = stack[k]
  BY <1>1 DEF Push
<1>3. \A k \in 1 .. Len(stack') : k \in 1 .. Len(stack) \/ k = Len(stack) + 1
  BY <1>1, <1>2
<1>4. \A k \in 1 .. Len(stack) + 1 : k \in 1 .. Len(stack')
  BY <1>1, <1>2
<1>5. Len(stack) + 1 \in 1 .. Len(stack')
  BY <1>1, <1>2
<1>6. QED
  BY <1>1, <1>2, <1>3, <1>4, <1>5 DEF Waiting

\* No step loses a value that needs storage.
LEMMA StoredNext == TypeOK /\ StoredInv /\ [Next]_vars => StoredInv'
<1> SUFFICES ASSUME TypeOK, StoredInv, [Next]_vars PROVE StoredInv'
  OBVIOUS
<1>0. UNCHANGED fn /\ \A v : (NeedsStorage(v)' <=> NeedsStorage(v))
                             /\ (vreg_can_rematerialize(v)' <=> vreg_can_rematerialize(v))
  <2>1. UNCHANGED fn
    BY DEF Next, vars, Estimate, driver, ColorFixed, ColorPreferred,
           SkipPreferred, MarkRemoved, Simplify, PotentialSpill, Push,
           EndSimplify, SelectPreferred, SelectColor, Spill, EndSelect,
           CheckCallTemp, RetrySpills, CoalescePair, CoalesceSkip,
           CompactSlots, Done
  <2>2. \A v : vreg(v)' = vreg(v)
    BY <2>1 DEF vreg
  <2>3. QED
    BY <2>1, <2>2 DEF NeedsStorage, vreg_can_rematerialize
<1>1. CASE pc' \in {"estimate", "fixed", "prefer"}
  BY <1>1 DEF StoredInv
<1>2. CASE MarkRemoved
  BY <1>0, <1>2 DEF MarkRemoved, StoredInv, NeedsStorage
<1>3. CASE Simplify \/ PotentialSpill
  <2>1. PICK v \in Vreg : Push(v)
    BY <1>3 DEF Simplify, PotentialSpill
  <2>2. /\ pc = "simplify" /\ pc' = "simplify" /\ UNCHANGED assigned
        /\ removed' = removed \cup {v} /\ stack' = Append(stack, v)
    BY <1>3, <2>1 DEF Push, Simplify, PotentialSpill
  <2>3. Waiting' = Waiting \cup {v}
    BY <2>1, PushStack
  <2>4. QED
    BY <1>0, <2>2, <2>3 DEF StoredInv
<1>4. CASE EndSimplify
  BY <1>0, <1>4 DEF EndSimplify, StoredInv, Stored, Waiting
<1>5. CASE SelectPreferred \/ SelectColor \/ Spill
  <2>1. stack # << >> /\ Pop /\ pc = "select" /\ pc' = "select"
    BY <1>5 DEF SelectPreferred, SelectColor, Spill
  <2>2. PICK t \in Vreg : t = Top /\ Waiting \subseteq Waiting' \cup {t}
    BY <2>1, PopStack
  <2>3. Stored(t)'
    <3>1. CASE SelectPreferred
      <4>1. assigned'[t] = vreg(t).prefer /\ vreg(t).prefer # NONE
        BY <2>2, <3>1 DEF SelectPreferred, PreferenceFits, TypeOK
      <4>2. QED
        BY <4>1 DEF Stored
    <3>2. CASE SelectColor
      <4>1. PICK preg \in Pool(t) : assigned' = [assigned EXCEPT ![t] = preg]
        BY <2>2, <3>2 DEF SelectColor
      <4>2. preg # NONE
        BY <4>1, PoolRegs DEF Pool, TypeOK
      <4>3. assigned'[t] = preg
        BY <4>1 DEF TypeOK
      <4>4. QED
        BY <4>2, <4>3 DEF Stored
    <3>3. CASE Spill
      <4>1. spill_slot'[t] = nspill_slots \/ vreg_can_rematerialize(t)
        BY <2>2, <3>3 DEF Spill, TypeOK
      <4>2. QED
        BY <1>0, <4>1 DEF Stored, TypeOK
    <3>4. QED
      BY <1>5, <3>1, <3>2, <3>3
  <2>4. ASSUME NEW v \in Vreg, v # t, Stored(v) PROVE Stored(v)'
    <3>1. assigned'[v] = assigned[v] /\ spill_slot'[v] = spill_slot[v]
      BY <1>5, <2>2, <2>4 DEF SelectPreferred, SelectColor, Spill, spills, TypeOK
    <3>2. QED
      BY <1>0, <2>4, <3>1 DEF Stored
  <2>5. QED
    BY <1>0, <2>1, <2>2, <2>3, <2>4 DEF StoredInv
<1>6. CASE EndSelect
  <2>1. pc' \in {"call_temp", "spill_retry", "coalesce"} /\ Waiting = {}
    BY <1>6 DEF EndSelect, TypeOK, Waiting
  <2>2. QED
    BY <1>0, <1>6, <2>1 DEF EndSelect, spills, StoredInv, Stored
<1>7. CASE /\ pc \in {"call_temp", "spill_retry", "coalesce", "done"}
           /\ pc' \in {"call_temp", "spill_retry", "coalesce", "done"}
           /\ UNCHANGED assigned /\ \A v \in Vreg : spill_slot[v] >= 0 => spill_slot'[v] >= 0
  BY <1>0, <1>7 DEF StoredInv, Stored
<1>8. CASE CheckCallTemp \/ RetrySpills
  BY <1>1, <1>7, <1>8 DEF CheckCallTemp, RetrySpills, Reallocate
<1>9. CASE CoalescePair
  <2>1. i \in Vreg /\ spill_slot[i] >= 0
    BY <1>9, NVAssumption DEF CoalescePair, LowByteSpill, Spilled, TypeOK, Vreg
  <2>2. PICK w \in Vreg : /\ spill_slot[w] >= 0
                          /\ spill_slot' = LET slot == IF spill_slot[w] < spill_slot[i]
                                                       THEN spill_slot[w] ELSE spill_slot[i]
                                           IN  [spill_slot EXCEPT ![i] = slot, ![w] = slot]
    BY <1>9 DEF CoalescePair, IsBestPeer, HighPeers, Spilled
  <2>3. \A v \in Vreg : spill_slot[v] >= 0 => spill_slot'[v] >= 0
    BY <2>1, <2>2 DEF TypeOK
  <2>4. QED
    BY <1>7, <1>9, <2>3 DEF CoalescePair
<1>10. CASE CompactSlots
  <2>1. \A v \in Vreg : spill_slot[v] >= 0 => spill_slot'[v] >= 0
    BY <1>10, SlotCounts DEF CompactSlots, TypeOK
  <2>2. QED
    BY <1>7, <1>10, <2>1 DEF CompactSlots
<1>11. CASE CoalesceSkip
  BY <1>7, <1>11 DEF CoalesceSkip, spills
<1>12. CASE UNCHANGED vars
  BY <1>12 DEF vars, StoredInv, NeedsStorage, Stored, Waiting, vreg, vreg_can_rematerialize
<1>13. QED
  BY <1>1, <1>2, <1>3, <1>4, <1>5, <1>6, <1>8, <1>9, <1>10, <1>11, <1>12
     DEF Next, Done, Estimate, ColorFixed, ColorPreferred, SkipPreferred

\* Every value that is live gets a register, a frame slot or is recomputed, and no
\* operand a register its encoding does not admit, through pre-colouring,
\* optimistic selection, spilling and the retries: except that a DS address may
\* be given BP when it prefers BP or is also a base, as RegisterClass says.
THEOREM StorageSoundCorrect == Spec => []StorageSound
<1>1. Init => ColoringInv /\ RegisterClass /\ StoredInv
  <2> SUFFICES ASSUME Init PROVE ColoringInv /\ RegisterClass /\ StoredInv
    OBVIOUS
  <2>1. TypeOK
    BY TypeInit
  <2>2. \A v \in Vreg : assigned[v] = NONE
    BY DEF Init, Unallocated
  <2>3. Coloring
    BY <2>1, <2>2 DEF Coloring, pregs_alias, TypeOK, WellFormed, Func
  <2>4. QED
    BY <2>1, <2>2, <2>3 DEF Init, ColoringInv, Fresh, RegisterClass, StoredInv
<1>2. ColoringInv => TypeOK /\ Fresh
  BY DEF ColoringInv
<1>3. RegisterClass /\ StoredInv => StorageSound
  BY DEF StoredInv, StorageSound, EveryVregStored, NeedsStorage, Stored
<1>4. QED
  BY <1>1, <1>2, <1>3, ColoringNext, ClassNext, StoredNext, PTL DEF Spec

-----------------------------------------------------------------------------
(***************************************************************************)
(* The frame.  Until byte halves are coalesced every spill has a slot of its *)
(* own and the slots are numbered without holes; then only the two halves of *)
(* one pair share, and renumbering closes the holes.                        *)
(***************************************************************************)
Halved(v, w) ==
    /\ vreg(v).is_byte /\ vreg(w).is_byte /\ ~vreg(v).high /\ vreg(w).high
    /\ v < i /\ spill_byte_offset[v] = 0 /\ spill_byte_offset[w] = 1
Apart ==
    \A v, w \in Vreg :
        v # w /\ spill_slot[v] = spill_slot[w] /\ spill_slot[v] # -1 =>
            changed /\ (Halved(v, w) \/ Halved(w, v))
Dense == UsedSlots = 0 .. nspill_slots - 1

SlotsInv ==
    /\ pc \in {"estimate", "fixed", "prefer", "simplify"} =>
          nspill_slots = 0 /\ \A v \in Vreg : spill_slot[v] = -1
    /\ pc \notin {"coalesce", "done"} => ~changed /\ \A v \in Vreg : spill_byte_offset[v] = 0
    /\ pc \in {"simplify", "select"} => Distinct(stack)
    /\ pc = "simplify" => Waiting \subseteq removed
    /\ pc = "select" => \A v \in Waiting : spill_slot[v] = -1
    /\ ~changed \/ pc = "done" => Dense
    /\ Apart

\* Without spills the frame is empty.
LEMMA NoSlots ==
    ASSUME TypeOK, \A v \in Vreg : spill_slot[v] = -1, nspill_slots = 0
    PROVE  Dense /\ Apart
BY DEF Dense, Apart, UsedSlots, TypeOK

\* What the frame looks like depends on these variables only.
LEMMA SlotsKept ==
    ASSUME UNCHANGED <<fn, spill_slot, spill_byte_offset, nspill_slots, changed>>,
           Apart, TypeOK, TypeOK', i' >= i
    PROVE  Apart' /\ (Dense' <=> Dense)
<1>1. UNCHANGED UsedSlots /\ \A v : vreg(v)' = vreg(v)
  BY DEF UsedSlots, vreg
<1>2. i \in Nat /\ i' \in Nat /\ \A v \in Vreg : v \in Nat
  BY DEF TypeOK, Vreg
<1>3. \A v, w \in Vreg : Halved(v, w) => Halved(v, w)'
  BY <1>1, <1>2 DEF Halved
<1>4. QED
  BY <1>1, <1>3 DEF Apart, Dense

\* A spill gets the next slot.
LEMMA SpillSlots ==
    ASSUME TypeOK, SlotsInv, Spill
    PROVE  Dense' /\ Apart'
<1>1. pc = "select" /\ ~changed /\ ~changed' /\ stack # << >> /\ Pop
      /\ UNCHANGED <<fn, i, spill_byte_offset>>
  BY DEF Spill, SlotsInv, driver
<1>2. PICK t \in Vreg : t = Top /\ spill_slot[t] = -1
  BY <1>1, PopStack DEF SlotsInv, Waiting
<1>3. CASE UNCHANGED <<spill_slot, nspill_slots>>
  BY <1>1, <1>3 DEF SlotsInv, Apart, Dense, UsedSlots
<1>4. CASE /\ spill_slot' = [spill_slot EXCEPT ![t] = nspill_slots]
           /\ nspill_slots' = nspill_slots + 1
  <2>1. nspill_slots \in Nat /\ UsedSlots = 0 .. nspill_slots - 1
    BY <1>1 DEF TypeOK, SlotsInv, Dense
  <2>2. \A v \in Vreg : spill_slot'[v] = IF v = t THEN nspill_slots ELSE spill_slot[v]
    BY <1>4 DEF TypeOK
  <2>3. \A v \in Vreg : spill_slot[v] = -1 \/ spill_slot[v] \in 0 .. nspill_slots - 1
    BY <2>1 DEF UsedSlots, TypeOK
  <2>4. UsedSlots' = UsedSlots \cup {nspill_slots}
    <3>1. UsedSlots' \subseteq UsedSlots \cup {nspill_slots}
      BY <2>2 DEF UsedSlots
    <3>2. nspill_slots \in UsedSlots'
      BY <2>1, <2>2 DEF UsedSlots
    <3>3. \A v \in Vreg : spill_slot[v] # -1 => v # t
      BY <1>2
    <3>4. UsedSlots \subseteq UsedSlots'
      BY <2>2, <3>3 DEF UsedSlots
    <3>5. QED
      BY <3>1, <3>2, <3>4
  <2>5. Dense'
    BY <1>4, <2>1, <2>4 DEF Dense
  <2>6. \A v, w \in Vreg : v # w /\ spill_slot'[v] = spill_slot'[w] => spill_slot'[v] = -1
    <3> SUFFICES ASSUME NEW v \in Vreg, NEW w \in Vreg, v # w, spill_slot'[v] = spill_slot'[w]
                 PROVE  spill_slot'[v] = -1
      OBVIOUS
    <3>1. v # t /\ w # t
      BY <2>1, <2>2, <2>3
    <3>2. QED
      BY <1>1, <2>2, <3>1 DEF SlotsInv, Apart
  <2>7. QED
    BY <2>5, <2>6 DEF Apart
<1>5. QED
  BY <1>2, <1>3, <1>4 DEF Spill

\* Pairing two halves takes both from slots they had to themselves.
LEMMA PairSlots ==
    ASSUME TypeOK, SlotsInv, CoalescePair
    PROVE  Apart'
<1>1. pc = "coalesce" /\ i < NV /\ LowByteSpill(i) /\ i' = i + 1 /\ changed' = TRUE /\ UNCHANGED fn
  BY DEF CoalescePair, driver
<1>2. i \in Vreg /\ i \in Nat /\ \A v \in Vreg : v \in Nat
  BY <1>1, NVAssumption DEF TypeOK, Vreg
<1>3. PICK w \in Vreg : /\ w \in HighPeers(i)
                        /\ spill_slot' = LET slot == IF spill_slot[w] < spill_slot[i]
                                                     THEN spill_slot[w] ELSE spill_slot[i]
                                         IN  [spill_slot EXCEPT ![i] = slot, ![w] = slot]
                        /\ spill_byte_offset' = [spill_byte_offset EXCEPT ![i] = 0, ![w] = 1]
  BY DEF CoalescePair, IsBestPeer
<1>4. /\ vreg(w).high /\ ~vreg(i).high /\ w # i /\ vreg(w).is_byte /\ vreg(i).is_byte
      /\ spill_byte_offset[w] = 0 /\ spill_slot[w] # -1 /\ spill_slot[i] # -1
  BY <1>1, <1>3 DEF HighPeers, LowByteSpill, Spilled
<1>5. PICK slot \in {spill_slot[i], spill_slot[w]} :
          \A v \in Vreg : /\ spill_slot'[v] = IF v \in {i, w} THEN slot ELSE spill_slot[v]
                          /\ v \notin {i, w} => spill_byte_offset'[v] = spill_byte_offset[v]
  BY <1>2, <1>3 DEF TypeOK
<1>6. spill_byte_offset'[i] = 0 /\ spill_byte_offset'[w] = 1
  BY <1>2, <1>3, <1>4 DEF TypeOK
<1>7. \A v \in Vreg : vreg(v)' = vreg(v)
  BY <1>1 DEF vreg
<1>8. \A v, x \in Vreg : v # x /\ spill_slot[v] = spill_slot[x] /\ spill_slot[v] # -1 =>
                            Halved(v, x) \/ Halved(x, v)
  BY DEF SlotsInv, Apart
<1>9. ASSUME NEW v \in Vreg, v \notin {i, w}
      PROVE  spill_slot[v] # spill_slot[i] /\ spill_slot[v] # spill_slot[w]
  <2>1. ~Halved(v, i) /\ ~Halved(i, v)
    BY <1>2, <1>4 DEF Halved
  <2>2. ~Halved(v, w) /\ ~Halved(w, v)
    BY <1>4 DEF Halved
  <2>3. QED
    BY <1>2, <1>4, <1>8, <1>9, <2>1, <2>2
<1>10. PICK k \in Nat : k = i /\ k \in Vreg /\ i' = k + 1
  BY <1>1, <1>2
<1>11. ASSUME NEW v \in Vreg, NEW x \in Vreg, v # x, spill_slot'[v] = spill_slot'[x],
              spill_slot'[v] # -1
       PROVE  Halved(v, x)' \/ Halved(x, v)'
  <2>1. CASE v \in {i, w} /\ x \in {i, w}
    <3>1. (v = k /\ x = w) \/ (v = w /\ x = k)
      BY <1>10, <1>11, <2>1
    <3>2. Halved(k, w)'
      BY <1>4, <1>6, <1>7, <1>10 DEF Halved
    <3>3. QED
      BY <3>1, <3>2
  <2>2. CASE v \notin {i, w} /\ x \notin {i, w}
    <3>1. Halved(v, x) \/ Halved(x, v)
      BY <1>5, <1>8, <1>11, <2>2
    <3>2. /\ spill_byte_offset'[v] = spill_byte_offset[v]
          /\ spill_byte_offset'[x] = spill_byte_offset[x]
      BY <1>5, <2>2
    <3>3. (v < i => v < i') /\ (x < i => x < i')
      BY <1>2, <1>10
    <3>4. vreg(v)' = vreg(v) /\ vreg(x)' = vreg(x)
      BY <1>7
    <3>5. (Halved(v, x) => Halved(v, x)') /\ (Halved(x, v) => Halved(x, v)')
      BY <3>2, <3>3, <3>4 DEF Halved
    <3>6. QED
      BY <3>1, <3>5
  <2>3. CASE (v \in {i, w}) # (x \in {i, w})
    BY <1>5, <1>9, <1>11, <2>3
  <2>4. QED
    BY <2>1, <2>2, <2>3
<1>12. QED
  BY <1>1, <1>11 DEF Apart

\* Renumbering keeps slots different and leaves no hole.
LEMMA CompactFrame ==
    ASSUME TypeOK, SlotsInv, CompactSlots, changed
    PROVE  Dense' /\ Apart'
<1>1. /\ spill_slot' = [v \in Vreg |-> IF spill_slot[v] < 0 THEN spill_slot[v]
                                       ELSE Cardinality(UsedBefore(spill_slot[v]))]
      /\ nspill_slots' = Cardinality(UsedSlots)
      /\ UNCHANGED <<fn, i, spill_byte_offset, changed>>
  BY DEF CompactSlots, driver
<1> DEFINE Users(s) == {w \in Vreg : spill_slot[w] = s}
           first == [s \in UsedSlots |-> CHOOSE w \in Users(s) : \A u \in Users(s) : w <= u]
<1>2. ASSUME NEW s \in UsedSlots
      PROVE  first[s] \in Users(s) /\ \A u \in Users(s) : first[s] <= u
  <2>1. Users(s) \subseteq Nat /\ Users(s) # {}
    BY DEF UsedSlots, Vreg
  <2>2. \E w \in Users(s) : \A u \in Users(s) : w <= u
    <3> HIDE DEF Users
    <3>1. QED
      BY <2>1, SmallestElement
  <2>3. QED
    BY <2>2
<1>3. first \in [UsedSlots -> Nat] /\ \A s \in UsedSlots : first[s] \in Vreg /\ spill_slot[first[s]] = s
  <2>1. \A s \in UsedSlots : first[s] \in Vreg /\ spill_slot[first[s]] = s
    BY <1>2
  <2>2. \A s \in UsedSlots : first[s] \in Nat
    BY <2>1 DEF Vreg
  <2>3. first = [s \in UsedSlots |-> first[s]]
    OBVIOUS
  <2> HIDE DEF first
  <2>4. QED
    BY <2>1, <2>2, <2>3
<1> HIDE DEF first
<1>4. ASSUME NEW s \in UsedSlots
      PROVE  UsedBefore(s) = {t \in UsedSlots : first[t] < first[s]}
  <2>1. ASSUME NEW t \in UsedSlots, NEW w \in Vreg, spill_slot[w] = t,
               \A u \in Vreg : spill_slot[u] = s => w < u
        PROVE  first[t] < first[s]
    <3>1. w \in Users(t) /\ first[t] \in Nat /\ w \in Nat /\ first[s] \in Nat
      BY <1>3, <2>1 DEF Vreg
    <3>2. first[t] <= w /\ w < first[s]
      BY <1>2, <1>3, <2>1, <3>1
    <3>3. QED
      BY <3>1, <3>2
  <2>2. ASSUME NEW t \in UsedSlots, first[t] < first[s], NEW u \in Vreg, spill_slot[u] = s
        PROVE  first[t] < u
    <3>1. u \in Users(s) /\ first[t] \in Nat /\ u \in Nat /\ first[s] \in Nat
      BY <1>3, <2>2 DEF Vreg
    <3>2. first[s] <= u
      BY <1>2, <3>1
    <3>3. QED
      BY <2>2, <3>1, <3>2
  <2>3. QED
    BY <1>3, <2>1, <2>2 DEF UsedBefore
<1>5. PICK rank : rank = RankOf(UsedSlots, first)
  OBVIOUS
<1>6. /\ \A s, t \in UsedSlots : rank[s] = rank[t] => s = t
      /\ {rank[s] : s \in UsedSlots} = 0 .. Cardinality(UsedSlots) - 1
  <2>1. \A s, t \in UsedSlots : first[s] = first[t] => s = t
    BY <1>3
  <2>2. IsFiniteSet(UsedSlots)
    BY SlotCounts
  <2>3. PICK U, f : U = UsedSlots /\ f = first
    OBVIOUS
  <2>4. /\ IsFiniteSet(U) /\ f \in [U -> Nat]
        /\ \A s, t \in U : f[s] = f[t] => s = t
        /\ rank = RankOf(U, f)
    BY <1>3, <1>5, <2>1, <2>2, <2>3
  <2>5. /\ \A s, t \in U : rank[s] = rank[t] => s = t
        /\ {rank[s] : s \in U} = 0 .. Cardinality(U) - 1
    BY ONLY <2>4, Ranks
  <2>6. QED
    BY <2>3, <2>5
<1>7. \A v \in Vreg : /\ spill_slot[v] = -1 \/ (spill_slot[v] \in UsedSlots /\ spill_slot[v] >= 0)
                      /\ spill_slot'[v] = IF spill_slot[v] = -1 THEN -1 ELSE rank[spill_slot[v]]
  <2>1. \A v \in Vreg : spill_slot[v] = -1 \/ (spill_slot[v] \in UsedSlots /\ spill_slot[v] >= 0)
    BY DEF TypeOK, UsedSlots
  <2>2. \A s \in UsedSlots : rank[s] = Cardinality(UsedBefore(s))
    BY <1>4, <1>5 DEF RankOf
  <2>3. ASSUME NEW v \in Vreg
        PROVE  spill_slot'[v] = IF spill_slot[v] = -1 THEN -1 ELSE rank[spill_slot[v]]
    <3>1. spill_slot'[v] = IF spill_slot[v] < 0 THEN spill_slot[v]
                           ELSE Cardinality(UsedBefore(spill_slot[v]))
      BY <1>1
    <3>2. CASE spill_slot[v] = -1
      BY <3>1, <3>2
    <3>3. CASE spill_slot[v] # -1
      <4>1. spill_slot[v] \in UsedSlots /\ spill_slot[v] >= 0 /\ spill_slot[v] \in Nat
        BY <2>1, <3>3 DEF TypeOK
      <4>2. ~(spill_slot[v] < 0)
        BY <4>1
      <4>3. QED
        BY <2>2, <3>1, <3>3, <4>1, <4>2
    <3>4. QED
      BY <3>2, <3>3
  <2>4. QED
    BY <2>1, <2>3
<1>8. \A s \in UsedSlots : rank[s] # -1
  BY <1>6, SlotCounts
<1>9. UsedSlots' = {rank[s] : s \in UsedSlots}
  <2>1. \A x : x \in UsedSlots' <=> \E v \in Vreg : x = spill_slot'[v] /\ x # -1
    BY DEF UsedSlots
  <2>2. \A s : s \in UsedSlots <=> \E v \in Vreg : s = spill_slot[v] /\ s # -1
    BY DEF UsedSlots
  <2>3. \A x \in UsedSlots' : \E s \in UsedSlots : x = rank[s]
    BY <1>7, <2>1
  <2>4. ASSUME NEW s \in UsedSlots PROVE rank[s] \in UsedSlots'
    <3>1. PICK v \in Vreg : s = spill_slot[v] /\ s # -1
      BY <2>2
    <3>2. spill_slot'[v] = rank[s]
      BY <1>7, <3>1
    <3>3. QED
      BY <1>8, <2>1, <3>2
  <2>5. QED
    BY <2>3, <2>4
<1>10. Dense'
  BY <1>1, <1>6, <1>9 DEF Dense
<1>11. \A v : vreg(v)' = vreg(v)
  BY <1>1 DEF vreg
<1>12. \A v, w \in Vreg : Halved(v, w)' <=> Halved(v, w)
  BY <1>1, <1>11 DEF Halved
<1>13. \A v, w \in Vreg : spill_slot'[v] = spill_slot'[w] /\ spill_slot'[v] # -1 =>
          spill_slot[v] = spill_slot[w] /\ spill_slot[v] # -1
  BY <1>6, <1>7
<1>14. Apart
  BY DEF SlotsInv
<1>15. QED
  BY <1>1, <1>10, <1>12, <1>13, <1>14 DEF Apart
\* A push adds one vreg to the stack, a pop takes the top one off it.
LEMMA StackDistinct ==
    ASSUME TypeOK, Distinct(stack)
    PROVE  /\ \A v \in Vreg : Push(v) /\ v \notin Waiting => Distinct(stack')
           /\ stack # << >> /\ Pop => Distinct(stack') /\ Top \notin Waiting'
<1>1. stack \in Seq(Vreg) /\ Waiting = ToSet(stack) /\ Len(stack) \in Nat
  BY DEF TypeOK, Waiting, ToSet
<1>2. ASSUME NEW v \in Vreg, Push(v), v \notin Waiting PROVE Distinct(stack')
  <2>1. stack' = Append(stack, v)
    BY <1>2 DEF Push
  <2>2. Distinct(Append(stack, v))
    BY <1>1, <1>2, AppendNew
  <2>3. QED
    BY <2>1, <2>2
<1>3. ASSUME stack # << >>, Pop PROVE Distinct(stack') /\ Top \notin Waiting'
  <2>1. PICK n \in Nat, t \in Vreg : n = Len(stack) /\ t = Top /\ n \in 1 .. n /\ t = stack[n]
    BY <1>1, <1>3, PopStack
  <2>2. /\ Len(stack') = n - 1
        /\ \A k \in 1 .. n - 1 : k \in 1 .. n /\ k # n /\ stack'[k] = stack[k]
    BY <1>3, <2>1, PopStack
  <2>3. \A j, k \in 1 .. n : stack[j] = stack[k] => j = k
    BY <2>1 DEF Distinct
  <2>4. Distinct(stack')
    BY <2>2, <2>3 DEF Distinct
  <2>5. \A k \in 1 .. n - 1 : stack'[k] # t
    BY <2>1, <2>2, <2>3
  <2>6. t \notin Waiting'
    BY <2>2, <2>5 DEF Waiting
  <2>7. Top = t
    BY <2>1
  <2>8. QED
    BY <2>4, <2>6, <2>7
<1>4. QED
  BY <1>2, <1>3

\* While nothing is paired the frame does not depend on the loop index.
LEMMA Unpaired ==
    ASSUME UNCHANGED <<spill_slot, nspill_slots>>, ~changed, Apart, Dense
    PROVE  Apart' /\ Dense'
BY DEF Apart, Dense, UsedSlots

\* Every step keeps the frame in order.
LEMMA SlotsNext == TypeOK /\ TypeOK' /\ SlotsInv /\ [Next]_vars => SlotsInv'
<1> SUFFICES ASSUME TypeOK, TypeOK', SlotsInv, [Next]_vars PROVE SlotsInv'
  OBVIOUS
<1>1. CASE Estimate \/ ColorFixed \/ ColorPreferred \/ SkipPreferred
  <2>1. /\ pc \in {"estimate", "fixed", "prefer"} /\ pc' \in {"fixed", "prefer"}
        /\ UNCHANGED spills
    BY <1>1 DEF Estimate, ColorFixed, ColorPreferred, SkipPreferred
  <2>2. Apart' /\ Dense'
    BY <2>1, Unpaired DEF SlotsInv, spills
  <2>3. QED
    BY <2>1, <2>2 DEF SlotsInv, spills
<1>2. CASE MarkRemoved
  <2>1. pc = "prefer" /\ pc' = "simplify" /\ UNCHANGED spills /\ stack' = << >>
    BY <1>2 DEF MarkRemoved
  <2>2. Apart' /\ Dense'
    BY <2>1, Unpaired DEF SlotsInv, spills
  <2>3. Distinct(stack') /\ Waiting' = {}
    BY <2>1 DEF Distinct, Waiting
  <2>4. QED
    BY <2>1, <2>2, <2>3 DEF SlotsInv, spills
<1>3. CASE Simplify \/ PotentialSpill
  <2>1. PICK v \in Vreg \ removed : Push(v)
    BY <1>3 DEF Simplify, PotentialSpill
  <2>2. /\ pc = "simplify" /\ pc' = "simplify" /\ UNCHANGED spills
        /\ removed' = removed \cup {v}
    BY <1>3, <2>1 DEF Push, Simplify, PotentialSpill
  <2>3. Apart' /\ Dense'
    BY <2>2, Unpaired DEF SlotsInv, spills
  <2>4. Distinct(stack') /\ Waiting' = Waiting \cup {v}
    BY <2>1, <2>2, StackDistinct, PushStack DEF SlotsInv
  <2>5. QED
    BY <2>2, <2>3, <2>4 DEF SlotsInv, spills
<1>4. CASE EndSimplify
  <2>1. /\ pc = "simplify" /\ pc' = "select" /\ UNCHANGED spills /\ UNCHANGED stack
    BY <1>4 DEF EndSimplify
  <2>2. Apart' /\ Dense'
    BY <2>1, Unpaired DEF SlotsInv, spills
  <2>3. Waiting' \subseteq Vreg
    BY DEF Waiting, TypeOK
  <2>4. QED
    BY <2>1, <2>2, <2>3 DEF SlotsInv, spills
<1>5. CASE SelectPreferred \/ SelectColor \/ Spill
  <2>1. stack # << >> /\ Pop /\ pc = "select" /\ pc' = "select" /\ UNCHANGED <<changed, spill_byte_offset>>
    BY <1>5 DEF SelectPreferred, SelectColor, Spill, spills
  <2>2. PICK t \in Vreg : t = Top /\ t \notin Waiting'
    BY <2>1, PopStack, StackDistinct DEF SlotsInv
  <2>3. Distinct(stack') /\ Waiting' \subseteq Waiting /\ Waiting' \subseteq Vreg
    BY <2>1, PopStack, StackDistinct DEF SlotsInv, Waiting, TypeOK
  <2>4. \A v \in Vreg : v # t => spill_slot'[v] = spill_slot[v]
    BY <1>5, <2>2 DEF SelectPreferred, SelectColor, Spill, spills, TypeOK
  <2>5. \A v \in Waiting' : spill_slot'[v] = -1
    BY <2>1, <2>2, <2>3, <2>4 DEF SlotsInv
  <2>6. Dense' /\ Apart'
    <3>1. CASE Spill
      BY <3>1, SpillSlots
    <3>2. CASE SelectPreferred \/ SelectColor
      BY <2>1, <3>2, Unpaired DEF SlotsInv, SelectPreferred, SelectColor, spills
    <3>3. QED
      BY <1>5, <3>1, <3>2
  <2>7. QED
    BY <2>1, <2>3, <2>5, <2>6 DEF SlotsInv
<1>6. CASE EndSelect
  <2>1. /\ pc = "select" /\ pc' \in {"call_temp", "spill_retry", "coalesce"}
        /\ UNCHANGED spills
    BY <1>6 DEF EndSelect, TypeOK
  <2>2. Apart' /\ Dense'
    BY <2>1, Unpaired DEF SlotsInv, spills
  <2>3. QED
    BY <2>1, <2>2 DEF SlotsInv, spills
<1>7. CASE CheckCallTemp \/ RetrySpills
  <2>1. /\ pc \in {"call_temp", "spill_retry"} /\ UNCHANGED changed
        /\ pc' \in {"fixed", "spill_retry", "coalesce"}
    BY <1>7 DEF CheckCallTemp, RetrySpills, Reallocate
  <2>2. \/ /\ \A v \in Vreg : spill_slot'[v] = -1 /\ spill_byte_offset'[v] = 0
           /\ nspill_slots' = 0
        \/ pc' # "fixed" /\ UNCHANGED <<spill_slot, spill_byte_offset, nspill_slots>>
    BY <1>7 DEF CheckCallTemp, RetrySpills, Reallocate
  <2>3. Apart' /\ Dense'
    <3>1. CASE UNCHANGED <<spill_slot, nspill_slots>>
      BY <2>1, <3>1, Unpaired DEF SlotsInv
    <3>2. CASE (\A v \in Vreg : spill_slot'[v] = -1) /\ nspill_slots' = 0
      <4>1. UsedSlots' = {}
        BY <3>2 DEF UsedSlots
      <4>2. QED
        BY <3>2, <4>1 DEF Apart, Dense
    <3>3. QED
      BY <2>2, <3>1, <3>2
  <2>4. QED
    BY <2>1, <2>2, <2>3 DEF SlotsInv
<1>8. CASE CoalescePair
  <2>1. changed' = TRUE /\ pc' = "coalesce"
    BY <1>8 DEF CoalescePair
  <2>2. QED
    BY <1>8, <2>1, PairSlots DEF SlotsInv
<1>9. CASE CoalesceSkip
  <2>1. /\ pc = "coalesce" /\ pc' = "coalesce" /\ UNCHANGED spills /\ UNCHANGED fn
        /\ i' = i + 1 /\ i \in Nat
    BY <1>9 DEF CoalesceSkip, driver, TypeOK
  <2>2. i' >= i
    BY <2>1
  <2>3. Apart' /\ (Dense' <=> Dense)
    BY <2>1, <2>2, SlotsKept DEF SlotsInv, spills
  <2>4. QED
    BY <2>1, <2>3 DEF SlotsInv, spills
<1>10. CASE CompactSlots
  <2>1. pc = "coalesce" /\ pc' = "done" /\ UNCHANGED changed
    BY <1>10 DEF CompactSlots
  <2>2. Dense' /\ Apart'
    <3>1. CASE changed
      BY <1>10, <3>1, CompactFrame
    <3>2. CASE ~changed
      BY <1>10, <2>1, <3>2, Unpaired DEF CompactSlots, SlotsInv
    <3>3. QED
      BY <3>1, <3>2
  <2>3. QED
    BY <2>1, <2>2 DEF SlotsInv
<1>11. CASE UNCHANGED vars
  BY <1>11 DEF vars, SlotsInv, Apart, Dense, Halved, UsedSlots, Waiting, Distinct, vreg
<1>12. QED
  BY <1>1, <1>2, <1>3, <1>4, <1>5, <1>6, <1>7, <1>8, <1>9, <1>10, <1>11 DEF Next, Done

\* The bytes of two slots are different; so are the two halves of one.
LEMMA SlotsSound == TypeOK /\ SlotsInv => FrameSound
<1> SUFFICES ASSUME TypeOK, SlotsInv PROVE FrameSound
  OBVIOUS
<1>1. FrameIsDense
  BY DEF SlotsInv, Dense, FrameIsDense
<1>2. ASSUME NEW v \in Vreg, NEW w \in Vreg, v # w, NEW x, x \in SpillBytes(v), x \in SpillBytes(w)
      PROVE  FALSE
  <2>1. PICK a, b : a = spill_slot[v] /\ b = spill_slot[w]
    OBVIOUS
  <2>2. PICK p, q : p = spill_byte_offset[v] /\ q = spill_byte_offset[w]
    OBVIOUS
  <2>3. a \in Nat /\ b \in Nat /\ p \in {0, 1} /\ q \in {0, 1}
    <3>1. ~(spill_slot[v] < 0) /\ ~(spill_slot[w] < 0)
      BY <1>2 DEF SpillBytes
    <3>2. QED
      BY <2>1, <2>2, <3>1 DEF TypeOK
  <2>4. /\ (vreg(v).is_byte /\ x = 2 * a + p) \/ (~vreg(v).is_byte /\ x \in {2 * a, 2 * a + 1})
        /\ (vreg(w).is_byte /\ x = 2 * b + q) \/ (~vreg(w).is_byte /\ x \in {2 * b, 2 * b + 1})
    BY <1>2, <2>1, <2>2, <2>3 DEF SpillBytes
  <2>5. a = b
    BY <2>3, <2>4
  <2>6. Halved(v, w) \/ Halved(w, v)
    <3>1. spill_slot[v] = spill_slot[w] /\ spill_slot[v] # -1
      BY <2>1, <2>3, <2>5
    <3>2. Apart
      BY DEF SlotsInv
    <3>3. QED
      BY <1>2, <3>1, <3>2 DEF Apart
  <2>7. vreg(v).is_byte /\ vreg(w).is_byte /\ p # q
    BY <2>2, <2>6 DEF Halved
  <2>8. QED
    BY <2>3, <2>4, <2>5, <2>7
<1>3. SpillsDisjoint
  BY <1>2 DEF SpillsDisjoint
<1>4. QED
  BY <1>1, <1>3 DEF FrameSound

\* No two spilled values share a frame byte, before and after byte halves are
\* coalesced and slots renumbered, and the finished frame has no hole.
THEOREM FrameSoundCorrect == Spec => []FrameSound
<1>1. Init => SlotsInv
  BY TypeInit, NoSlots DEF Init, Unallocated, SlotsInv
<1>2. QED
  BY <1>1, TypeCorrect, SlotsNext, SlotsSound, PTL DEF Spec
=============================================================================
