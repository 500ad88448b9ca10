------------------------------- MODULE Moves -------------------------------
(***************************************************************************)
(* Planned register moves of the binder (bind.c, fixup moves): the         *)
(* arguments of a call are copied, as if all at once, from where the       *)
(* caller keeps them into the registers the callee expects.  The binder    *)
(* emits the copies one by one: first those that overwrite no source still *)
(* needed; when every remaining copy would, it pushes the source of one    *)
(* and pops it into its destination at the end.  An action emits a copy,   *)
(* and the model runs the emitted instructions on a register file whose    *)
(* bytes are symbolic.                                                     *)
(***************************************************************************)
EXTENDS Pregs, FiniteSets, SequencesExt

CONSTANTS
    SpilledWords, SpilledBytes,   \* values kept in the frame, read through BP
    Remats                        \* values rematerialised as immediates

Spilled == SpilledWords \cup SpilledBytes

ASSUME SourcesAssumption ==
    /\ (Spilled \cup Remats) \cap (Preg \cup {NONE, "temp"}) = {}
    /\ SpilledWords \cap SpilledBytes = {} /\ Spilled \cap Remats = {}

\* What holds a value: a register, a place in the frame or an immediate.
Reg    == Preg \ {"SP", "FLAGS"}
Source == Reg \cup Spilled \cup Remats

VARIABLES
    pc,       \* here "moves", "pops", then "placed"
    call,     \* where each register argument is and where it is wanted
    moves,    \* planned_move_t[]
    mi,       \* loop index of the pops
    regs,     \* the word and segment registers, as <<low byte, high byte>>
    mem,      \* the spill slots and the call temp slot of the frame
    stack,    \* words pushed, the top first
    base      \* registers, frame and stack when the moves start

moveVars == <<call, moves, mi, base>>

-----------------------------------------------------------------------------
(* The register file. *)

Wide  == (WordRegs \cup SegRegs) \ {"SP"}
\* Byte k of what the source or register s holds before the call.
Orig(s, k) == <<s, k>>
Zero  == <<"zero", 1>>
Junk  == <<"junk", 1>>

Half(r)   == IF r \in {preg_alias_hi[w] : w \in SplitWords} THEN 2 ELSE 1
Put8(rf, r, b)  == [rf EXCEPT ![PushReg(r)][Half(r)] = b]
Put16(rf, r, w) == [rf EXCEPT ![r] = w]

IsByte(s) == s \in ByteRegs \cup SpilledBytes

\* The frame pointer: what BP holds after the prologue.
FrameBP == <<Orig("BP", 1), Orig("BP", 2)>>

\* What an instruction reads from s: spilled values need the frame pointer.
Word(rf, s) ==
    IF s \in Wide THEN rf[s]
    ELSE IF s \in Remats THEN <<Orig(s, 1), Orig(s, 2)>>
    ELSE IF rf["BP"] = FrameBP THEN mem[s] ELSE <<Junk, Junk>>

Byte(rf, s) ==
    IF s \in ByteRegs THEN rf[PushReg(s)][Half(s)] ELSE Word(rf, s)[1]

(***************************************************************************)
(* The code emitted to copy src into expected.  Where it goes through AX,  *)
(* AX is pushed before and popped after.                                   *)
(***************************************************************************)
rins_mov_preg_from_vreg(rf, expected, src) ==
    IF src \in Remats
    THEN IF expected \in ByteRegs THEN Put8(rf, expected, Byte(rf, src))
                                  ELSE Put16(rf, expected, Word(rf, src))
    ELSE IF expected \in ByteRegs /\ src \in WordRegs
    THEN IF src \in SplitWords THEN Put8(rf, expected, Byte(rf, src))
         ELSE IF expected = "AL" THEN Put16(rf, "AX", Word(rf, src))
         ELSE Put16(Put8(rf, expected, Byte(rf, src)), "AX", rf["AX"])
    ELSE IF expected \in WordRegs /\ IsByte(src)
    THEN IF expected \in SplitWords
         THEN Put8(rf, preg_alias_lo[expected], Byte(rf, src))
         ELSE Put16(rf, expected, <<Byte(rf, src), Zero>>)
    ELSE IF expected \in ByteRegs THEN Put8(rf, expected, Byte(rf, src))
    ELSE Put16(rf, expected, Word(rf, src))

\* A byte is pushed in the low half of AX.
rins_push_vreg_temp(rf, src) ==
    IF IsByte(src) THEN <<Byte(rf, src), rf["AX"][2]>> ELSE Word(rf, src)

-----------------------------------------------------------------------------
(* Planning. *)

\* The elements of s at the positions in P, in order.
Picked(s, P) ==
    LET upto[n \in 0 .. Len(s)] ==
            IF n = 0 THEN << >>
            ELSE IF n \in P THEN Append(upto[n - 1], s[n]) ELSE upto[n - 1]
    IN  upto[Len(s)]

planned_move_source_dep_reg(src) ==
    IF src \in Preg THEN src ELSE IF src \in Spilled THEN "BP" ELSE NONE

planned_move_clobber_reg(expected, src) ==
    IF expected = "AL" /\ src \in WordRegs \ SplitWords THEN "AX"
    ELSE IF expected \in SplitWords /\ IsByte(src)
         THEN preg_alias_lo[expected]
    ELSE expected

Planned(a) ==
    [dst_reg |-> a.dst, src |-> a.src,
     src_dep_reg |-> planned_move_source_dep_reg(a.src),
     clobber_reg |-> planned_move_clobber_reg(a.dst, a.src),
     done |-> FALSE, saved |-> FALSE]

\* Arguments that already are in a register aliasing the expected one stay.
PlannedMoves(c) ==
    LET kept == Picked(c, {k \in DOMAIN c : ~pregs_alias(c[k].src, c[k].dst)})
    IN  [k \in DOMAIN kept |-> Planned(kept[k])]

\* emit_call_arg_register_moves(): the moves for the arguments c are planned.
StartMoves(c) ==
    /\ pc' = "moves" /\ call' = c
    /\ moves' = PlannedMoves(c) /\ mi' = 0
    /\ base' = [regs |-> regs, mem |-> mem, stack |-> stack]

-----------------------------------------------------------------------------
(* emit_planned_register_moves(). *)

Lowest(S) == CHOOSE k \in S : \A l \in S : k <= l
Pending   == {k \in DOMAIN moves : ~moves[k].done}

\* Faulty variant: overlapping registers are not compared.
Free_equal ==
    {k \in Pending : \A l \in Pending \ {k} :
        moves[k].clobber_reg # moves[l].src_dep_reg}

\* Pending moves that overwrite no pending source.
Free ==
    {k \in Pending : \A l \in Pending \ {k} :
        ~preg_write_clobbers(moves[k].clobber_reg, moves[l].src_dep_reg)}

EmitMove ==
    /\ pc = "moves" /\ Free # {}
    /\ LET k == Lowest(Free) IN
          /\ regs' = rins_mov_preg_from_vreg(regs, moves[k].dst_reg,
                                             moves[k].src)
          /\ moves' = [moves EXCEPT ![k].done = TRUE]
    /\ UNCHANGED <<pc, call, mi, mem, stack, base>>

\* The move to break a cycle at: not into a half of AX if there is another.
InAXHalf(r) == r \in Halves("AX")
CyclePick ==
    LET other == {k \in Pending : ~InAXHalf(moves[k].dst_reg)}
    IN  Lowest(IF other # {} THEN other ELSE Pending)

SaveMove ==
    /\ pc = "moves" /\ Pending # {} /\ Free = {}
    /\ stack' = <<rins_push_vreg_temp(regs, moves[CyclePick].src)>> \o stack
    /\ moves' = [moves EXCEPT ![CyclePick].done = TRUE,
                              ![CyclePick].saved = TRUE]
    /\ UNCHANGED <<pc, call, mi, regs, mem, base>>

StartPops ==
    /\ pc = "moves" /\ Pending = {}
    /\ pc' = "pops" /\ mi' = Len(moves)
    /\ UNCHANGED <<call, moves, regs, mem, stack, base>>

\* The code that pops the word w into dst; bytes go through AL, and AX and
\* BP are restored from the stack.
PopInto(rf, dst, w) ==
    IF InAXHalf(dst) THEN Put16(rf, "AX", w)
    ELSE IF dst \in ByteRegs THEN Put8(rf, dst, w[1])
    ELSE Put16(rf, dst, w)

\* Faulty variant: the saved word is read but stays on the stack.
PopSaved_keep ==
    /\ pc = "pops" /\ mi > 0
    /\ regs' = IF moves[mi].saved
               THEN PopInto(regs, moves[mi].dst_reg, Head(stack)) ELSE regs
    /\ mi' = mi - 1
    /\ UNCHANGED <<pc, call, moves, mem, stack, base>>

PopSaved ==
    /\ pc = "pops" /\ mi > 0
    /\ IF moves[mi].saved
       THEN /\ regs' = PopInto(regs, moves[mi].dst_reg, Head(stack))
            /\ stack' = Tail(stack)
       ELSE UNCHANGED <<regs, stack>>
    /\ mi' = mi - 1
    /\ UNCHANGED <<pc, call, moves, mem, base>>

EndPops ==
    /\ pc = "pops" /\ mi = 0
    /\ pc' = "placed"
    /\ UNCHANGED <<call, moves, mi, regs, mem, stack, base>>

MoveStep == EmitMove \/ SaveMove \/ StartPops \/ PopSaved \/ EndPops

-----------------------------------------------------------------------------
(* Properties. *)

\* What the source s held when the moves started, byte k.
Before(s, k) ==
    IF s \in ByteRegs THEN base.regs[PushReg(s)][Half(s)]
    ELSE IF s \in Wide THEN base.regs[s][k]
    ELSE IF s \in Remats THEN Orig(s, k)
    ELSE base.mem[s][k]

\* The callee finds argument a in its register: the low byte where the sizes
\* of the argument and the parameter differ, as widening is not promised.
Arrived(a) ==
    /\ Byte(regs, a.dst) = Before(a.src, 1)
    /\ (a.dst \in Wide /\ ~IsByte(a.src)) => regs[a.dst][2] = Before(a.src, 2)

(***************************************************************************)
(* Arguments whose size differs from their parameter's and that the code   *)
(* places wrongly: a high half and its word are taken for one register,    *)
(* and AH is restored from the scratch copy of AX.                         *)
(***************************************************************************)
Mismatched(a) ==
    \/ a.src \in ByteRegs /\ Half(a.src) = 2 /\ a.dst = PushReg(a.src)
    \/ a.dst \in ByteRegs /\ Half(a.dst) = 2 /\ a.src = PushReg(a.dst)
    \/ a.dst = "AH" /\ a.src \in WordRegs \ SplitWords

BothHalvesOfAX == {"AL", "AH"} \subseteq {call[a].dst : a \in DOMAIN call}

(***************************************************************************)
(* "Call arguments: mismatched caller/callee register assignments get      *)
(* explicit movs" (BINDER.md): every argument reaches the callee, whatever *)
(* cycles the moves form (emit_planned_register_moves).  Left out are the  *)
(* Mismatched arguments, and calls that fill both halves of AX, for which  *)
(* the code does not achieve it: a saved half is popped as the whole of    *)
(* AX.                                                                     *)
(***************************************************************************)
ArgumentsPlaced ==
    (pc = "placed" /\ ~BothHalvesOfAX) =>
        \A a \in DOMAIN call : Mismatched(call[a]) \/ Arrived(call[a])

\* The moves leave the stack as it was, and every register no part of which
\* is a destination: scratch uses of AX and BP are undone, so what lives
\* across the call survives the moves.
OthersUntouched ==
    pc = "placed" =>
        /\ stack = base.stack
        /\ \A r \in Wide \ {PushReg(call[a].dst) : a \in DOMAIN call} :
              regs[r] = base.regs[r]
=============================================================================
