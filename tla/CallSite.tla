------------------------------ MODULE CallSite ------------------------------
(***************************************************************************)
(* A call instruction in the binder (bind.c, insert_fixup_moves and the    *)
(* call instructions of emit_function): caller-saves, the stack area,      *)
(* argument moves (module Moves), the call itself, capture of the results, *)
(* removal of the area, restores, and reload of the results kept in the    *)
(* frame's call temp slot.  Each action emits one part, and the model runs *)
(* the emitted instructions.  Results may be captured into registers the   *)
(* restores overwrite, and the frame is only reachable while BP holds the  *)
(* frame pointer.                                                          *)
(***************************************************************************)
EXTENDS Moves

CONSTANT Sites       \* the calls the binder may be given, in families

(***************************************************************************)
(* A site: op "call" (direct; CALL and MCALL), "icall" (far, through a     *)
(* register pair) or "ncall" (near, through a register); args and rets     *)
(* with the place the callee's ABI gives them ("stack" or a register) and  *)
(* the caller's location; live, the registers of the other vregs live      *)
(* after the call, in vreg order; the registers the callee preserves;      *)
(* whether the function has a frame and whether flags are live afterwards; *)
(* tgt, the registers of the target, offset first.                         *)
(***************************************************************************)
STACK == "stack"

RegArgs(s)   == Picked(s.args, {k \in DOMAIN s.args : s.args[k].dst # STACK})
StackArgs(s) == Picked(s.args, {k \in DOMAIN s.args : s.args[k].dst = STACK})
StackRets(s) == {k \in DOMAIN s.rets : s.rets[k].exp = STACK}

direct_stack_arg_words(s) == Len(StackArgs(s))
direct_stack_ret_words(s) == Cardinality(StackRets(s))
call_area_words(s) ==
    IF direct_stack_arg_words(s) > direct_stack_ret_words(s)
    THEN direct_stack_arg_words(s) ELSE direct_stack_ret_words(s)

\* A result's word in the area: stack results lie over the stack arguments.
AreaIndex(s, k) == Cardinality({j \in StackRets(s) : j <= k})

(***************************************************************************)
(* call_returns_need_temp() and the driver's scan of the calls after which *)
(* flags are live: whether the frame gets a call temp slot.                *)
(***************************************************************************)
ret_capture_restore_reg(r) == IF r \in Preg THEN PushReg(r) ELSE NONE

call_returns_need_temp(s) ==
    \E k \in DOMAIN s.rets :
        LET r == s.rets[k]
            restore == ret_capture_restore_reg(r.act)
        IN  /\ r.exp # STACK /\ r.act \in Preg
            /\ \/ ~pregs_alias(r.act, r.exp)
               \/ s.frame /\ pregs_alias("BP", restore)
               \/ \E v \in ToSet(s.live) \cup
                         {s.rets[j].act : j \in DOMAIN s.rets \ {k}} :
                     v \in Preg /\ pregs_alias(PushReg(v), restore)

needs_call_temp(s) ==
    \/ call_returns_need_temp(s)
    \/ s.flags /\ (s.op = "icall" \/ call_area_words(s) > 0)

(***************************************************************************)
(* What the allocator guarantees: values live at the same time share no    *)
(* register; a function with frame keeps no value in BP, and has one if it *)
(* keeps anything in memory or needs the call temp slot.                   *)
(***************************************************************************)
Apart(S) == \A a, b \in S : a = b \/ ~pregs_alias(a, b)
ActsOf(s) == {s.rets[k].act : k \in DOMAIN s.rets}
SrcsOf(s) == {s.args[k].src : k \in DOMAIN s.args} \cup ToSet(s.tgt)

Allocated(s) ==
    /\ Apart(ToSet(s.live) \cup ActsOf(s))
    /\ ToSet(s.live) \cap ActsOf(s) = {}
    /\ Apart(ToSet(s.live) \cup SrcsOf(s))
    /\ Apart({s.args[k].dst : k \in DOMAIN s.args} \ {STACK})
    /\ \A j, k \in DOMAIN s.args :
          j # k => s.args[j].dst = STACK \/ s.args[j].dst # s.args[k].dst
    /\ \A j, k \in DOMAIN s.rets : j # k =>
          /\ s.rets[j].act # s.rets[k].act
          /\ s.rets[j].exp = STACK \/ ~pregs_alias(s.rets[j].exp, s.rets[k].exp)
    /\ needs_call_temp(s) => s.frame
    /\ s.frame => "BP" \notin ToSet(s.live) \cup ActsOf(s) \cup SrcsOf(s)
    /\ ~s.frame => (ActsOf(s) \cup SrcsOf(s)) \cap Spilled = {}
    /\ \A k \in DOMAIN s.rets : PushReg(s.rets[k].exp) \notin s.preserves

\* Descriptors of indirect calls pass nothing on the stack.
StackIsDirect(s) == s.op = "call" \/ call_area_words(s) = 0

\* A value is passed in a register or on the stack; segment registers take
\* words only.
Passes(as) ==
    /\ as \in Seq([src : Source, dst : Reg \cup {STACK}])
    /\ \A k \in DOMAIN as : as[k].dst \in SegRegs => ~IsByte(as[k].src)

ASSUME SitesAssumption ==
    \A F \in Sites : \A s \in F :
        /\ s.op \in {"call", "icall", "ncall"} /\ Passes(s.args) /\ s.live \in Seq(Reg)
        /\ s.rets \in Seq([exp : Reg \cup {STACK}, act : Reg \cup Spilled])
        /\ \A k \in DOMAIN s.rets : s.rets[k].exp # STACK =>
              (s.rets[k].exp \in ByteRegs) = IsByte(s.rets[k].act)
        /\ s.tgt \in Seq(Source) /\ \A t \in ToSet(s.tgt) : ~IsByte(t)
        /\ s.op = "icall" => Len(s.tgt) > 0
        /\ s.frame \in BOOLEAN /\ s.flags \in BOOLEAN
        /\ Allocated(s) /\ StackIsDirect(s)

VARIABLES
    site,     \* the call at hand
    ri,       \* index of the result captured or reloaded next
    temp_ret, \* results kept in the call temp slot
    flags,    \* whose flags the flags register holds
    reached   \* the target the call instruction reads

siteVars == <<site, ri, temp_ret, flags, reached>>
vars == <<pc, regs, mem, stack, moveVars, siteVars>>

Ret(k) == <<Orig("ret", 2 * k), Orig("ret", 2 * k + 1)>>
Unknown == <<Junk, Junk>>

-----------------------------------------------------------------------------
(* Caller-saves. *)

\* Registers the argument moves overwrite, as the words pushed for them.
collect_call_arg_setup_clobbers(s) ==
    {PushReg(a.dst) : a \in {a \in ToSet(RegArgs(s)) :
                                ~pregs_alias(a.src, a.dst)}}
outgoing_bp_param(s) == "BP" \in {s.args[k].dst : k \in DOMAIN s.args}

\* Whether the k-th of words is to be saved: nothing is saved twice.
add_call_saved_reg(saved, words, k) ==
    words[k] \notin ToSet(saved) /\ \A j \in 1 .. k - 1 : words[j] # words[k]

SavesBP(s) ==
    \/ s.frame /\ "BP" \notin s.preserves
    \/ s.op = "call" /\ outgoing_bp_param(s) /\ (s.frame \/ "BP" \in ToSet(s.live))
SavesBX(s) ==
    /\ direct_stack_ret_words(s) > 0
    /\ \E v \in ToSet(s.live) : pregs_alias(v, "BX")

\* Faulty variant: what the callee preserves is not saved, although the
\* argument moves overwrite it.
Clobbered_callee(s, v) == PushReg(v) \notin s.preserves

Clobbered(s, v) ==
    PushReg(v) \notin s.preserves \ collect_call_arg_setup_clobbers(s)

call_saved(s) ==
    LET bp == IF SavesBP(s) THEN <<"BP">> ELSE << >>
        bx == IF SavesBX(s) THEN Append(bp, "BX") ELSE bp
        words == [k \in DOMAIN s.live |-> PushReg(s.live[k])]
    IN  bx \o Picked(words, {k \in DOMAIN s.live :
                               Clobbered(s, s.live[k]) /\ add_call_saved_reg(bx, words, k)})

\* PUSHA covers six or more general registers in one instruction.
PushaOrder == <<"AX", "CX", "DX", "BX", "SP", "BP", "SI", "DI">>
preg_covered_by_pusha(r) == r \in ToSet(PushaOrder) \ {"SP"}
save_set_uses_pusha(saved) ==
    Cardinality({k \in DOMAIN saved : preg_covered_by_pusha(saved[k])}) >= 6

Pushed(st, rf, order) ==
    Reverse([k \in DOMAIN order |-> IF order[k] = "SP" THEN Unknown
                                    ELSE rf[order[k]]]) \o st

\* The order in which registers are pushed.
SaveOrder(saved) ==
    IF save_set_uses_pusha(saved)
    THEN Picked(saved, {k \in DOMAIN saved : ~preg_covered_by_pusha(saved[k])}) \o PushaOrder
    ELSE saved

emit_call_saves ==
    /\ pc = "saves"
    /\ stack' = Pushed(stack, regs, SaveOrder(call_saved(site)))
    /\ pc' = "area"
    /\ UNCHANGED <<regs, mem, moveVars, siteVars>>

-----------------------------------------------------------------------------
(* The stack area and the arguments. *)

\* Faulty variant: the arguments are pushed first to last.
PushArea_order ==
    /\ pc = "area"
    /\ LET extra == call_area_words(site) - direct_stack_arg_words(site)
           words == [k \in DOMAIN StackArgs(site) |->
                        rins_push_vreg_temp(regs, StackArgs(site)[k].src)]
       IN  stack' = Reverse(words) \o [k \in 1 .. extra |-> Unknown] \o stack
    /\ pc' = "args"
    /\ UNCHANGED <<regs, mem, moveVars, siteVars>>

PushArea ==
    /\ pc = "area"
    /\ LET extra == call_area_words(site) - direct_stack_arg_words(site)
           words == [k \in DOMAIN StackArgs(site) |->
                        rins_push_vreg_temp(regs, StackArgs(site)[k].src)]
       IN  stack' = words \o [k \in 1 .. extra |-> Unknown] \o stack
    /\ pc' = "args"
    /\ UNCHANGED <<regs, mem, moveVars, siteVars>>

MoveArgs ==
    /\ pc = "args"
    /\ StartMoves(RegArgs(site))
    /\ UNCHANGED <<regs, mem, stack, siteVars>>

-----------------------------------------------------------------------------
(* The call instruction. *)

(***************************************************************************)
(* The callee: registers it does not preserve are lost, its results are in *)
(* their places, and it sets the flags.  Byte h of word register r is one  *)
(* of the bytes that the result in place e fills.                          *)
(***************************************************************************)
PutPlace(rf, r, w) ==
    IF r \in ByteRegs THEN Put8(rf, r, w[1]) ELSE Put16(rf, r, w)
Fills(e, r, h) == e # STACK /\ PushReg(e) = r /\ (e \in ByteRegs => Half(e) = h)
Callee(rf) ==
    [r \in Wide |-> [h \in 1 .. 2 |->
        LET K == {k \in DOMAIN site.rets : Fills(site.rets[k].exp, r, h)} IN
        IF K # {}
        THEN LET k == CHOOSE k \in K : TRUE
             IN  Ret(k)[IF site.rets[k].exp \in ByteRegs THEN 1 ELSE h]
        ELSE IF r \in site.preserves \cup {"SS", "CS"} THEN rf[r][h] ELSE Junk]]
CalleeArea(st) ==
    [k \in DOMAIN st |->
        IF \E j \in StackRets(site) : AreaIndex(site, j) = k
        THEN Ret(CHOOSE j \in StackRets(site) : AreaIndex(site, j) = k)
        ELSE IF k <= call_area_words(site) THEN Unknown ELSE st[k]]

\* The register through which a far pointer on the stack is addressed.
icall_far_pointer_scratch(s) ==
    LET order == <<"BX", "SI", "DI", "BP">>
        ok == {k \in DOMAIN order :
                 \A a \in ToSet(RegArgs(s)) : ~pregs_alias(order[k], a.dst)}
    IN  IF ok = {} THEN "BX" ELSE order[Lowest(ok)]

CallTarget(rf, s) == [k \in DOMAIN s.tgt |-> Word(rf, s.tgt[k])]

(***************************************************************************)
(* IR_CALL, IR_NCALL and IR_ICALL in emit_function().  The target of an    *)
(* indirect call is read here, after the moves.  A far one goes through    *)
(* the call temp slot where flags are live, otherwise through the stack:   *)
(* then the scratch register is popped after the call, and ADD SP changes  *)
(* the flags.                                                              *)
(***************************************************************************)
EmitCall ==
    /\ pc = "placed" /\ site.op # "jump"
    /\ LET scratch == icall_far_pointer_scratch(site)
           pair == site.op = "icall"
           viaTemp == pair /\ needs_call_temp(site) /\ site.flags
           lost == viaTemp /\ regs["BP"] # FrameBP
       IN  /\ reached' = IF lost THEN [k \in DOMAIN site.tgt |-> Unknown]
                         ELSE CallTarget(regs, site)
           /\ stack' = CalleeArea(stack)
           /\ regs' = IF pair /\ ~viaTemp
                      THEN Put16(Callee(regs), scratch, regs[scratch])
                      ELSE Callee(regs)
           /\ flags' = IF pair /\ ~viaTemp THEN "junk" ELSE "callee"
           /\ mem' = IF viaTemp /\ regs["BP"] = FrameBP
                     THEN [mem EXCEPT !["temp"] = Word(regs, site.tgt[1])]
                     ELSE mem
    /\ pc' = "capture" /\ ri' = 1 /\ temp_ret' = {}
    /\ UNCHANGED <<site, moveVars>>

-----------------------------------------------------------------------------
(* Results. *)

\* mov [BP+off], value
Store(rf, m, home, w) ==
    IF rf["BP"] # FrameBP THEN m
    ELSE IF home \in SpilledBytes THEN [m EXCEPT ![home][1] = w[1]]
    ELSE [m EXCEPT ![home] = w]

ReadPlace(rf, r) == IF r \in ByteRegs THEN <<Byte(rf, r), Junk>> ELSE rf[r]

\* Faulty variant: the value is captured before the restores in any case.
call_saved_restores_reg_never(s, r) == FALSE

call_saved_restores_reg(s, r) ==
    \E k \in DOMAIN call_saved(s) : pregs_alias(call_saved(s)[k], r)

\* rins_load_call_slot(): a stack result, addressed through BX; one that
\* goes to the frame passes through AX.
rins_load_call_slot(act, w) ==
    LET rf == Put16(regs, "BX", Unknown) IN
    IF act \in Spilled
    THEN /\ regs' = IF act \in SpilledBytes THEN Put8(rf, "AL", w[1])
                                            ELSE Put16(rf, "AX", w)
         /\ mem' = Store(regs, mem, act, w)
    ELSE regs' = PutPlace(rf, act, w) /\ UNCHANGED mem

CaptureResult ==
    /\ pc = "capture" /\ ri <= Len(site.rets)
    /\ LET r == site.rets[ri]
           toTemp == /\ r.exp # STACK /\ r.act \in Preg
                     /\ call_saved_restores_reg(site,
                            ret_capture_restore_reg(r.act))
       IN  /\ CASE r.exp = STACK ->
                     rins_load_call_slot(r.act, stack[AreaIndex(site, ri)])
                [] r.exp # STACK /\ toTemp ->
                     /\ mem' = Store(regs, mem, "temp", ReadPlace(regs, r.exp))
                     /\ UNCHANGED regs
                [] r.exp # STACK /\ ~toTemp /\ r.act \in Spilled ->
                     /\ mem' = Store(regs, mem, r.act, ReadPlace(regs, r.exp))
                     /\ UNCHANGED regs
                [] OTHER ->
                     /\ regs' = PutPlace(regs, r.act, ReadPlace(regs, r.exp))
                     /\ UNCHANGED mem
           /\ temp_ret' = IF toTemp THEN temp_ret \cup {ri} ELSE temp_ret
    /\ ri' = ri + 1
    /\ UNCHANGED <<pc, stack, moveVars, site, flags, reached>>

EndCapture ==
    /\ pc = "capture" /\ ri = Len(site.rets) + 1
    /\ pc' = "cleanup"
    /\ UNCHANGED <<regs, mem, stack, moveVars, siteVars>>

\* The area is dropped.  Where flags are live they are kept in the call temp
\* slot meanwhile.
DropArea ==
    /\ pc = "cleanup"
    /\ LET words == call_area_words(site)
           keep == words > 0 /\ site.flags
           inFrame == regs["BP"] = FrameBP
       IN  /\ stack' = SubSeq(stack, words + 1, Len(stack))
           /\ mem' = IF keep /\ inFrame
                     THEN [mem EXCEPT !["temp"] = <<<<"flags", 1>>, <<"flags", 2>>>>]
                     ELSE mem
           /\ flags' = IF words = 0 \/ (keep /\ inFrame) THEN flags ELSE "junk"
    /\ pc' = "restore"
    /\ UNCHANGED <<regs, moveVars, site, ri, temp_ret, reached>>

\* The registers after popping, last to first, what order was pushed in.
Popped(rf, st, order) ==
    [r \in Wide |-> IF r \in ToSet(order)
                    THEN st[Len(order) + 1 - CHOOSE k \in DOMAIN order : order[k] = r]
                    ELSE rf[r]]
Drop(st, n) == SubSeq(st, n + 1, Len(st))

emit_call_restores ==
    /\ pc = "restore"
    /\ LET order == SaveOrder(call_saved(site))
       IN  /\ regs' = Popped(regs, stack, order)
           /\ stack' = Drop(stack, Len(order))
    /\ pc' = "reload" /\ ri' = 1
    /\ UNCHANGED <<mem, moveVars, site, temp_ret, flags, reached>>

\* rins_load_call_temp_return(), through AX, which is pushed and popped.
ReloadResult ==
    /\ pc = "reload" /\ ri <= Len(site.rets)
    /\ regs' = IF ri \in temp_ret
               THEN PutPlace(regs, site.rets[ri].act,
                             IF regs["BP"] = FrameBP THEN mem["temp"] ELSE Unknown)
               ELSE regs
    /\ ri' = ri + 1
    /\ UNCHANGED <<pc, mem, stack, moveVars, site, temp_ret, flags, reached>>

EndCall ==
    /\ pc = "reload" /\ ri = Len(site.rets) + 1
    /\ pc' = "end"
    /\ UNCHANGED <<regs, mem, stack, moveVars, siteVars>>

-----------------------------------------------------------------------------
InitMachine(bp) ==
    /\ regs = [[r \in Wide |-> <<Orig(r, 1), Orig(r, 2)>>] EXCEPT !["BP"] = bp]
    /\ mem = [h \in Spilled \cup {"temp"} |-> <<Orig(h, 1), Orig(h, 2)>>]
    /\ stack = << >> /\ base = [regs |-> regs, mem |-> mem, stack |-> stack]
    /\ call = << >> /\ moves = << >> /\ mi = 0
    /\ ri = 0 /\ temp_ret = {} /\ flags = "caller" /\ reached = << >>

CallInit == InitMachine(FrameBP) /\ pc = "saves" /\ \E F \in Sites : site \in F

SiteMoves == MoveStep /\ UNCHANGED siteVars

CallNext ==
    \/ emit_call_saves \/ PushArea \/ MoveArgs \/ SiteMoves \/ EmitCall
    \/ CaptureResult \/ EndCapture \/ DropArea \/ emit_call_restores
    \/ ReloadResult \/ EndCall

-----------------------------------------------------------------------------
(* Properties. *)

\* What location h holds, byte by byte as far as its value goes.
Holds(h, w) ==
    LET now == IF h \in Spilled THEN mem[h] ELSE IF h \in Wide THEN regs[h]
               ELSE <<Byte(regs, h), Junk>>
    IN  now[1] = w[1] /\ (IsByte(h) \/ now[2] = w[2])
ValueBefore(h) ==
    IF h \in ByteRegs THEN <<Orig(PushReg(h), Half(h)), Junk>>
    ELSE <<Orig(h, 1), Orig(h, 2)>>

\* Where the frame cannot be reached between the call and the restores: BP
\* was an argument register, or the callee does not preserve it.
BPLost(s) == outgoing_bp_param(s) \/ "BP" \notin s.preserves

(***************************************************************************)
(* Calls whose saved state the code loses: a stack result for the frame    *)
(* passes through AX, which is not saved if the callee preserves it; the   *)
(* frame pointer is not saved for an indirect call with a parameter in BP. *)
(***************************************************************************)
ScratchOverLive(s) ==
    /\ \E k \in StackRets(s) : s.rets[k].act \in Spilled
    /\ \E v \in ToSet(s.live) : PushReg(v) = "AX" /\ ~Clobbered(s, v)

FramePointerArg(s) == s.op # "call" /\ s.frame /\ outgoing_bp_param(s)

(***************************************************************************)
(* "Includes caller-save push/pop and BP save" (BINDER.md, move            *)
(* insertion): after the call every value live across it is where it was,  *)
(* spill slots of other values are untouched, the stack is balanced and BP *)
(* is the frame pointer again, whatever the callee clobbers, the argument  *)
(* moves overwrite and the capture of the results uses as scratch.         *)
(***************************************************************************)
LiveSurvive ==
    (pc = "end" /\ ~ScratchOverLive(site) /\ ~FramePointerArg(site)) =>
        /\ \A k \in DOMAIN site.live :
              Holds(site.live[k], ValueBefore(site.live[k]))
        /\ \A h \in Spilled \ ActsOf(site) : mem[h] = ValueBefore(h)
        /\ stack = << >>
        /\ site.frame => regs["BP"] = FrameBP

\* What the calls of a function are given, the flags they leave included,
\* arrives: a flag test after a call sees the callee's flags unless the
\* frame is unreachable while they are kept there.
FlagsArrive ==
    (pc = "end" /\ site.flags) =>
        flags = "callee" \/ (call_area_words(site) > 0 /\ BPLost(site))

\* A call changes nothing its caller still needs: live values, the frame, the
\* stack and the flags it leaves are what the code after it reads.
CallTransparent == LiveSurvive /\ FlagsArrive

(***************************************************************************)
(* The calls whose results the code does not keep: POPA restores a         *)
(* register that was not to be saved; the one temp slot is wanted twice;   *)
(* the frame is unreachable; a stack result goes to one half of a register *)
(* that is popped for the other half; a result's register is written by    *)
(* the capture of another, or by the pop of a far call's scratch register. *)
(***************************************************************************)
ViaTemp(s, k) ==
    /\ s.rets[k].exp # STACK /\ s.rets[k].act \in Preg
    /\ call_saved_restores_reg(s, ret_capture_restore_reg(s.rets[k].act))
LostToPopa(s, k) ==
    /\ save_set_uses_pusha(call_saved(s)) /\ ~ViaTemp(s, k)
    /\ s.rets[k].act \in Preg /\ preg_covered_by_pusha(PushReg(s.rets[k].act))
TempTaken(s, k) ==
    /\ ViaTemp(s, k)
    /\ \/ call_area_words(s) > 0 /\ s.flags
       \/ \E j \in DOMAIN s.rets \ {k} : ViaTemp(s, j)
Unreachable(s, k) ==
    BPLost(s) /\ (ViaTemp(s, k) \/ s.rets[k].act \in Spilled)
\* The registers that capturing result j writes.
CaptureWrites(s, j) ==
    LET r == s.rets[j] IN
    (IF r.act \in Preg /\ ~ViaTemp(s, j) THEN {r.act} ELSE {}) \cup
    (IF r.exp = STACK
     THEN {"BX"} \cup (IF r.act \in Spilled THEN {"AX"} ELSE {}) ELSE {})
HalfPopped(s, k) ==
    /\ s.rets[k].exp = STACK /\ s.rets[k].act \in Preg
    /\ call_saved_restores_reg(s, ret_capture_restore_reg(s.rets[k].act))
Overwritten(s, k) ==
    \/ \E j \in DOMAIN s.rets : j < k /\ s.rets[k].exp # STACK /\
          \E w \in CaptureWrites(s, j) : pregs_alias(w, s.rets[k].exp)
    \/ \E j \in DOMAIN s.rets : j > k /\ ~ViaTemp(s, k) /\
          \E w \in CaptureWrites(s, j) : pregs_alias(w, s.rets[k].act)
ScratchPopped(s, k) ==
    /\ s.op = "icall" /\ ~s.flags
    /\ pregs_alias(icall_far_pointer_scratch(s), s.rets[k].exp)
ResultLost(s, k) ==
    \/ LostToPopa(s, k) \/ TempTaken(s, k) \/ Unreachable(s, k)
    \/ HalfPopped(s, k) \/ Overwritten(s, k) \/ ScratchPopped(s, k)

\* Apart from those calls, every result of every call reaches its vreg: in
\* particular one whose register is pushed for another value, by way of the
\* call temp slot.
ResultsKept ==
    pc = "end" => \A k \in DOMAIN site.rets :
        Holds(site.rets[k].act, Ret(k)) \/ ResultLost(site, k)

\* A result is stored to the call temp slot, and flags kept there, only in
\* functions whose frame the driver has given one, as decided before or
\* after allocation by scans that repeat the conditions of this code.
TempSlotReserved ==
    /\ temp_ret # {} => needs_call_temp(site)
    /\ mem["temp"] # ValueBefore("temp") => needs_call_temp(site) /\ site.frame

\* "Capture return registers before restoring caller-saves unless the chosen
\* destination aliases one of the registers being restored.  In that case, save
\* the ABI return value to the call temp slot" (bind.c): results reach their
\* vregs, by way of a slot the frame really has.
ResultsReachVregs == ResultsKept /\ TempSlotReserved

\* At the call instruction the stack arguments lie in the area, first to
\* last upwards, for the offsets the callee's parameters were given.
StackArgsInPlace ==
    (pc = "placed" /\ site.op # "jump") =>
        \A k \in DOMAIN StackArgs(site) :
            LET src == StackArgs(site)[k].src IN
            /\ stack[k][1] = ValueBefore(src)[1]
            /\ ~IsByte(src) => stack[k][2] = ValueBefore(src)[2]

\* An indirect call goes where its operand said before the argument moves,
\* unless those overwrite the operand's registers (it is no source of the
\* planned moves) or BP while it is addressed through the frame.
TargetOverwritten(s) ==
    \/ \E t \in ToSet(s.tgt), r \in collect_call_arg_setup_clobbers(s) :
          pregs_alias(t, r)
    \/ outgoing_bp_param(s)
TargetReached ==
    (pc = "capture" /\ ~TargetOverwritten(site)) =>
        \A k \in DOMAIN site.tgt : reached[k] = ValueBefore(site.tgt[k])

\* The callee that was meant is entered, with its stack arguments in place.
CalleeEntered == StackArgsInPlace /\ TargetReached
=============================================================================
