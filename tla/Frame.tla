------------------------------- MODULE Frame -------------------------------
(***************************************************************************)
(* A function's entry and exits in the binder (bind.c, emit_function,      *)
(* emit_param_entry_moves, emit_epilogue and the RETVAL, TAILCALL and      *)
(* NTAILCALL parts of insert_fixup_moves): prologue, moves of the          *)
(* parameters to where the allocator put them, a body, then the results or *)
(* the arguments of a tail call, and the removal of the frame.  The model  *)
(* follows the values of the parameters through the function.              *)
(***************************************************************************)
EXTENDS CallSite

CONSTANTS
    Fns,          \* the functions the binder may be given, in families
    StackSlot     \* the words above the return address, lowest first

(***************************************************************************)
(* A function: frame, isr; used, the general registers an interrupt        *)
(* handler clobbers; saves, the registers it preserves and clobbers; ds,   *)
(* whether its DS policy loads DS; params, with the place its ABI gives    *)
(* them and their location in the body; exit "ret", "tail" or "ntail";     *)
(* out, which parameter leaves in which place; tgt, the parameter a near   *)
(* tail call jumps to, 0 for none.                                         *)
(***************************************************************************)
Locs(f) == {f.params[p].act : p \in DOMAIN f.params}
Outs(f) == {f.out[k].dst : k \in DOMAIN f.out}
UsesStack(f) == STACK \in Outs(f)

ASSUME FnsAssumption ==
    /\ StackSlot \in Seq(SpilledWords) /\ IsInjective(StackSlot)
    /\ \A F \in Fns : \A f \in F :
        /\ f.frame \in BOOLEAN /\ f.isr \in BOOLEAN /\ f.ds \in BOOLEAN
        /\ f.saves \in Seq(Wide) /\ f.exit \in {"ret", "tail", "ntail"}
        /\ f.params \in Seq([exp : Reg \cup {STACK}, act : Reg \cup Spilled])
        /\ f.out \in Seq([p : DOMAIN f.params, dst : Reg \cup {STACK}])
        /\ Passes([k \in DOMAIN f.out |-> [src |-> f.params[f.out[k].p].act,
                                           dst |-> f.out[k].dst]])
        /\ \A k \in DOMAIN f.out : f.out[k].dst # STACK =>
              (f.out[k].dst \in ByteRegs) = IsByte(f.params[f.out[k].p].act)
        /\ \A j, k \in DOMAIN f.out :
              j # k => f.out[j].dst = STACK \/ f.out[j].dst # f.out[k].dst
        /\ \A p, q \in DOMAIN f.params : p # q =>
              /\ f.params[p].act # f.params[q].act
              /\ ~pregs_alias(f.params[p].act, f.params[q].act)
              /\ ~pregs_alias(f.params[p].exp, f.params[q].exp)
        /\ \A p \in DOMAIN f.params :
              IF f.params[p].exp = STACK THEN f.params[p].act \in ToSet(StackSlot)
              ELSE (f.params[p].exp \in ByteRegs) = IsByte(f.params[p].act)
        /\ Apart(Outs(f) \ {STACK})
        /\ Cardinality({k \in DOMAIN f.out : f.out[k].dst = STACK}) <= Len(StackSlot)
        /\ f.frame => "BP" \notin Locs(f)
        /\ (Locs(f) \cap Spilled # {} \/ STACK \in Outs(f)) => f.frame
        /\ f.exit = "ntail" <=> f.tgt # 0
        /\ f.tgt # 0 => /\ f.tgt \in DOMAIN f.params /\ STACK \notin Outs(f)
                        /\ ~IsByte(f.params[f.tgt].act)
        /\ f.isr => f.params = << >> /\ f.out = << >>

VARIABLES
    fn,       \* the function at hand
    fp        \* height of the stack at the saved BP

frameVars == <<fn, fp>>
fvars == <<vars, frameVars>>

NoSite == [op |-> "jump"]
CallerBP == <<Orig("caller_bp", 1), Orig("caller_bp", 2)>>
PolicyDS == <<Orig("policy_ds", 1), Orig("policy_ds", 2)>>

\* What a register holds on entry.
EntryWord(r) ==
    IF r = "BP" /\ fn.frame THEN CallerBP ELSE <<Orig(r, 1), Orig(r, 2)>>
EntryValue(p) ==
    LET e == fn.params[p].exp IN
    IF e = STACK THEN <<Orig(fn.params[p].act, 1), Orig(fn.params[p].act, 2)>>
    ELSE IF e \in ByteRegs THEN <<EntryWord(PushReg(e))[Half(e)], Junk>>
    ELSE EntryWord(e)

-----------------------------------------------------------------------------
(* Prologue. *)

isr_save(f) ==
    LET general == <<"AX", "CX", "DX", "BX", "BP", "SI", "DI">>
    IN  Picked(general, {k \in DOMAIN general :
                            f.isr /\ (general[k] \in f.used \/ (f.frame /\ general[k] = "BP"))})
ds_explicit_save(f) == f.ds /\ "DS" \notin ToSet(f.saves)

\* Faulty variant: DS is loaded before it is pushed.
Prologue_ds ==
    /\ pc = "prologue"
    /\ LET isr == Pushed(stack, regs, SaveOrder(isr_save(fn)))
           framed == IF fn.frame THEN <<regs["BP"]>> \o isr ELSE isr
           inner == IF fn.frame THEN [regs EXCEPT !["BP"] = FrameBP] ELSE regs
           seg == IF fn.ds THEN [inner EXCEPT !["DS"] = PolicyDS] ELSE inner
           saved == Pushed(framed, inner, fn.saves)
       IN  /\ stack' = IF ds_explicit_save(fn) THEN <<seg["DS"]>> \o saved ELSE saved
           /\ regs' = seg
           /\ fp' = Len(framed)
    /\ pc' = "params" /\ ri' = 1
    /\ UNCHANGED <<mem, moveVars, site, temp_ret, flags, reached, fn>>

Prologue ==
    /\ pc = "prologue"
    /\ LET isr == Pushed(stack, regs, SaveOrder(isr_save(fn)))
           framed == IF fn.frame THEN <<regs["BP"]>> \o isr ELSE isr
           inner == IF fn.frame THEN [regs EXCEPT !["BP"] = FrameBP] ELSE regs
           saved == Pushed(framed, inner, fn.saves)
       IN  /\ stack' = IF ds_explicit_save(fn) THEN <<inner["DS"]>> \o saved ELSE saved
           /\ regs' = IF fn.ds THEN [inner EXCEPT !["DS"] = PolicyDS] ELSE inner
           /\ fp' = Len(framed)
    /\ pc' = "params" /\ ri' = 1
    /\ UNCHANGED <<mem, moveVars, site, temp_ret, flags, reached, fn>>

(***************************************************************************)
(* emit_param_entry_moves(), one parameter after the other.  With a frame, *)
(* a parameter passed in BP is the word saved at [BP].  Bytes are only     *)
(* moved to the frame.                                                     *)
(***************************************************************************)
InFrameBP(e) == e = "BP" /\ fn.frame
AtBP == stack[Len(stack) + 1 - fp]

\* Words are moved between word registers, and from any to a segment register.
EntryCopies(e, a) ==
    /\ ~pregs_alias(a, e)
    /\ a \in SegRegs \/ (a \in WordRegs /\ e \in WordRegs)

\* Faulty variant: the frame pointer is taken for the parameter.
EntryMove_bp ==
    /\ pc = "params" /\ ri <= Len(fn.params)
    /\ LET e == fn.params[ri].exp
           a == fn.params[ri].act
       IN  /\ mem' = IF a \in Spilled /\ e # STACK
                     THEN Store(regs, mem, a, ReadPlace(regs, e)) ELSE mem
           /\ regs' = IF EntryCopies(e, a) THEN Put16(regs, a, regs[e]) ELSE regs
    /\ ri' = ri + 1
    /\ UNCHANGED <<pc, stack, moveVars, site, temp_ret, flags, reached, frameVars>>

EntryMove ==
    /\ pc = "params" /\ ri <= Len(fn.params)
    /\ LET e == fn.params[ri].exp
           a == fn.params[ri].act
           w == IF InFrameBP(e) THEN AtBP ELSE ReadPlace(regs, e)
       IN  /\ mem' = IF a \in Spilled /\ e # STACK THEN Store(regs, mem, a, w)
                     ELSE mem
           /\ regs' = IF EntryCopies(e, a) THEN Put16(regs, a, w) ELSE regs
    /\ ri' = ri + 1
    /\ UNCHANGED <<pc, stack, moveVars, site, temp_ret, flags, reached, frameVars>>

EndParams ==
    /\ pc = "params" /\ ri = Len(fn.params) + 1
    /\ pc' = "body"
    /\ UNCHANGED <<regs, mem, stack, moveVars, siteVars, frameVars>>

(***************************************************************************)
(* The body keeps the parameters and may change every other register: an   *)
(* interrupt handler the ones in used, another function any.               *)
(***************************************************************************)
Body ==
    /\ pc = "body"
    /\ LET kept == {PushReg(a) : a \in Locs(fn) \ Spilled} \cup {"DS", "CS", "SS"}
                   \cup (IF fn.frame THEN {"BP"} ELSE {})
           changed == IF fn.isr THEN fn.used \ kept ELSE Wide \ kept
       IN  regs' = [r \in Wide |-> IF r \in changed THEN Unknown ELSE regs[r]]
    /\ pc' = fn.exit
    /\ UNCHANGED <<mem, stack, moveVars, siteVars, frameVars>>

-----------------------------------------------------------------------------
(* Results. *)

SrcLoc(k) == fn.params[fn.out[k].p].act
SlotOf(k) == StackSlot[Cardinality({j \in 1 .. k : fn.out[j].dst = STACK})]

(***************************************************************************)
(* Values that leave on the stack: all sources are pushed, then popped     *)
(* from the last to the first; bytes are popped through AX.  A direct tail *)
(* call forwards its stack arguments to the slots of this function's own,  *)
(* except those that are there already.                                    *)
(***************************************************************************)
Leaving ==
    LET all == [k \in DOMAIN fn.out |-> k] IN
    IF fn.exit = "ret" THEN all
    ELSE Picked(all, {k \in DOMAIN fn.out : fn.out[k].dst = STACK /\ SrcLoc(k) # SlotOf(k)})

PushOut ==
    /\ stack' = Reverse([n \in DOMAIN Leaving |->
                            rins_push_vreg_temp(regs, SrcLoc(Leaving[n]))]) \o stack
    /\ pc' = "outs" /\ mi' = Len(Leaving)
    /\ UNCHANGED <<regs, mem, call, moves, base, siteVars, frameVars>>

StackReturn == pc = "ret" /\ UsesStack(fn) /\ PushOut
TailArgs    == pc = "tail" /\ PushOut

PopOut ==
    /\ pc = "outs" /\ mi > 0
    /\ LET k == Leaving[mi]
           dst == fn.out[k].dst
           byte == IsByte(SrcLoc(k))
           w == Head(stack)
           popped == IF dst \in ByteRegs \/ (dst = STACK /\ byte)
                     THEN Put16(regs, "AX", w) ELSE regs
       IN  /\ regs' = IF dst = STACK THEN popped ELSE PutPlace(popped, dst, w)
           /\ mem' = IF dst = STACK
                     THEN Store(regs, mem, SlotOf(k), IF byte THEN <<w[1], Junk>> ELSE w)
                     ELSE mem
    /\ stack' = Tail(stack) /\ mi' = mi - 1
    /\ UNCHANGED <<pc, call, moves, base, siteVars, frameVars>>

EndOut ==
    /\ pc = "outs" /\ mi = 0
    /\ pc' = "epilogue"
    /\ UNCHANGED <<regs, mem, stack, moveVars, siteVars, frameVars>>

\* Results in registers: one move after the other, first those that
\* overwrite no source still needed.
PlanReturn ==
    /\ pc = "ret" /\ ~UsesStack(fn)
    /\ LET ks == Picked([k \in DOMAIN fn.out |-> k],
                        {k \in DOMAIN fn.out : SrcLoc(k) # fn.out[k].dst})
       IN  moves' = [n \in DOMAIN ks |-> [dst_reg |-> fn.out[ks[n]].dst,
                                          src |-> SrcLoc(ks[n]), done |-> FALSE]]
    /\ pc' = "retmoves"
    /\ UNCHANGED <<regs, mem, stack, call, mi, base, siteVars, frameVars>>

\* Faulty variant: the moves are made in the order of the results.
RetPick_order == Lowest(Pending)

\* "Cycles are rare; preserve progress."
RetPick ==
    LET free == {k \in Pending : \A l \in Pending \ {k} :
                    ~pregs_alias(moves[k].dst_reg, moves[l].src)}
    IN  Lowest(IF free = {} THEN Pending ELSE free)

ReturnMove ==
    /\ pc = "retmoves" /\ Pending # {}
    /\ regs' = rins_mov_preg_from_vreg(regs, moves[RetPick].dst_reg,
                                       moves[RetPick].src)
    /\ moves' = [moves EXCEPT ![RetPick].done = TRUE]
    /\ UNCHANGED <<pc, mem, stack, call, mi, base, siteVars, frameVars>>

EndReturn ==
    /\ pc = "retmoves" /\ Pending = {}
    /\ pc' = "epilogue"
    /\ UNCHANGED <<regs, mem, stack, moveVars, siteVars, frameVars>>

-----------------------------------------------------------------------------
(* Tail calls. *)

collect_register_arg_parents(f) == {PushReg(d) : d \in Outs(f) \ {STACK}}

TargetLoc == fn.params[fn.tgt].act

ntailcall_target_reg_is_safe(f, r) ==
    /\ r \in WordRegs /\ ~(f.frame /\ r = "BP")
    /\ \A k \in DOMAIN f.saves : ~pregs_alias(f.saves[k], r)
    /\ r \notin collect_register_arg_parents(f)

choose_ntailcall_target_reg(f) ==
    LET temps == <<"DI", "SI", "BX", "DX", "CX", "AX">>
        ok == {k \in DOMAIN temps :
                 /\ temps[k] \notin collect_register_arg_parents(f)
                 /\ \A j \in DOMAIN f.saves : ~pregs_alias(f.saves[j], temps[k])}
    IN  IF ok = {} THEN "AX" ELSE temps[Lowest(ok)]

\* A near indirect tail call: the target is pushed unless its register
\* survives the argument moves and the epilogue.
StartTail ==
    /\ pc = "ntail"
    /\ stack' = IF ntailcall_target_reg_is_safe(fn, TargetLoc) THEN stack
                ELSE <<rins_push_vreg_temp(regs, TargetLoc)>> \o stack
    /\ pc' = "ntailargs"
    /\ UNCHANGED <<regs, mem, moveVars, siteVars, frameVars>>

TailMoves ==
    /\ pc = "ntailargs"
    /\ StartMoves([k \in DOMAIN fn.out |->
                     [src |-> SrcLoc(k), dst |-> fn.out[k].dst]])
    /\ UNCHANGED <<regs, mem, stack, siteVars, frameVars>>

PopTarget ==
    /\ pc = "placed" /\ site = NoSite
    /\ IF ntailcall_target_reg_is_safe(fn, TargetLoc)
       THEN UNCHANGED <<regs, stack>>
       ELSE /\ regs' = Put16(regs, choose_ntailcall_target_reg(fn), Head(stack))
            /\ stack' = Tail(stack)
    /\ pc' = "epilogue"
    /\ UNCHANGED <<mem, moveVars, siteVars, frameVars>>

-----------------------------------------------------------------------------
(* emit_epilogue() and the same steps before the jump of a tail call.      *)

emit_epilogue ==
    /\ pc = "epilogue"
    /\ LET rf0 == IF ds_explicit_save(fn) THEN Put16(regs, "DS", Head(stack)) ELSE regs
           st0 == IF ds_explicit_save(fn) THEN Tail(stack) ELSE stack
           rf1 == Popped(rf0, st0, fn.saves)
           st1 == Drop(st0, Len(fn.saves))
           st2 == IF ~fn.frame THEN st1
                  ELSE IF rf1["BP"] = FrameBP
                  THEN SubSeq(st1, Len(st1) + 1 - fp, Len(st1)) ELSE <<Unknown>>
           rf2 == IF fn.frame THEN Put16(rf1, "BP", Head(st2)) ELSE rf1
           st3 == IF fn.frame THEN Tail(st2) ELSE st2
           isr == SaveOrder(isr_save(fn))
           final == Popped(rf2, st3, isr)
           jumpReg == IF ntailcall_target_reg_is_safe(fn, TargetLoc)
                      THEN TargetLoc ELSE choose_ntailcall_target_reg(fn)
       IN  /\ regs' = final
           /\ stack' = Drop(st3, Len(isr))
           /\ reached' = IF fn.tgt = 0 THEN << >> ELSE <<final[jumpReg]>>
    /\ pc' = "exit"
    /\ UNCHANGED <<mem, moveVars, site, ri, temp_ret, flags, frameVars>>

-----------------------------------------------------------------------------
(* The two halves of a function the binder emits: any call in its body, or *)
(* its entry and exit.                                                     *)

FrameInit ==
    /\ \E F \in Fns : fn \in F
    /\ fp = 0
    /\ InitMachine(EntryWord("BP")) /\ pc = "prologue" /\ site = NoSite

FrameStep ==
    \/ Prologue \/ EntryMove \/ EndParams \/ Body \/ StackReturn \/ TailArgs
    \/ PopOut \/ EndOut \/ PlanReturn \/ ReturnMove \/ EndReturn \/ StartTail \/ TailMoves \/ PopTarget
    \/ emit_epilogue

SiteStep == CallNext /\ UNCHANGED frameVars

NoFn == [frame |-> FALSE, saves |-> << >>]
Init == (CallInit /\ fn = NoFn /\ fp = 0) \/ FrameInit
Next == SiteStep \/ FrameStep
Spec == Init /\ [][Next]_fvars

-----------------------------------------------------------------------------
(* Properties. *)

Pair(w) == DOMAIN w = 1 .. 2
\* The moves, results and parameters are counted within their lists, and
\* every register, slot and stack entry holds a word.
TypeOK ==
    /\ pc \in {"saves", "area", "args", "moves", "pops", "placed", "capture",
              "cleanup", "restore", "reload", "end", "prologue", "params", "body",
              "ret", "outs", "retmoves", "tail", "ntail", "ntailargs", "epilogue", "exit"}
    /\ mi \in 0 .. Len(IF pc = "outs" THEN fn.out ELSE moves)
    /\ ri \in 0 .. 1 + Len(IF site = NoSite THEN fn.params ELSE site.rets)
    /\ DOMAIN regs = Wide /\ \A r \in Wide : Pair(regs[r])
    /\ DOMAIN mem = Spilled \cup {"temp"} /\ \A h \in DOMAIN mem : Pair(mem[h])
    /\ \A k \in DOMAIN stack : Pair(stack[k])
    /\ \A k \in DOMAIN reached : Pair(reached[k])
    /\ temp_ret # {} => temp_ret \subseteq DOMAIN site.rets
    /\ flags \in {"caller", "callee", "junk"} /\ fp \in Nat

\* Parameters that do not reach their location: bytes are not moved between
\* registers, nor words from a segment register to a word register; the prologue
\* loads DS first; and an earlier parameter may be moved over a later one.
ParamLost(p) ==
    LET e == fn.params[p].exp
        a == fn.params[p].act
    IN  \/ a \in ByteRegs /\ a # e
        \/ a \in WordRegs /\ e \in SegRegs
        \/ e = "DS" /\ fn.ds
        \/ \E q \in 1 .. p - 1 :
              /\ EntryCopies(fn.params[q].exp, fn.params[q].act)
              /\ pregs_alias(fn.params[q].act, e)

\* Apart from those, the body finds every parameter where the allocator put
\* it, one passed in BP of a function with frame included
\* (emit_param_entry_moves).
ParamsPlaced ==
    pc = "body" => \A p \in DOMAIN fn.params :
        Holds(fn.params[p].act, EntryValue(p)) \/ ParamLost(p)

\* With a frame, an argument moved to BP takes away the frame pointer.
FramePointerMoved == fn.frame /\ "BP" \in Outs(fn)

(***************************************************************************)
(* "Callee-save POP in reverse order", "PUSHA for interrupts" (BINDER.md): *)
(* whatever way a function is left, the registers it preserves, BP, the    *)
(* caller's DS and the stack are as they were on entry; an interrupt       *)
(* handler restores every general register.                                *)
(***************************************************************************)
ContractKept ==
    (pc = "exit" /\ ~FramePointerMoved) =>
        /\ \A k \in DOMAIN fn.saves : regs[fn.saves[k]] = EntryWord(fn.saves[k])
        /\ fn.frame => regs["BP"] = EntryWord("BP")
        /\ fn.ds => regs["DS"] = EntryWord("DS")
        /\ fn.isr => \A r \in WordRegs \ {"SP"} : regs[r] = EntryWord(r)
        /\ stack = << >>

(***************************************************************************)
(* Values that do not leave the function where they should: results that   *)
(* must be exchanged among registers ("Cycles are rare; preserve           *)
(* progress."); values in AX where a later pop of a byte goes through AX;  *)
(* register arguments of direct tail calls, which are not moved; values in *)
(* registers the epilogue pops, DS among them where its policy has it      *)
(* saved; both halves of AX in an exchange.                                *)
(***************************************************************************)
Exchanged(k) ==
    \E K \in SUBSET DOMAIN fn.out :
        /\ k \in K
        /\ \A j \in K : \E l \in K \ {j} : pregs_alias(fn.out[j].dst, SrcLoc(l))
InAX(r) == r \in {"AX"} \cup Halves("AX")
OverAX(k) ==
    /\ InAX(fn.out[k].dst)
    /\ \E j \in DOMAIN fn.out \ {k} : IsByte(SrcLoc(j)) /\
          \/ fn.exit = "ret" /\ UsesStack(fn) /\ j < k
          \/ fn.exit = "tail" /\ fn.out[j].dst = STACK
\* Every register is an argument or popped by the epilogue.
NoStableRegister(f) ==
    \A r \in {"DI", "SI", "BX", "DX", "CX", "AX"} :
        r \in collect_register_arg_parents(f) \cup ToSet(f.saves)
OutLost(k) ==
    LET dst == fn.out[k].dst IN
    \/ ParamLost(fn.out[k].p)
    \/ FramePointerMoved
    \/ dst # STACK /\ PushReg(dst) \in ToSet(fn.saves)
    \/ dst = "DS" /\ ds_explicit_save(fn)
    \/ fn.exit = "ret" /\ ~UsesStack(fn) /\ Exchanged(k)
    \/ fn.exit = "tail" /\ dst # STACK /\ dst # SrcLoc(k)
    \/ fn.exit = "ntail" /\ (Halves("AX") \subseteq Outs(fn) \/ NoStableRegister(fn))
    \/ OverAX(k)

\* Apart from those, each result, and each argument of a tail call, is in
\* the place the caller or the next function expects when control leaves.
ValuesLeave ==
    pc = "exit" => \A k \in DOMAIN fn.out :
        \/ Holds(IF fn.out[k].dst = STACK THEN SlotOf(k) ELSE fn.out[k].dst,
                 EntryValue(fn.out[k].p))
        \/ OutLost(k)

\* "This tears down the current frame and emits a near indirect jump through
\* the selected u16 target after setting up the descriptor's ABI" (SPEC.md):
\* the jump goes to the target the function was given, unless every register
\* is an argument or popped by the epilogue.
JumpReaches ==
    (pc = "exit" /\ fn.tgt # 0) =>
        \/ reached[1] = EntryValue(fn.tgt)
        \/ ParamLost(fn.tgt) \/ FramePointerMoved \/ NoStableRegister(fn)

\* Leaving a function, by return or by tail call, control goes where it should
\* and the values go with it.
ExitsRight == ValuesLeave /\ JumpReaches
=============================================================================
