----------------------------- MODULE CallProofs -----------------------------
(***************************************************************************)
(* Proofs about the calls (CallSite) and exits of the functions the binder *)
(* emits (Frame): a call enters the callee that was meant, leaves alone    *)
(* what its caller still needs, and its results reach their vregs; what    *)
(* leaves a function arrives where its caller or the next one expects it.  *)
(***************************************************************************)
EXTENDS FrameProofs

-----------------------------------------------------------------------------
(* Calls. *)

\* The registers and the frame when a call begins.
CallRegs == [r \in Wide |-> <<Orig(r, 1), Orig(r, 2)>>]
CallMem  == [h \in Spilled \cup {"temp"} |-> <<Orig(h, 1), Orig(h, 2)>>]

\* The layer of saved registers on the stack, and the area above it.
CallOrder    == SaveOrder(call_saved(site))
SavedLayer   == Pushed(<< >>, CallRegs, CallOrder)
OnSaved(st)  == call_area_words(site) \in Nat /\ StackOn(st, SavedLayer, call_area_words(site))

\* The area holds the stack arguments.
ArgsPushed(st) ==
    \A k \in DOMAIN StackArgs(site) :
        LET src == StackArgs(site)[k].src IN
        /\ st[k][1] = ValueBefore(src)[1]
        /\ ~IsByte(src) => st[k][2] = ValueBefore(src)[2]

MovesOf == pc \in {"moves", "pops", "placed"} /\ site # NoSite
Returns == pc \in {"capture", "cleanup", "restore", "reload", "end"}
InFunction == Within \/ pc \in {"prologue", "exit"}
SiteAt ==
    /\ pc \in {"saves", "area", "args"} \/ MovesOf \/ Returns => \E F \in Sites : site \in F
    /\ InFunction => site = NoSite

CallStack ==
    /\ pc = "saves" => stack = << >>
    /\ pc \in {"area", "restore"} => stack = SavedLayer
    /\ pc \in {"args", "capture", "cleanup"} => OnSaved(stack)
    /\ MovesOf => OnSaved(base.stack)
    /\ pc \in {"reload", "end"} => stack = << >>

\* Nothing has changed until the moves start, and they are planned for the arguments.
CallStart ==
    /\ pc \in {"saves", "area", "args"} => regs = CallRegs /\ mem = CallMem
    /\ pc = "args" => ArgsPushed(stack)
    /\ MovesOf => /\ base.regs = CallRegs /\ base.mem = CallMem /\ call = RegArgs(site)
                  /\ \A i \in DOMAIN moves : ~pregs_alias(moves[i].src, moves[i].dst_reg)
                  /\ ArgsPushed(base.stack)

\* What was pushed for a call depends on the call alone.
LEMMA SiteKept ==
    ASSUME site' = site
    PROVE  CallOrder' = CallOrder /\ SavedLayer' = SavedLayer
  BY DEF CallOrder, SavedLayer, CallRegs

\* A call starts with pairs of bytes in its registers and its frame.
LEMMA CallPairs ==
    /\ RegFile(CallRegs) /\ \A r \in Wide : CallRegs[r] = <<Orig(r, 1), Orig(r, 2)>>
    /\ CallRegs["BP"] = FrameBP
    /\ DOMAIN CallMem = Spilled \cup {"temp"}
    /\ \A h \in Spilled \cup {"temp"} : /\ CallMem[h] = <<Orig(h, 1), Orig(h, 2)>>
                                        /\ DOMAIN CallMem[h] = 1 .. 2
<1>1. \A h : DOMAIN <<Orig(h, 1), Orig(h, 2)>> = 1 .. 2
  OBVIOUS
<1>2. QED
  BY <1>1, Kinds DEF CallRegs, CallMem, RegFile, FrameBP

\* The saved registers lie on the caller's stack.
LEMMA CallLayer ==
    ASSUME \E F \in Sites : site \in F
    PROVE  /\ CallOrder \in Seq(Wide \cup {"SP"})
           /\ Lies(SavedLayer, << >>, CallOrder, CallRegs)
<1>1. CallOrder \in Seq(Wide \cup {"SP"})
  BY CallSavedOver, SaveOrderOver DEF CallOrder
<1>2. RegFile(CallRegs) /\ Sequence(<< >>)
  <2>1. << >> \in Seq({})
    OBVIOUS
  <2>2. QED
    BY <2>1, CallPairs DEF Sequence
<1>3. PICK n : n = Len(CallOrder)
  OBVIOUS
<1>4. /\ StackOn(SavedLayer, << >>, n)
      /\ \A k \in 1 .. n : CallOrder[k] # "SP" => SavedLayer[n + 1 - k] = CallRegs[CallOrder[k]]
  BY ONLY <1>1, <1>2, <1>3, PushedOn, SavedLayer = Pushed(<< >>, CallRegs, CallOrder) DEF SavedLayer
<1>5. QED
  BY <1>1, <1>3, <1>4 DEF Lies

\* A word pushed before the moves start.
LEMMA PushedBefore ==
    ASSUME regs = CallRegs, mem = CallMem, NEW s, s \in Source,
           NEW w, w = rins_push_vreg_temp(regs, s)
    PROVE  w[1] = ValueBefore(s)[1] /\ (~IsByte(s) => w[2] = ValueBefore(s)[2])
<1>1. CASE s \in ByteRegs
  <2>1. PushReg(s) \in Wide /\ Half(s) \in {1, 2}
    BY <1>1, HalfOf, Kinds
  <2>2. w[1] = regs[PushReg(s)][Half(s)] /\ IsByte(s)
    BY <1>1 DEF rins_push_vreg_temp, IsByte, Byte
  <2>3. regs[PushReg(s)] = <<Orig(PushReg(s), 1), Orig(PushReg(s), 2)>>
    BY <2>1, CallPairs
  <2>4. ValueBefore(s)[1] = Orig(PushReg(s), Half(s))
    BY <1>1 DEF ValueBefore
  <2>5. QED
    BY <2>1, <2>2, <2>3, <2>4
<1>2. CASE s \notin ByteRegs
  <2>1. s \in Wide \cup Spilled \cup Remats
    BY <1>2, Kinds
  <2>2. Word(regs, s) = <<Orig(s, 1), Orig(s, 2)>>
    BY <2>1, CallPairs, Kinds DEF Word
  <2>3. w[1] = Word(regs, s)[1] /\ (~IsByte(s) => w = Word(regs, s))
    BY <1>2 DEF rins_push_vreg_temp, Byte
  <2>4. ValueBefore(s) = <<Orig(s, 1), Orig(s, 2)>>
    BY <1>2 DEF ValueBefore
  <2>5. QED
    BY <2>2, <2>3, <2>4
<1>3. QED
  BY <1>1, <1>2

-----------------------------------------------------------------------------
(* Before the call instruction. *)

CallBefore == SiteAt /\ CallStack /\ CallStart

\* Initially no call is under way, or one is about to start.
LEMMA NoCallYet ==
    ASSUME Init
    PROVE  CallBefore
<1>1. CASE CallInit
  <2>1. PICK F \in Sites : site \in F
    BY <1>1 DEF CallInit
  <2>2. pc = "saves" /\ stack = << >> /\ mem = CallMem
    BY <1>1 DEF CallInit, InitMachine, CallMem
  <2>3. regs = [CallRegs EXCEPT !["BP"] = FrameBP]
    BY <1>1 DEF CallInit, InitMachine, CallRegs
  <2>4. [CallRegs EXCEPT !["BP"] = FrameBP] = CallRegs
    BY CallPairs DEF RegFile, CallRegs
  <2>5. QED
    BY <2>1, <2>2, <2>3, <2>4 DEF CallBefore, SiteAt, CallStack, CallStart, MovesOf, InFunction, Within
<1>2. CASE FrameInit
  <2>1. pc = "prologue"
    BY <1>2 DEF FrameInit
  <2>2. QED
    BY <1>2, <2>1 DEF CallBefore, SiteAt, CallStack, CallStart, MovesOf, Returns, FrameInit
<1>3. QED
  BY <1>1, <1>2 DEF Init

\* A call the binder is given is not the placeholder of the functions.
LEMMA NoMovesYet ==
    ASSUME \E F \in Sites : site \in F
    PROVE  site # NoSite /\ site.op \in {"call", "icall", "ncall"}
<1>1. site.op \in {"call", "icall", "ncall"}
  BY SitesAssumption
<1>2. NoSite.op = "jump"
  BY DEF NoSite
<1>3. QED
  BY <1>1, <1>2

\* Moves are planned for arguments that are not in a register aliasing the expected one.
LEMMA PlanMoves ==
    ASSUME NEW c, c \in Seq([src : Source, dst : Reg]), NEW ms, ms = PlannedMoves(c)
    PROVE  \A i \in DOMAIN ms : ~pregs_alias(ms[i].src, ms[i].dst_reg)
<1>1. PICK P : P = {k \in DOMAIN c : ~pregs_alias(c[k].src, c[k].dst)}
  OBVIOUS
<1>2. PICK T : T = [src : Source, dst : Reg]
  OBVIOUS
<1>3. P \in SUBSET (1 .. Len(c)) /\ c \in Seq(T)
  BY <1>1, <1>2
<1>4. PICK kept, pos : kept = Picked(c, P) /\ kept \in Seq(T) /\ pos \in Seq(1 .. Len(c))
                       /\ Picks(c, P, Len(c), kept, pos)
  BY ONLY <1>3, PickedIs
<1>5. ms = [k \in DOMAIN kept |-> Planned(kept[k])]
  BY <1>1, <1>4 DEF PlannedMoves
<1>6. \A k \in DOMAIN kept : ~pregs_alias(kept[k].src, kept[k].dst)
  BY <1>1, <1>4 DEF Picks
<1>7. QED
  BY <1>5, <1>6 DEF Planned

\* The steps before the moves.
LEMMA CallPrepared ==
    ASSUME FrameInv, CallBefore, emit_call_saves \/ PushArea \/ MoveArgs
    PROVE  CallBefore'
<1>1. /\ \E F \in Sites : site \in F
      /\ regs = CallRegs /\ mem = CallMem /\ UNCHANGED <<regs, mem, site>> /\ Machine
  BY DEF CallBefore, SiteAt, CallStart, emit_call_saves, PushArea, MoveArgs, siteVars,
         FrameInv, CallBegins
<1>2. SavedLayer' = SavedLayer /\ CallRegs' = CallRegs /\ CallMem' = CallMem
  BY <1>1, SiteKept DEF CallRegs, CallMem
<1>3. CASE emit_call_saves
  <2>1. stack = << >> /\ pc' = "area" /\ stack' = Pushed(stack, regs, SaveOrder(call_saved(site)))
    BY <1>3 DEF emit_call_saves, CallBefore, CallStack
  <2>2. stack' = SavedLayer
    BY <1>1, <2>1 DEF SavedLayer, CallOrder
  <2>3. QED
    BY <1>1, <1>2, <2>1, <2>2 DEF CallBefore, SiteAt, CallStack, CallStart, MovesOf, InFunction, Within
<1>4. CASE PushArea
  <2>1. stack = SavedLayer /\ pc' = "args"
    BY <1>4 DEF PushArea, CallBefore, CallStack
  <2>2. /\ StackOn(stack', stack, call_area_words(site)) /\ call_area_words(site) \in Nat
        /\ \A k \in DOMAIN StackArgs(site) :
              /\ StackArgs(site)[k].src \in Source
              /\ stack'[k] = rins_push_vreg_temp(regs, StackArgs(site)[k].src)
    BY <1>1, <1>4, AreaPushed DEF Machine
  <2>3. OnSaved(stack)'
    BY <1>1, <1>2, <2>1, <2>2 DEF OnSaved
  <2>4. ASSUME NEW k \in DOMAIN StackArgs(site), NEW src, src = StackArgs(site)[k].src
        PROVE  /\ stack'[k][1] = ValueBefore(src)[1]
               /\ ~IsByte(src) => stack'[k][2] = ValueBefore(src)[2]
    BY <1>1, <2>2, <2>4, PushedBefore
  <2>5. ArgsPushed(stack)'
    BY <1>1, <2>4 DEF ArgsPushed
  <2>6. QED
    BY <1>1, <1>2, <2>1, <2>3, <2>5 DEF CallBefore, SiteAt, CallStack, CallStart, MovesOf, InFunction, Within
<1>5. CASE MoveArgs
  <2>1. /\ pc' = "moves" /\ call' = RegArgs(site) /\ moves' = PlannedMoves(RegArgs(site))
        /\ base'.regs = regs /\ base'.mem = mem /\ base'.stack = stack /\ pc = "args"
    BY <1>5 DEF MoveArgs, StartMoves
  <2>2. OnSaved(stack) /\ ArgsPushed(stack)
    BY <2>1 DEF CallBefore, CallStack, CallStart
  <2>3. RegArgs(site) \in Seq([src : Source, dst : Reg])
    BY <1>1, CallPairs, SiteCallable DEF Callable
  <2>4. \A i \in DOMAIN moves' : ~pregs_alias(moves'[i].src, moves'[i].dst_reg)
    BY <2>1, <2>3, PlanMoves
  <2>5. OnSaved(base.stack)' /\ ArgsPushed(base.stack)'
    BY <1>1, <1>2, <2>1, <2>2 DEF OnSaved, ArgsPushed
  <2>6. QED
    BY <1>1, <1>2, <2>1, <2>4, <2>5 DEF CallBefore, SiteAt, CallStack, CallStart, MovesOf, InFunction, Within
<1>6. QED
  BY <1>3, <1>4, <1>5

\* A step of the moves changes neither what they are for nor where they began.
LEMMA MoveStepKeeps ==
    ASSUME MoveStep, MovesInv
    PROVE  /\ call' = call /\ base' = base /\ pc \in {"moves", "pops"} /\ pc' \in {"moves", "pops", "placed"}
           /\ DOMAIN moves' = DOMAIN moves
           /\ \A i \in DOMAIN moves : moves'[i].src = moves[i].src /\ moves'[i].dst_reg = moves[i].dst_reg
<1>1. \/ moves' = moves
      \/ \E k \in DOMAIN moves : \/ moves' = [moves EXCEPT ![k].done = TRUE]
                                 \/ moves' = [moves EXCEPT ![k].done = TRUE, ![k].saved = TRUE]
  <2>1. ASSUME pc = "moves" PROVE Free \subseteq DOMAIN moves /\ Pending \subseteq DOMAIN moves
                                  /\ DOMAIN moves \subseteq Nat
    <3>1. moves \in Seq(Move)
      BY <2>1 DEF MovesInv, Progress, PlanFor
    <3>2. QED
      BY <3>1 DEF Free, Pending
  <2>2. CASE EmitMove
    <3>1. pc = "moves" /\ Free # {} /\ moves' = [moves EXCEPT ![Lowest(Free)].done = TRUE]
      BY <2>2 DEF EmitMove
    <3>2. Lowest(Free) \in DOMAIN moves
      BY <2>1, <3>1, LowestIs
    <3>3. QED
      BY <3>1, <3>2
  <2>3. CASE SaveMove
    <3>1. /\ pc = "moves" /\ Pending # {}
          /\ moves' = [moves EXCEPT ![CyclePick].done = TRUE, ![CyclePick].saved = TRUE]
      BY <2>3 DEF SaveMove
    <3>2. CyclePick \in DOMAIN moves
      <4>1. PICK other : other = {k \in Pending : ~InAXHalf(moves[k].dst_reg)}
        OBVIOUS
      <4>2. CyclePick = Lowest(IF other # {} THEN other ELSE Pending) /\ other \subseteq Pending
        BY <4>1 DEF CyclePick
      <4>3. QED
        BY <2>1, <3>1, <4>2, LowestIs
    <3>3. QED
      BY <3>1, <3>2
  <2>4. CASE StartPops \/ PopSaved \/ EndPops
    BY <2>4 DEF StartPops, PopSaved, EndPops
  <2>5. QED
    BY <2>2, <2>3, <2>4 DEF MoveStep
<1>2. /\ call' = call /\ base' = base /\ pc \in {"moves", "pops"} /\ pc' \in {"moves", "pops", "placed"}
  BY DEF MoveStep, EmitMove, SaveMove, StartPops, PopSaved, EndPops
<1>3. moves \in Seq(Move)
  BY <1>2 DEF MovesInv, Progress, PlanFor
<1>4. ASSUME NEW k, k \in DOMAIN moves,
             \/ moves' = [moves EXCEPT ![k].done = TRUE]
             \/ moves' = [moves EXCEPT ![k].done = TRUE, ![k].saved = TRUE]
      PROVE  /\ DOMAIN moves' = DOMAIN moves
             /\ \A i \in DOMAIN moves : moves'[i].src = moves[i].src /\ moves'[i].dst_reg = moves[i].dst_reg
  <2>1. Marked(moves, moves', k)
    <3>1. /\ Emitted(moves, [moves EXCEPT ![k].done = TRUE], k)
          /\ Saved(moves, [moves EXCEPT ![k].done = TRUE, ![k].saved = TRUE], k)
      BY ONLY <1>3, <1>4, Marks
    <3>2. QED
      BY <1>4, <3>1 DEF Emitted, Saved
  <2>2. QED
    BY <2>1 DEF Marked
<1>5. QED
  BY <1>1, <1>2, <1>4

\* The moves of the arguments.
LEMMA CallMoves ==
    ASSUME FrameInv, CallBefore, SiteMoves
    PROVE  CallBefore'
<1>1. /\ call' = call /\ base' = base /\ pc \in {"moves", "pops"} /\ pc' \in {"moves", "pops", "placed"}
      /\ DOMAIN moves' = DOMAIN moves /\ site' = site
      /\ \A i \in DOMAIN moves : moves'[i].src = moves[i].src /\ moves'[i].dst_reg = moves[i].dst_reg
  BY MoveStepKeeps DEF SiteMoves, FrameInv, siteVars
<1>2. SavedLayer' = SavedLayer /\ CallRegs' = CallRegs /\ CallMem' = CallMem
  BY <1>1, SiteKept DEF CallRegs, CallMem
<1>3. SiteAt'
  BY <1>1 DEF CallBefore, SiteAt, MovesOf, Returns, InFunction, Within
<1>4. CallStack'
  BY <1>1, <1>2 DEF CallBefore, CallStack, MovesOf, OnSaved
<1>5. CallStart'
  BY <1>1, <1>2 DEF CallBefore, CallStart, MovesOf, ArgsPushed
<1>6. QED
  BY <1>3, <1>4, <1>5 DEF CallBefore

-----------------------------------------------------------------------------
(* The call instruction. *)

\* A register argument is one of the arguments.
LEMMA RegArgIs ==
    ASSUME \E F \in Sites : site \in F, NEW a, a \in ToSet(RegArgs(site))
    PROVE  \E k \in DOMAIN site.args : site.args[k] = a /\ a.dst # STACK
<1>1. PICK args, T : args = site.args /\ T = [src : Source, dst : Reg \cup {STACK}] /\ args \in Seq(T)
  BY SitesAssumption DEF Passes
<1>2. PICK P : P = {k \in DOMAIN args : args[k].dst # STACK}
  OBVIOUS
<1>3. P \in SUBSET (1 .. Len(args))
  BY <1>1, <1>2
<1>4. PICK c, pos : c = Picked(args, P) /\ c \in Seq(T) /\ pos \in Seq(1 .. Len(args))
                    /\ Picks(args, P, Len(args), c, pos)
  BY ONLY <1>1, <1>3, PickedIs
<1>5. c = RegArgs(site)
  BY <1>1, <1>2, <1>4 DEF RegArgs
<1>6. PICK i \in DOMAIN c : c[i] = a
  BY <1>5 DEF ToSet
<1>7. i \in 1 .. Len(pos) /\ pos[i] \in P /\ c[i] = args[pos[i]]
  BY <1>4, <1>6 DEF Picks
<1>8. QED
  BY <1>1, <1>2, <1>6, <1>7

\* Where no argument goes to BP, the moves leave it alone.
LEMMA FrameUnmoved ==
    ASSUME \E F \in Sites : site \in F, ~outgoing_bp_param(site)
    PROVE  "BP" \notin collect_call_arg_setup_clobbers(site)
<1>1. SUFFICES ASSUME NEW a, a \in ToSet(RegArgs(site)), PushReg(a.dst) = "BP" PROVE FALSE
  BY DEF collect_call_arg_setup_clobbers
<1>2. PICK k \in DOMAIN site.args : site.args[k] = a /\ a.dst # STACK
  BY <1>1, RegArgIs
<1>3. a.dst = "BP"
  <2>1. a.dst \in ByteRegs => PushReg(a.dst) \in SplitWords
    BY Kinds
  <2>2. QED
    BY <1>1, <2>1, Kinds DEF PushReg
<1>4. QED
  BY <1>2, <1>3 DEF outgoing_bp_param

\* When the arguments are placed, only the registers of arguments that had to be moved
\* have changed.
LEMMA PlacedIs ==
    ASSUME FrameInv, CallBefore, pc = "placed", site # NoSite
    PROVE  /\ OnSaved(stack) /\ ArgsPushed(stack) /\ mem = CallMem /\ MemFile /\ RegFile(regs)
           /\ \A w \in Wide : w \notin collect_call_arg_setup_clobbers(site) => regs[w] = CallRegs[w]
           /\ ~outgoing_bp_param(site) => regs["BP"] = FrameBP
<1>1. /\ PlanFor(moves, call) /\ Callable(call, base.regs)
      /\ DataOK(regs, Over(moves, 0)) /\ stack = base.stack
  BY NoneLeft
<1>2. Progress(regs, stack, moves, 0)
  BY DEF FrameInv, MovesInv
<1>3. /\ \E F \in Sites : site \in F
      /\ base.regs = CallRegs /\ base.mem = CallMem /\ call = RegArgs(site)
      /\ \A i \in DOMAIN moves : ~pregs_alias(moves[i].src, moves[i].dst_reg)
      /\ OnSaved(base.stack) /\ ArgsPushed(base.stack)
  BY DEF CallBefore, CallStart, CallStack, SiteAt, MovesOf
<1>4. mem = base.mem /\ MemFile
  BY <1>2 DEF Progress
<1>5. ASSUME NEW w \in Wide, w \notin collect_call_arg_setup_clobbers(site)
      PROVE  regs[w] = CallRegs[w]
  <2>1. ASSUME NEW c \in Over(moves, 0) PROVE PushReg(c) # w
    <3>1. PICK i \in DOMAIN moves : c = Effect(moves[i])
      BY <2>1 DEF Over, Made
    <3>2. PushReg(c) = PushReg(moves[i].dst_reg)
      BY ONLY <1>1, <3>1, MoveIs
    <3>3. PICK k \in DOMAIN call : call[k].src = moves[i].src /\ call[k].dst = moves[i].dst_reg
      BY <1>1, <3>1 DEF PlanFor
    <3>4. PICK a : a = call[k] /\ a \in ToSet(RegArgs(site))
      BY <1>3, <3>3 DEF ToSet
    <3>5. ~pregs_alias(a.src, a.dst)
      BY <1>3, <3>1, <3>3, <3>4
    <3>6. PushReg(a.dst) \in collect_call_arg_setup_clobbers(site)
      BY <3>4, <3>5 DEF collect_call_arg_setup_clobbers
    <3>7. QED
      BY <1>5, <3>2, <3>3, <3>4, <3>6
  <2>2. QED
    BY <1>1, <1>3, <2>1 DEF DataOK
<1>6. RegFile(regs)
  BY <1>1 DEF DataOK
<1>7. ~outgoing_bp_param(site) => regs["BP"] = FrameBP
  BY <1>3, <1>5, FrameUnmoved, CallPairs, Kinds
<1>8. QED
  BY <1>1, <1>3, <1>4, <1>5, <1>6, <1>7

\* Where an indirect call goes.
Reached == pc = "capture" /\ ~TargetOverwritten(site) =>
              \A k \in DOMAIN site.tgt : reached[k] = ValueBefore(site.tgt[k])

\* The call instruction reads the target that was there before the moves.
LEMMA TargetRead ==
    ASSUME FrameInv, CallBefore, EmitCall
    PROVE  Reached'
<1>1. SUFFICES ASSUME ~TargetOverwritten(site), NEW k \in DOMAIN site.tgt
               PROVE  reached'[k] = ValueBefore(site.tgt[k])
  BY DEF Reached, EmitCall
<1>2. pc = "placed" /\ site # NoSite
  BY DEF EmitCall, NoSite
<1>3. /\ \E F \in Sites : site \in F
  BY <1>2 DEF CallBefore, SiteAt, MovesOf
<1>4. /\ mem = CallMem /\ RegFile(regs) /\ regs["BP"] = FrameBP
      /\ \A w \in Wide : w \notin collect_call_arg_setup_clobbers(site) => regs[w] = CallRegs[w]
  BY <1>1, <1>2, PlacedIs DEF TargetOverwritten
<1>5. PICK t : t = site.tgt[k] /\ t \in Source /\ ~IsByte(t) /\ t \in ToSet(site.tgt)
  BY <1>1, <1>3, SitesAssumption DEF ToSet
<1>6. reached'[k] = Word(regs, t)
  <2>1. reached' = CallTarget(regs, site)
    BY <1>4 DEF EmitCall
  <2>2. QED
    BY <1>1, <1>5, <2>1 DEF CallTarget
<1>7. Word(regs, t) = <<Orig(t, 1), Orig(t, 2)>>
  <2>1. CASE t \in Wide
    <3>1. t \notin collect_call_arg_setup_clobbers(site)
      <4>1. pregs_alias(t, t)
        BY <2>1 DEF pregs_alias, NONE, Wide, WordRegs, SegRegs
      <4>2. QED
        BY <1>1, <1>5, <4>1 DEF TargetOverwritten
    <3>2. QED
      BY <1>4, <2>1, <3>1, CallPairs DEF Word
  <2>2. CASE t \in Spilled
    BY <1>4, <2>2, CallPairs, Kinds DEF Word
  <2>3. CASE t \in Remats
    BY <2>3, Kinds DEF Word
  <2>4. t \notin ByteRegs
    BY <1>5 DEF IsByte
  <2>5. QED
    BY <1>5, <2>1, <2>2, <2>3, <2>4, Kinds
<1>8. ValueBefore(t) = <<Orig(t, 1), Orig(t, 2)>>
  BY <1>5 DEF ValueBefore, IsByte
<1>9. QED
  BY <1>5, <1>6, <1>7, <1>8

-----------------------------------------------------------------------------
(* What is saved around a call. *)

\* The elements picked from a sequence are those at the positions picked.
LEMMA PickedSet ==
    ASSUME NEW T, NEW s, NEW P, s \in Seq(T), P \in SUBSET (1 .. Len(s))
    PROVE  ToSet(Picked(s, P)) = {s[p] : p \in P}
<1>1. PICK t, pos : /\ t = Picked(s, P) /\ t \in Seq(T) /\ pos \in Seq(1 .. Len(s))
                    /\ Picks(s, P, Len(s), t, pos)
  BY PickedIs
<1>2. DOMAIN t = 1 .. Len(t) /\ Len(t) = Len(pos) /\ \A p \in P : p <= Len(s)
  BY <1>1 DEF Picks
<1>3. ASSUME NEW r, r \in ToSet(t) PROVE \E p \in P : s[p] = r
  <2>1. PICK i \in DOMAIN t : t[i] = r
    BY <1>3 DEF ToSet
  <2>2. pos[i] \in P /\ t[i] = s[pos[i]]
    BY <1>1, <1>2, <2>1 DEF Picks
  <2>3. QED
    BY <2>1, <2>2
<1>4. ASSUME NEW p \in P, NEW r, s[p] = r PROVE r \in ToSet(t)
  <2>1. PICK i \in 1 .. Len(pos) : pos[i] = p
    BY <1>1, <1>2 DEF Picks
  <2>2. t[i] = s[pos[i]] /\ i \in DOMAIN t
    BY <1>1, <1>2, <2>1 DEF Picks
  <2>3. QED
    BY <1>4, <2>1, <2>2 DEF ToSet
<1>5. QED
  BY <1>1, <1>3, <1>4

\* What two sequences put together contain.
LEMMA ConcatSet ==
    ASSUME NEW S, NEW s, s \in Seq(S), NEW t, t \in Seq(S), NEW x
    PROVE  x \in ToSet(s \o t) <=> x \in ToSet(s) \cup ToSet(t)
<1>1. PICK m, n, u : m = Len(s) /\ n = Len(t) /\ u = s \o t
  OBVIOUS
<1>2. /\ u \in Seq(S) /\ Len(u) = m + n
      /\ \A i \in 1 .. m + n : u[i] = IF i <= m THEN s[i] ELSE t[i - m]
  BY ONLY <1>1, ConcatProperties, s \in Seq(S), t \in Seq(S)
<1>3. /\ m \in Nat /\ DOMAIN s = 1 .. m /\ n \in Nat /\ DOMAIN t = 1 .. n
      /\ DOMAIN u = 1 .. m + n
  BY ONLY <1>1, <1>2, LenProperties, s \in Seq(S), t \in Seq(S)
<1>4. ASSUME x \in ToSet(u) PROVE x \in ToSet(s) \cup ToSet(t)
  <2>1. PICK i \in 1 .. m + n : u[i] = x
    BY <1>3, <1>4 DEF ToSet
  <2>2. CASE i <= m
    <3>1. i \in 1 .. m /\ s[i] = x
      BY ONLY <1>2, <1>3, <2>1, <2>2, i \in 1 .. m + n
    <3>2. QED
      BY <1>3, <3>1 DEF ToSet
  <2>3. CASE ~(i <= m)
    <3>1. i - m \in 1 .. n /\ t[i - m] = x
      BY ONLY <1>2, <1>3, <2>1, <2>3, i \in 1 .. m + n
    <3>2. QED
      BY <1>3, <3>1 DEF ToSet
  <2>4. QED
    BY <2>2, <2>3
<1>5. QED
  BY <1>1, <1>4, InConcat

\* The registers saved around a call.
LEMMA CallSavedIs ==
    ASSUME NEW s, \E F \in Sites : s \in F, NEW r
    PROVE  r \in ToSet(call_saved(s)) <=>
              \/ r = "BP" /\ SavesBP(s)
              \/ r = "BX" /\ SavesBX(s)
              \/ \E k \in DOMAIN s.live : r = PushReg(s.live[k]) /\ Clobbered(s, s.live[k])
<1>1. PICK live : live = s.live /\ live \in Seq(Reg)
  BY SitesAssumption
<1>2. PICK n : n = Len(live) /\ n \in Nat /\ DOMAIN live = 1 .. n /\ \A k \in 1 .. n : live[k] \in Reg
  BY <1>1
<1>3. PICK words : words = [k \in DOMAIN live |-> PushReg(live[k])]
  OBVIOUS
<1>4. \A q \in Reg : PushReg(q) \in Wide
  BY Kinds
<1>5. words \in [1 .. n -> Wide]
  BY <1>2, <1>3, <1>4
<1>6. words \in Seq(Wide) /\ Len(words) = n
  BY ONLY <1>2, <1>5, FunctionSeq
<1>7. PICK bp : bp = IF SavesBP(s) THEN <<"BP">> ELSE << >>
  OBVIOUS
<1>8. PICK bx : bx = IF SavesBX(s) THEN Append(bp, "BX") ELSE bp
  OBVIOUS
<1>9. "BP" \in Wide /\ "BX" \in Wide
  BY DEF Wide, WordRegs
<1>10. bp \in Seq(Wide) /\ \A q : q \in ToSet(bp) <=> q = "BP" /\ SavesBP(s)
  <2>1. CASE SavesBP(s)
    <3>1. bp = <<"BP">>
      BY <1>7, <2>1
    <3>2. QED
      BY <1>9, <2>1, <3>1 DEF ToSet
  <2>2. CASE ~SavesBP(s)
    <3>1. bp = << >>
      BY <1>7, <2>2
    <3>2. QED
      BY <1>9, <2>2, <3>1 DEF ToSet
  <2>3. QED
    BY <2>1, <2>2
<1>11. bx \in Seq(Wide) /\ \A q : q \in ToSet(bx) <=> \/ q = "BP" /\ SavesBP(s)
                                                      \/ q = "BX" /\ SavesBX(s)
  <2>1. CASE SavesBX(s)
    <3>1. bx = Append(bp, "BX")
      BY <1>8, <2>1
    <3>2. bx \in Seq(Wide) /\ ToSet(bx) = ToSet(bp) \cup {"BX"}
      BY ONLY <1>9, <1>10, <3>1, AppendNew
    <3>3. QED
      BY <1>10, <2>1, <3>2
  <2>2. CASE ~SavesBX(s)
    BY <1>8, <1>10, <2>2
  <2>3. QED
    BY <2>1, <2>2
<1>12. PICK P : P = {k \in DOMAIN live : Clobbered(s, live[k]) /\ add_call_saved_reg(bx, words, k)}
  OBVIOUS
<1>13. P \in SUBSET (1 .. Len(words))
  BY <1>2, <1>6, <1>12
<1>14. PICK ps : ps = Picked(words, P) /\ ps \in Seq(Wide)
  BY ONLY <1>6, <1>13, PickedIs
<1>15. call_saved(s) = bx \o ps
  BY <1>1, <1>3, <1>7, <1>8, <1>12, <1>14 DEF call_saved
<1>16. r \in ToSet(call_saved(s)) <=> r \in ToSet(bx) \/ r \in ToSet(ps)
  BY ONLY <1>11, <1>14, <1>15, ConcatSet
<1>17. r \in ToSet(ps) <=> \E p \in P : words[p] = r
  <2>1. ToSet(Picked(words, P)) = {words[p] : p \in P}
    BY ONLY <1>6, <1>13, PickedSet
  <2>2. QED
    BY <1>14, <2>1
<1>18. ASSUME NEW p \in P, words[p] = r
       PROVE  \E k \in DOMAIN s.live : r = PushReg(s.live[k]) /\ Clobbered(s, s.live[k])
  BY <1>1, <1>3, <1>12, <1>18
<1>19. ASSUME NEW k \in DOMAIN s.live, r = PushReg(s.live[k]), Clobbered(s, s.live[k]),
              r \notin ToSet(bx)
       PROVE  \E p \in P : words[p] = r
  <2>1. PICK K : K = {j \in 1 .. n : words[j] = r}
    OBVIOUS
  <2>2. k \in K /\ K \subseteq Nat
    BY <1>1, <1>2, <1>3, <1>19, <2>1
  <2>3. PICK p \in K : \A m \in K : p <= m
    BY ONLY <2>2, SmallestElement
  <2>4. p \in 1 .. n /\ words[p] = r /\ \A j \in 1 .. p - 1 : words[j] # r
    BY <1>2, <2>1, <2>3
  <2>5. Clobbered(s, live[p])
    <3>1. PushReg(live[p]) = PushReg(s.live[k])
      BY <1>2, <1>3, <1>19, <2>4
    <3>2. QED
      BY <1>19, <3>1 DEF Clobbered
  <2>6. add_call_saved_reg(bx, words, p)
    BY <1>19, <2>4 DEF add_call_saved_reg
  <2>7. p \in P
    BY <1>2, <1>12, <2>4, <2>5, <2>6
  <2>8. QED
    BY <2>4, <2>7
<1>20. QED
  BY <1>11, <1>16, <1>17, <1>18, <1>19

\* What is pushed is to be saved, or is pushed by PUSHA.
LEMMA SaveOrderOnly ==
    ASSUME NEW saved, saved \in Seq(Wide), NEW r, r \in ToSet(SaveOrder(saved)), r \notin ToSet(saved)
    PROVE  save_set_uses_pusha(saved) /\ r \in ToSet(PushaOrder)
<1>1. PICK U : U = Wide \cup {"SP"}
  OBVIOUS
<1>2. PushaOrder \in Seq(U)
  <2>1. {"AX", "CX", "DX", "BX", "SP", "BP", "SI", "DI"} \subseteq U
    BY <1>1 DEF Wide, WordRegs
  <2>2. QED
    BY <2>1 DEF PushaOrder
<1>3. saved \in Seq(U) /\ DOMAIN saved = 1 .. Len(saved)
  <2>1. saved \in Seq(U)
    BY ONLY <1>1, saved \in Seq(Wide), SeqMonotonic, Wide \subseteq Wide \cup {"SP"}
  <2>2. QED
    BY ONLY <2>1, LenProperties
<1>4. PICK P, t : P = {k \in DOMAIN saved : ~preg_covered_by_pusha(saved[k])} /\ t = Picked(saved, P)
  OBVIOUS
<1>5. P \in SUBSET (1 .. Len(saved))
  BY <1>3, <1>4
<1>6. t \in Seq(U) /\ (r \in ToSet(t) => \E p \in P : saved[p] = r)
  BY ONLY <1>3, <1>4, <1>5, PickedIs, PickedSet
<1>7. r \notin ToSet(t)
  BY <1>4, <1>6 DEF ToSet
<1>8. save_set_uses_pusha(saved)
  BY DEF SaveOrder
<1>9. r \in ToSet(t \o PushaOrder)
  BY <1>4, <1>8 DEF SaveOrder
<1>10. r \in ToSet(t) \cup ToSet(PushaOrder)
  BY ONLY <1>2, <1>6, <1>9, ConcatSet
<1>11. QED
  BY <1>7, <1>8, <1>10

\* A live register that is not pushed is preserved by the callee and is no argument's.
LEMMA NotPushed ==
    ASSUME \E F \in Sites : site \in F, NEW k, k \in DOMAIN site.live, NEW v, v = site.live[k],
           PushReg(v) \notin ToSet(CallOrder)
    PROVE  /\ ~Clobbered(site, v)
           /\ PushReg(v) \in site.preserves /\ PushReg(v) \notin collect_call_arg_setup_clobbers(site)
           /\ StackRets(site) # {} => PushReg(v) # "BX"
<1>1. PushReg(v) \notin ToSet(call_saved(site))
  BY CallSavedOver, SaveOrderHas DEF CallOrder
<1>2. ~Clobbered(site, v)
  BY <1>1, CallSavedIs
<1>3. ASSUME StackRets(site) # {}, PushReg(v) = "BX" PROVE FALSE
  <2>1. site.rets \in Seq([exp : Reg \cup {STACK}, act : Reg \cup Spilled])
    BY SitesAssumption
  <2>2. direct_stack_ret_words(site) > 0
    <3>1. PICK n : n = Len(site.rets) /\ n \in Nat /\ StackRets(site) \subseteq 1 .. n
      BY <2>1 DEF StackRets
    <3>2. IsFiniteSet(1 .. n)
      BY ONLY FS_Interval, <3>1, 1 \in Int, \A i \in Nat : i \in Int
    <3>3. IsFiniteSet(StackRets(site))
      BY ONLY <3>1, <3>2, FS_Subset
    <3>4. Cardinality(StackRets(site)) \in Nat /\ Cardinality(StackRets(site)) # 0
      BY ONLY <1>3, <3>3, FS_CardinalityType, FS_EmptySet
    <3>5. QED
      BY <3>4 DEF direct_stack_ret_words
  <2>3. v \in Reg /\ "BX" \in Reg /\ "BX" \notin ByteRegs
    <3>1. site.live \in Seq(Reg)
      BY SitesAssumption
    <3>2. QED
      BY <3>1 DEF Reg, Preg, WordRegs, ByteRegs
  <2>4. pregs_alias(v, "BX")
    <3>1. PushReg("BX") = "BX"
      BY <2>3 DEF PushReg
    <3>2. QED
      BY <1>3, <2>3, <3>1, Sharing
  <2>5. SavesBX(site)
    BY <2>2, <2>4 DEF SavesBX, ToSet
  <2>6. QED
    BY <1>1, <1>3, <2>5, CallSavedIs
<1>4. QED
  BY <1>2, <1>3 DEF Clobbered

\* Where the callee or an argument changes BP, the frame pointer is saved, but for
\* indirect calls with an argument in BP.
LEMMA FrameSaved ==
    ASSUME \E F \in Sites : site \in F, site.frame, BPLost(site), ~FramePointerArg(site)
    PROVE  "BP" \in ToSet(CallOrder)
<1>1. SavesBP(site)
  BY SitesAssumption DEF SavesBP, BPLost, FramePointerArg
<1>2. "BP" \in ToSet(call_saved(site))
  BY <1>1, CallSavedIs
<1>3. QED
  BY <1>2, CallSavedOver, SaveOrderHas DEF CallOrder

-----------------------------------------------------------------------------
(* The called function. *)

\* Every stack result has a word of the area to itself.
LEMMA AreaIndexIs ==
    ASSUME \E F \in Sites : site \in F
    PROVE  /\ call_area_words(site) \in Nat
           /\ \A k \in StackRets(site) : AreaIndex(site, k) \in 1 .. call_area_words(site)
           /\ \A j, k \in StackRets(site) : AreaIndex(site, j) = AreaIndex(site, k) => j = k
<1>1. PICK R, n : R = StackRets(site) /\ n \in Nat /\ R \subseteq 1 .. n
  <2>1. site.rets \in Seq([exp : Reg \cup {STACK}, act : Reg \cup Spilled])
    BY SitesAssumption
  <2>2. StackRets(site) \subseteq 1 .. Len(site.rets) /\ Len(site.rets) \in Nat
    BY <2>1 DEF StackRets
  <2>3. QED
    BY <2>2
<1>2. IsFiniteSet(1 .. n)
  BY ONLY FS_Interval, <1>1, 1 \in Int, \A i \in Nat : i \in Int
<1>3. IsFiniteSet(R) /\ \A S : S \subseteq R => IsFiniteSet(S)
  BY ONLY <1>1, <1>2, FS_Subset
<1>4. direct_stack_arg_words(site) \in Nat
  <2>1. PICK args, T : args = site.args /\ T = [src : Source, dst : Reg \cup {STACK}] /\ args \in Seq(T)
    BY SitesAssumption DEF Passes
  <2>2. PICK P : P = {k \in DOMAIN args : args[k].dst = STACK}
    OBVIOUS
  <2>3. P \in SUBSET (1 .. Len(args))
    BY <2>1, <2>2
  <2>4. Picked(args, P) \in Seq(T)
    BY ONLY <2>1, <2>3, PickedIs
  <2>5. StackArgs(site) = Picked(args, P)
    BY <2>1, <2>2 DEF StackArgs
  <2>6. Len(StackArgs(site)) \in Nat
    BY <2>4, <2>5
  <2>7. QED
    BY <2>6 DEF direct_stack_arg_words
<1>5. Cardinality(R) \in Nat
  BY ONLY <1>3, FS_CardinalityType
<1>6. call_area_words(site) \in Nat /\ Cardinality(R) <= call_area_words(site)
  BY <1>1, <1>4, <1>5 DEF call_area_words, direct_stack_ret_words
<1>7. PICK Upto : Upto = [k \in R |-> {j \in R : j <= k}]
  OBVIOUS
<1>8. \A k \in R : /\ Upto[k] \subseteq R /\ k \in Upto[k] /\ IsFiniteSet(Upto[k])
                   /\ AreaIndex(site, k) = Cardinality(Upto[k])
  BY <1>1, <1>3, <1>7 DEF AreaIndex
<1>9. ASSUME NEW k \in R PROVE AreaIndex(site, k) \in 1 .. call_area_words(site)
  <2>1. /\ Cardinality(Upto[k]) \in Nat /\ Cardinality(Upto[k]) # 0
        /\ Cardinality(Upto[k]) <= Cardinality(R)
    BY ONLY <1>3, <1>8, <1>9, FS_CardinalityType, FS_EmptySet, FS_Subset
  <2>2. QED
    BY <1>5, <1>6, <1>8, <2>1
<1>10. ASSUME NEW j \in R, NEW k \in R, j < k PROVE AreaIndex(site, j) < AreaIndex(site, k)
  <2>1. PICK S : S = Upto[k] \ {k}
    OBVIOUS
  <2>2. IsFiniteSet(S) /\ Cardinality(S) = Cardinality(Upto[k]) - 1
    BY ONLY <1>8, <2>1, FS_RemoveElement
  <2>3. Upto[j] \subseteq S
    BY <1>1, <1>7, <1>10, <2>1
  <2>4. Cardinality(Upto[j]) <= Cardinality(S)
    BY ONLY <2>2, <2>3, FS_Subset
  <2>5. Cardinality(Upto[j]) \in Nat /\ Cardinality(Upto[k]) \in Nat
    BY ONLY <1>8, <1>10, FS_CardinalityType
  <2>6. QED
    BY <1>8, <2>2, <2>4, <2>5
<1>11. \A j, k \in R : AreaIndex(site, j) = AreaIndex(site, k) => j = k
  <2>1. SUFFICES ASSUME NEW j \in R, NEW k \in R, AreaIndex(site, j) = AreaIndex(site, k), j # k
                 PROVE  FALSE
    OBVIOUS
  <2>2. j < k \/ k < j
    BY <1>1, <2>1
  <2>3. AreaIndex(site, j) \in Nat /\ AreaIndex(site, k) \in Nat
    BY <1>6, <1>9
  <2>4. QED
    BY <1>10, <2>1, <2>2, <2>3
<1>12. QED
  BY <1>1, <1>6, <1>9, <1>11

\* The callee leaves its results in the area and what is below alone.
LEMMA CalleeAreaIs ==
    ASSUME \E F \in Sites : site \in F, NEW st, OnSaved(st), NEW tt, tt = CalleeArea(st)
    PROVE  OnSaved(tt) /\ \A k \in StackRets(site) : tt[AreaIndex(site, k)] = Ret(k)
<1>1. PICK m, n, R : /\ n = call_area_words(site) /\ m = Len(SavedLayer) /\ R = StackRets(site)
                     /\ StackOn(st, SavedLayer, n) /\ n \in Nat
  BY DEF OnSaved
<1>2. /\ Sequence(st) /\ Sequence(SavedLayer) /\ Len(st) = n + m
      /\ \A k \in 1 .. m : st[n + k] = SavedLayer[k]
      /\ \A k \in 1 .. n : DOMAIN st[k] = 1 .. 2
  BY <1>1 DEF StackOn
<1>3. DOMAIN st = 1 .. n + m /\ m \in Nat
  BY <1>1, <1>2 DEF Sequence
<1>4. /\ \A k \in R : AreaIndex(site, k) \in 1 .. n
      /\ \A j, k \in R : AreaIndex(site, j) = AreaIndex(site, k) => j = k
  BY <1>1, AreaIndexIs
<1>5. PICK word : word = [k \in 1 .. n + m |->
                            IF \E j \in R : AreaIndex(site, j) = k
                            THEN Ret(CHOOSE j \in R : AreaIndex(site, j) = k)
                            ELSE IF k <= n THEN Unknown ELSE st[k]]
  OBVIOUS
<1>6. tt = word
  BY <1>1, <1>3, <1>5 DEF CalleeArea
<1>7. PICK U : U = {word[k] : k \in 1 .. n + m}
  OBVIOUS
<1>8. tt \in Seq(U) /\ Len(tt) = n + m
  <2>1. word \in [1 .. n + m -> U] /\ n + m \in Nat
    BY <1>1, <1>3, <1>5, <1>7
  <2>2. QED
    BY ONLY <1>6, <2>1, FunctionSeq
<1>9. ASSUME NEW k \in 1 .. m PROVE tt[n + k] = SavedLayer[k]
  <2>1. n + k \in 1 .. n + m /\ ~(n + k <= n) /\ n + k \notin 1 .. n
    BY <1>1, <1>3, <1>9
  <2>2. ~ \E j \in R : AreaIndex(site, j) = n + k
    BY <1>4, <2>1
  <2>3. QED
    BY <1>2, <1>5, <1>6, <1>9, <2>1, <2>2
<1>10. ASSUME NEW k \in R PROVE tt[AreaIndex(site, k)] = Ret(k)
  <2>1. PICK i : i = AreaIndex(site, k) /\ i \in 1 .. n
    BY <1>4
  <2>2. (CHOOSE j \in R : AreaIndex(site, j) = i) = k
    BY <1>4, <2>1
  <2>3. i \in 1 .. n + m
    BY <1>1, <1>3, <2>1
  <2>4. QED
    BY <1>5, <1>6, <2>1, <2>2, <2>3
<1>11. ASSUME NEW k \in 1 .. n PROVE DOMAIN tt[k] = 1 .. 2
  <2>1. \A j : DOMAIN Ret(j) = 1 .. 2
    BY DEF Ret
  <2>2. DOMAIN Unknown = 1 .. 2
    BY FramePairs DEF FramePair
  <2>3. k \in 1 .. n + m /\ k <= n
    BY <1>1, <1>3, <1>11
  <2>4. QED
    BY <1>5, <1>6, <2>1, <2>2, <2>3
<1>12. StackOn(tt, SavedLayer, n)
  BY <1>1, <1>2, <1>8, <1>9, <1>11 DEF StackOn, Sequence
<1>13. QED
  BY <1>1, <1>10, <1>12 DEF OnSaved

\* Whether result k is in the place the callee's ABI gives it, in a register.
AtExp(rf, k) ==
    LET e == site.rets[k].exp IN
    e # STACK => Byte(rf, e) = Ret(k)[1] /\ (e \in Wide => rf[e][2] = Ret(k)[2])

\* The places of the results.
LEMMA RetIs ==
    ASSUME \E F \in Sites : site \in F, NEW k, k \in DOMAIN site.rets
    PROVE  /\ site.rets[k].exp \in Reg \cup {STACK} /\ site.rets[k].act \in Reg \cup Spilled
           /\ site.rets[k].exp # STACK =>
                 /\ (site.rets[k].exp \in ByteRegs) = IsByte(site.rets[k].act)
                 /\ PushReg(site.rets[k].exp) \notin site.preserves
           /\ DOMAIN site.rets = 1 .. Len(site.rets) /\ Len(site.rets) \in Nat
           /\ STACK \notin Reg /\ site.rets[k].act \in ActsOf(site)
           /\ DOMAIN Ret(k) = 1 .. 2
<1>1. PICK rets, T : rets = site.rets /\ T = [exp : Reg \cup {STACK}, act : Reg \cup Spilled]
                     /\ rets \in Seq(T)
  BY SitesAssumption
<1>2. rets[k] \in T /\ DOMAIN rets = 1 .. Len(rets) /\ Len(rets) \in Nat
  BY ONLY <1>1, k \in DOMAIN site.rets, LenProperties, ElementOfSeq
<1>3. STACK \notin Reg
  BY DEF STACK, Reg, Preg, WordRegs, ByteRegs, SegRegs
<1>4. /\ PushReg(site.rets[k].exp) \notin site.preserves
      /\ site.rets[k].exp # STACK => (site.rets[k].exp \in ByteRegs) = IsByte(site.rets[k].act)
  BY SitesAssumption DEF Allocated
<1>5. site.rets[k].act \in ActsOf(site)
  BY DEF ActsOf
<1>6. DOMAIN Ret(k) = 1 .. 2
  BY DEF Ret
<1>7. site.rets[k].exp \in Reg \cup {STACK} /\ site.rets[k].act \in Reg \cup Spilled
  BY <1>1, <1>2
<1>8. QED
  BY <1>1, <1>2, <1>3, <1>4, <1>5, <1>6, <1>7

\* The callee keeps what it preserves and puts every result in its place.
LEMMA CalleeIs ==
    ASSUME \E F \in Sites : site \in F, NEW rf, RegFile(rf), NEW rg, rg = Callee(rf)
    PROVE  /\ RegFile(rg)
           /\ \A w \in Wide : w \in site.preserves => \A h \in 1 .. 2 : rg[w][h] = rf[w][h]
           /\ "BP" \in site.preserves /\ rf["BP"] = FrameBP => rg["BP"] = FrameBP
           /\ \A k \in DOMAIN site.rets : AtExp(rg, k)
<1>1. PICK Filling : Filling = [w \in Wide |-> [h \in 1 .. 2 |->
                        {k \in DOMAIN site.rets : Fills(site.rets[k].exp, w, h)}]]
  OBVIOUS
<1>2. ASSUME NEW w \in Wide, NEW h \in 1 .. 2
      PROVE  /\ Filling[w][h] = {} /\ w \in site.preserves => rg[w][h] = rf[w][h]
             /\ Filling[w][h] # {} => \E k \in Filling[w][h] :
                  rg[w][h] = Ret(k)[IF site.rets[k].exp \in ByteRegs THEN 1 ELSE h]
  BY <1>1, <1>2 DEF Callee
<1>3. RegFile(rg)
  BY DEF Callee, RegFile
<1>4. ASSUME NEW w \in Wide, w \in site.preserves, NEW h \in 1 .. 2 PROVE rg[w][h] = rf[w][h]
  <2>1. \A k \in DOMAIN site.rets : ~Fills(site.rets[k].exp, w, h)
    BY <1>4, RetIs DEF Fills
  <2>2. QED
    BY <1>1, <1>2, <1>4, <2>1
<1>5. ASSUME "BP" \in site.preserves, rf["BP"] = FrameBP PROVE rg["BP"] = FrameBP
  <2>1. rg["BP"][1] = rf["BP"][1] /\ rg["BP"][2] = rf["BP"][2]
    BY <1>4, <1>5, Kinds
  <2>2. rg["BP"] = [h \in 1 .. 2 |-> rg["BP"][h]]
    BY Kinds DEF Callee
  <2>3. FrameBP = [h \in 1 .. 2 |-> FrameBP[h]]
    BY DEF FrameBP
  <2>4. QED
    BY <1>5, <2>1, <2>2, <2>3
<1>6. ASSUME NEW k \in DOMAIN site.rets PROVE AtExp(rg, k)
  <2>1. PICK e : e = site.rets[k].exp /\ e \in Reg \cup {STACK}
    BY <1>6, RetIs
  <2>2. ASSUME e # STACK, NEW h \in 1 .. 2, e \in ByteRegs => h = Half(e)
        PROVE  rg[PushReg(e)][h] = Ret(k)[IF e \in ByteRegs THEN 1 ELSE h]
    <3>1. e \in Reg /\ PushReg(e) \in Wide
      BY <2>1, <2>2, Kinds
    <3>2. Fills(e, PushReg(e), h)
      BY <2>2 DEF Fills
    <3>3. k \in Filling[PushReg(e)][h]
      BY <1>1, <1>6, <2>1, <2>2, <3>1, <3>2
    <3>4. PICK j \in Filling[PushReg(e)][h] :
            rg[PushReg(e)][h] = Ret(j)[IF site.rets[j].exp \in ByteRegs THEN 1 ELSE h]
      BY <1>2, <2>2, <3>1, <3>3
    <3>5. PICK d : d = site.rets[j].exp /\ j \in DOMAIN site.rets /\ Fills(d, PushReg(e), h)
      BY <1>1, <2>2, <3>1
    <3>6. d \in Reg
      BY <3>5, RetIs DEF Fills
    <3>7. pregs_alias(d, e)
      BY <2>2, <3>1, <3>5, <3>6, Sharing DEF Fills
    <3>8. j = k
      <4>1. Allocated(site)
        BY SitesAssumption
      <4>2. QED
        BY <1>6, <2>1, <2>2, <3>5, <3>6, <3>7, <4>1 DEF Allocated, Fills
    <3>9. QED
      BY <2>1, <3>4, <3>8
  <2>3. CASE e \in ByteRegs
    <3>1. Half(e) \in 1 .. 2 /\ e # STACK /\ e \notin Wide
      BY <2>3, HalfOf, Kinds, RetIs, <1>6
    <3>2. rg[PushReg(e)][Half(e)] = Ret(k)[1]
      BY <2>2, <2>3, <3>1
    <3>3. QED
      BY <2>1, <2>3, <3>1, <3>2 DEF AtExp, Byte
  <2>4. CASE e \in Wide
    <3>1. PushReg(e) = e /\ e \notin ByteRegs /\ e # STACK
      BY <2>4, Kinds, RetIs, <1>6
    <3>2. rg[e][1] = Ret(k)[1] /\ rg[e][2] = Ret(k)[2]
      BY <2>2, <3>1
    <3>3. Byte(rg, e) = rg[e][1]
      BY <2>4, <3>1 DEF Byte, Word
    <3>4. QED
      BY <2>1, <3>2, <3>3 DEF AtExp
  <2>5. CASE e = STACK
    BY <2>1, <2>5 DEF AtExp
  <2>6. QED
    BY <2>1, <2>3, <2>4, <2>5, Kinds
<1>7. QED
  BY <1>3, <1>4, <1>5, <1>6

-----------------------------------------------------------------------------
(* The stack of a call, step by step. *)

\* The call instruction and what follows until the results are in place.
LEMMA CallReturns ==
    ASSUME FrameInv, CallBefore,
           EmitCall \/ CaptureResult \/ EndCapture \/ DropArea \/ emit_call_restores
           \/ ReloadResult \/ EndCall
    PROVE  CallBefore'
<1>1. /\ site' = site /\ pc' \in {"capture", "cleanup", "restore", "reload", "end"}
      /\ (pc = "placed" /\ site # NoSite) \/ Returns
  <2>1. ASSUME EmitCall PROVE site' = site /\ pc' = "capture" /\ pc = "placed" /\ site # NoSite
    BY <2>1 DEF EmitCall, NoSite
  <2>2. ASSUME CaptureResult \/ EndCapture
        PROVE  site' = site /\ pc' \in {"capture", "cleanup"} /\ pc = "capture"
    BY <2>2 DEF CaptureResult, EndCapture, siteVars
  <2>3. ASSUME DropArea \/ emit_call_restores
        PROVE  site' = site /\ pc' \in {"restore", "reload"} /\ pc \in {"cleanup", "restore"}
    BY <2>3 DEF DropArea, emit_call_restores
  <2>4. ASSUME ReloadResult \/ EndCall
        PROVE  site' = site /\ pc' \in {"reload", "end"} /\ pc = "reload"
    BY <2>4 DEF ReloadResult, EndCall, siteVars
  <2>5. QED
    BY <2>1, <2>2, <2>3, <2>4 DEF Returns
<1>2. \E F \in Sites : site \in F
  BY <1>1 DEF CallBefore, SiteAt, MovesOf
<1>3. SavedLayer' = SavedLayer
  BY <1>1, SiteKept
<1>4. SiteAt' /\ CallStart'
  BY <1>1, <1>2 DEF SiteAt, CallStart, MovesOf, Returns, InFunction, Within
<1>5. CallStack'
  <2>1. CASE EmitCall
    <3>1. OnSaved(stack) /\ stack' = CalleeArea(stack) /\ pc' = "capture"
      BY <1>1, <2>1, PlacedIs DEF EmitCall, Returns
    <3>2. OnSaved(stack')
      BY <1>2, <3>1, CalleeAreaIs
    <3>3. OnSaved(stack)'
      BY <1>1, <1>3, <3>2 DEF OnSaved
    <3>4. QED
      BY <1>3, <3>1, <3>3 DEF CallStack, MovesOf
  <2>2. CASE CaptureResult \/ EndCapture
    <3>1. stack' = stack /\ pc = "capture" /\ pc' \in {"capture", "cleanup"} /\ OnSaved(stack)
      BY <2>2 DEF CaptureResult, EndCapture, CallBefore, CallStack
    <3>2. OnSaved(stack)'
      BY <1>1, <1>3, <3>1 DEF OnSaved
    <3>3. QED
      BY <3>1, <3>2 DEF CallStack, MovesOf
  <2>3. CASE DropArea
    <3>1. /\ pc' = "restore" /\ stack' = Drop(stack, call_area_words(site))
          /\ StackOn(stack, SavedLayer, call_area_words(site))
      BY <2>3 DEF DropArea, Drop, CallBefore, CallStack, OnSaved
    <3>2. stack' = SavedLayer
      BY <3>1, DropOn
    <3>3. QED
      BY <1>3, <3>1, <3>2 DEF CallStack, MovesOf
  <2>4. CASE emit_call_restores
    <3>1. pc' = "reload" /\ stack = SavedLayer /\ stack' = Drop(stack, Len(CallOrder))
      BY <2>4 DEF emit_call_restores, CallBefore, CallStack, CallOrder
    <3>2. stack' = << >>
      BY <1>2, <3>1, CallLayer, DropOn DEF Lies
    <3>3. QED
      BY <3>1, <3>2 DEF CallStack, MovesOf
  <2>5. CASE ReloadResult \/ EndCall
    BY <2>5 DEF ReloadResult, EndCall, CallStack, MovesOf, CallBefore
  <2>6. QED
    BY <2>1, <2>2, <2>3, <2>4, <2>5
<1>6. QED
  BY <1>4, <1>5 DEF CallBefore

\* The steps of a function are no steps of a call.
LEMMA NoCallIn ==
    ASSUME FrameInv, CallBefore, FrameStep
    PROVE  CallBefore' /\ pc' \notin {"capture", "cleanup", "restore", "reload", "end"}
<1>0. ASSUME Body PROVE site' = site /\ pc = "body" /\ pc' \in {"ret", "tail", "ntail"}
  <2>1. \E F \in Fns : fn \in F
    BY <1>0 DEF Body, FrameInv, FrameBegins
  <2>2. fn.exit \in {"ret", "tail", "ntail"}
    BY <2>1, FnsAssumption
  <2>3. QED
    BY <1>0, <2>2 DEF Body, siteVars
<1>1. /\ site' = site /\ pc' \notin {"saves", "area", "args"}
      /\ pc' \notin {"capture", "cleanup", "restore", "reload", "end"}
      /\ pc \in {"prologue", "params", "body", "ret", "outs", "retmoves", "tail", "ntail",
                 "ntailargs", "epilogue"} \/ (pc = "placed" /\ site = NoSite)
  <2>1. ASSUME Prologue \/ EntryMove \/ EndParams
        PROVE  site' = site /\ pc \in {"prologue", "params"} /\ pc' \in {"params", "body"}
    BY <2>1 DEF Prologue, EntryMove, EndParams, siteVars
  <2>2. ASSUME StackReturn \/ TailArgs \/ PopOut \/ EndOut
        PROVE  site' = site /\ pc \in {"ret", "tail", "outs"} /\ pc' \in {"outs", "epilogue"}
    BY <2>2 DEF StackReturn, TailArgs, PushOut, PopOut, EndOut, siteVars
  <2>3. ASSUME PlanReturn \/ ReturnMove \/ EndReturn
        PROVE  site' = site /\ pc \in {"ret", "retmoves"} /\ pc' \in {"retmoves", "epilogue"}
    BY <2>3 DEF PlanReturn, ReturnMove, EndReturn, siteVars
  <2>4. ASSUME StartTail \/ TailMoves
        PROVE  site' = site /\ pc \in {"ntail", "ntailargs"} /\ pc' \in {"ntailargs", "moves"}
    BY <2>4 DEF StartTail, TailMoves, StartMoves, siteVars
  <2>5. ASSUME PopTarget
        PROVE  site' = site /\ pc = "placed" /\ site = NoSite /\ pc' = "epilogue"
    BY <2>5 DEF PopTarget, siteVars
  <2>6. ASSUME emit_epilogue PROVE site' = site /\ pc = "epilogue" /\ pc' = "exit"
    BY <2>6 DEF emit_epilogue
  <2>7. QED
    BY <1>0, <2>1, <2>2, <2>3, <2>4, <2>5, <2>6 DEF FrameStep
<1>2. site = NoSite
  BY <1>1 DEF CallBefore, SiteAt, InFunction, Within
<1>4. QED
  BY <1>1, <1>2 DEF CallBefore, SiteAt, CallStack, CallStart, MovesOf, Returns

\* The stack and the site, through every step.
LEMMA CallBeforeStep ==
    ASSUME FrameInv, CallBefore, [Next]_fvars
    PROVE  CallBefore'
<1>1. CASE UNCHANGED fvars
  <2>1. UNCHANGED <<pc, stack, regs, mem, call, moves, base, site>>
    BY <1>1 DEF fvars, vars, siteVars, moveVars
  <2>2. SavedLayer' = SavedLayer /\ CallRegs' = CallRegs /\ CallMem' = CallMem
    BY <2>1, SiteKept DEF CallRegs, CallMem
  <2>3. CallStack'
    BY <2>1, <2>2 DEF CallBefore, CallStack, MovesOf, OnSaved
  <2>4. SiteAt' /\ CallStart'
    BY <2>1, <2>2 DEF CallBefore, SiteAt, CallStart, MovesOf, ArgsPushed, Returns, InFunction, Within
  <2>5. QED
    BY <2>3, <2>4 DEF CallBefore
<1>2. CASE SiteStep
  BY <1>2, CallPrepared, CallMoves, CallReturns DEF SiteStep, CallNext
<1>3. CASE FrameStep
  BY <1>3, NoCallIn
<1>4. QED
  BY <1>1, <1>2, <1>3 DEF Next

\* The target stays what it was when it was read.
LEMMA TargetStays ==
    ASSUME FrameInv, CallBefore, Reached, [Next]_fvars
    PROVE  Reached'
<1>1. CASE EmitCall
  BY <1>1, TargetRead
<1>2. CASE CaptureResult
  BY <1>2 DEF CaptureResult, Reached
<1>3. CASE UNCHANGED fvars
  BY <1>3 DEF fvars, vars, siteVars, Reached
<1>4. CASE SiteStep /\ ~EmitCall /\ ~CaptureResult
  <2>1. ASSUME emit_call_saves \/ PushArea \/ MoveArgs PROVE pc' # "capture"
    BY <2>1 DEF emit_call_saves, PushArea, MoveArgs, StartMoves
  <2>2. ASSUME SiteMoves PROVE pc' # "capture"
    BY <2>2, MoveStepKeeps DEF SiteMoves, FrameInv
  <2>3. ASSUME EndCapture \/ DropArea \/ emit_call_restores \/ ReloadResult \/ EndCall
        PROVE  pc' # "capture"
    BY <2>3 DEF EndCapture, DropArea, emit_call_restores, ReloadResult, EndCall
  <2>4. QED
    BY <1>4, <2>1, <2>2, <2>3 DEF SiteStep, CallNext, Reached
<1>5. CASE FrameStep
  BY <1>5, NoCallIn DEF Reached
<1>6. QED
  BY <1>1, <1>2, <1>3, <1>4, <1>5 DEF Next

\* The stack arguments lie in the area when the callee is entered.
LEMMA AreaInPlace ==
    ASSUME FrameInv, CallBefore
    PROVE  StackArgsInPlace
<1>1. SUFFICES ASSUME pc = "placed", site.op # "jump" PROVE ArgsPushed(stack)
  BY DEF StackArgsInPlace, ArgsPushed
<1>2. site # NoSite
  BY <1>1 DEF NoSite
<1>3. QED
  BY <1>1, <1>2, PlacedIs

\* What is called is what the operand of the call named, with the stack arguments in the
\* area where the callee's parameters have their offsets (EmitCall after the moves).
THEOREM CalleeIsEntered == Spec => []CalleeEntered
<1>1. Init => FrameInv /\ CallBefore /\ Reached
  <2>1. Init => Reached
    BY DEF Init, CallInit, FrameInit, Reached
  <2>2. QED
    BY <2>1, InitHolds, NoCallYet
<1>2. FrameInv /\ CallBefore /\ Reached /\ [Next]_fvars => FrameInv' /\ CallBefore' /\ Reached'
  BY InvStep, CallBeforeStep, TargetStays
<1>3. FrameInv /\ CallBefore /\ Reached => CalleeEntered
  BY AreaInPlace DEF CalleeEntered, Reached, TargetReached
<1>4. QED
  BY <1>1, <1>2, <1>3, PTL DEF Spec

-----------------------------------------------------------------------------
(* What is written after the call. *)

\* Only bytes of the registers S differ.
Outside(S, rf, rg) ==
    /\ RegFile(rg)
    /\ \A w \in Wide : (\A c \in S : PushReg(c) # w) => rg[w] = rf[w]
    /\ \A w \in Wide, h \in 1 .. 2 : (\A c \in S : ~Part(c, w, h)) => rg[w][h] = rf[w][h]

\* Writing a register, or a half of one.
LEMMA PutOutside ==
    ASSUME NEW rf, RegFile(rf), NEW r, r \in Reg, NEW w, DOMAIN w = 1 .. 2,
           NEW rg, rg = PutPlace(rf, r, w)
    PROVE  /\ Outside({r}, rf, rg) /\ Byte(rg, r) = w[1]
           /\ r \in Wide => rg[r] = w
<1>1. CASE r \in ByteRegs
  <2>1. rg = Put8(rf, r, w[1]) /\ r \notin Wide /\ PushReg(r) \in Wide /\ Half(r) \in 1 .. 2
    BY <1>1, BytesOf, Kinds DEF PutPlace
  <2>2. /\ DOMAIN rg = Wide
        /\ \A q \in Wide : DOMAIN rg[q] = 1 .. 2 /\ (q # PushReg(r) => rg[q] = rf[q])
        /\ \A h \in 1 .. 2 : rg[PushReg(r)][h] = IF h = Half(r) THEN w[1] ELSE rf[PushReg(r)][h]
    BY <1>1, <2>1, PutEffect
  <2>3. Byte(rg, r) = w[1]
    BY <1>1, <2>1, <2>2 DEF Byte
  <2>4. Outside({r}, rf, rg)
    BY <1>1, <2>1, <2>2 DEF Outside, RegFile, Part
  <2>5. QED
    BY <2>1, <2>3, <2>4
<1>2. CASE r \notin ByteRegs
  <2>1. rg = Put16(rf, r, w) /\ r \in Wide /\ PushReg(r) = r
    BY <1>2, Kinds DEF PutPlace
  <2>2. RegFile(rg) /\ rg[r] = w /\ \A q \in Wide : q # r => rg[q] = rf[q]
    BY <2>1, PutWide
  <2>3. Byte(rg, r) = w[1]
    BY <1>2, <2>1, <2>2 DEF Byte, Word
  <2>4. Outside({r}, rf, rg)
    BY <1>2, <2>1, <2>2 DEF Outside, Part
  <2>5. QED
    BY <2>2, <2>3, <2>4
<1>3. QED
  BY <1>1, <1>2

\* Writing one after the other.
LEMMA OutsideBoth ==
    ASSUME NEW S, NEW T, NEW rf, NEW rg, NEW rh, Outside(S, rf, rg), Outside(T, rg, rh),
           NEW U, S \cup T \subseteq U
    PROVE  Outside(U, rf, rh)
<1>1. RegFile(rh)
  BY DEF Outside
<1>2. ASSUME NEW w \in Wide, \A c \in U : PushReg(c) # w PROVE rh[w] = rf[w]
  BY <1>2 DEF Outside
<1>3. ASSUME NEW w \in Wide, NEW h \in 1 .. 2, \A c \in U : ~Part(c, w, h) PROVE rh[w][h] = rf[w][h]
  BY <1>3 DEF Outside
<1>4. QED
  BY <1>1, <1>2, <1>3 DEF Outside

\* A half of AX is part of AX.
LEMMA OutsideAX ==
    ASSUME NEW rf, NEW rg, Outside({"AL"}, rf, rg)
    PROVE  Outside({"AX"}, rf, rg)
<1>1. PushReg("AL") = "AX" /\ PushReg("AX") = "AX" /\ "AX" \in Wide /\ "AX" \notin ByteRegs
  BY Kinds
<1>2. \A w, h : Part("AL", w, h) => Part("AX", w, h)
  BY <1>1 DEF Part
<1>3. QED
  BY <1>1, <1>2 DEF Outside

\* A word stored to the frame changes nothing else in it.
LEMMA StoreOnly ==
    ASSUME DOMAIN mem = Spilled \cup {"temp"}, \A h \in Spilled \cup {"temp"} : DOMAIN mem[h] = 1 .. 2,
           NEW a, a \in Spilled \cup {"temp"}, NEW w, DOMAIN w = 1 .. 2,
           NEW m, m = Store(regs, mem, a, w)
    PROVE  /\ DOMAIN m = Spilled \cup {"temp"}
           /\ \A h \in Spilled \cup {"temp"} : DOMAIN m[h] = 1 .. 2 /\ (h # a => m[h] = mem[h])
           /\ regs["BP"] = FrameBP => m[a][1] = w[1] /\ (a \notin SpilledBytes => m[a][2] = w[2])
<1>1. CASE regs["BP"] # FrameBP
  BY <1>1 DEF Store
<1>2. CASE regs["BP"] = FrameBP /\ a \in SpilledBytes
  <2>1. m = [mem EXCEPT ![a][1] = w[1]]
    BY <1>2 DEF Store
  <2>2. m[a] = [mem[a] EXCEPT ![1] = w[1]] /\ DOMAIN mem[a] = 1 .. 2
    BY <2>1
  <2>3. DOMAIN m[a] = 1 .. 2 /\ m[a][1] = w[1]
    BY <2>2
  <2>4. QED
    BY <1>2, <2>1, <2>3
<1>3. CASE regs["BP"] = FrameBP /\ a \notin SpilledBytes
  <2>1. m = [mem EXCEPT ![a] = w]
    BY <1>3 DEF Store
  <2>2. QED
    BY <1>3, <2>1
<1>4. QED
  BY <1>1, <1>2, <1>3

\* The frame of a call, its temp slot included.
CallFile == /\ RegFile(regs) /\ DOMAIN mem = Spilled \cup {"temp"}
            /\ \A h \in Spilled \cup {"temp"} : DOMAIN mem[h] = 1 .. 2

\* The word taken for result k.
TakenWord(k) ==
    IF site.rets[k].exp = STACK THEN stack[AreaIndex(site, k)] ELSE ReadPlace(regs, site.rets[k].exp)

\* Capturing a result.
LEMMA CaptureIs ==
    ASSUME CaptureResult, CallBefore, CallFile, ri \in Nat \ {0},
           NEW a, a = site.rets[ri].act, NEW w, w = TakenWord(ri)
    PROVE  /\ ri \in DOMAIN site.rets /\ DOMAIN w = 1 .. 2
           /\ Outside(CaptureWrites(site, ri), regs, regs')
           /\ mem' = IF ViaTemp(site, ri) THEN Store(regs, mem, "temp", w)
                     ELSE IF a \in Spilled THEN Store(regs, mem, a, w) ELSE mem
           /\ ~ViaTemp(site, ri) /\ a \in Reg => Byte(regs', a) = w[1] /\ (a \in Wide => regs'[a] = w)
           /\ temp_ret' = IF ViaTemp(site, ri) THEN temp_ret \cup {ri} ELSE temp_ret
<1>1. /\ pc = "capture" /\ ri <= Len(site.rets) /\ \E F \in Sites : site \in F
      /\ OnSaved(stack)
  BY DEF CaptureResult, CallBefore, SiteAt, Returns, CallStack
<1>2. ri \in DOMAIN site.rets
  <2>1. site.rets \in Seq([exp : Reg \cup {STACK}, act : Reg \cup Spilled])
    BY <1>1, SitesAssumption
  <2>2. DOMAIN site.rets = 1 .. Len(site.rets)
    BY <2>1
  <2>3. QED
    BY <1>1, <2>2
<1>3. PICK e : /\ e = site.rets[ri].exp /\ e \in Reg \cup {STACK} /\ a \in Reg \cup Spilled
               /\ STACK \notin Reg
  BY <1>1, <1>2, RetIs
<1>4. DOMAIN w = 1 .. 2
  <2>1. CASE e = STACK
    <3>1. AreaIndex(site, ri) \in 1 .. call_area_words(site)
      BY <1>1, <1>2, <1>3, <2>1, AreaIndexIs DEF StackRets
    <3>2. QED
      BY <1>1, <1>3, <2>1, <3>1 DEF OnSaved, StackOn, TakenWord
  <2>2. CASE e \in ByteRegs
    <3>1. w = <<Byte(regs, e), Junk>>
      BY <1>3, <2>2, Kinds DEF TakenWord, ReadPlace
    <3>2. QED
      BY <3>1
  <2>3. CASE e \in Wide
    BY <1>3, <2>3, Kinds DEF TakenWord, ReadPlace, CallFile, RegFile
  <2>4. QED
    BY <1>3, <2>1, <2>2, <2>3, Kinds
<1>5. a \in Preg <=> a \in Reg
  BY <1>3, SourcesAssumption DEF Reg
<1>6. PICK t : t = ViaTemp(site, ri)
  OBVIOUS
<1>7. /\ t <=> /\ e # STACK /\ a \in Preg
               /\ call_saved_restores_reg(site, ret_capture_restore_reg(a))
      /\ temp_ret' = IF t THEN temp_ret \cup {ri} ELSE temp_ret
  BY <1>3, <1>6 DEF CaptureResult, ViaTemp
<1>8. CASE e = STACK /\ a \in Spilled
  <2>1. PICK rf : rf = Put16(regs, "BX", Unknown)
    OBVIOUS
  <2>2. /\ regs' = IF a \in SpilledBytes THEN Put8(rf, "AL", w[1]) ELSE Put16(rf, "AX", w)
        /\ mem' = Store(regs, mem, a, w)
    BY <1>3, <1>8, <2>1 DEF CaptureResult, rins_load_call_slot, TakenWord
  <2>3. "BX" \in Wide /\ "BX" \notin ByteRegs /\ "BX" \in Reg /\ "AX" \in Reg /\ "AX" \notin ByteRegs
        /\ "AL" \in ByteRegs /\ "AL" \in Reg /\ DOMAIN Unknown = 1 .. 2
    BY Kinds DEF Wide, WordRegs, ByteRegs, Unknown
  <2>4. Outside({"BX"}, regs, rf) /\ RegFile(rf)
    BY <2>1, <2>3, PutOutside DEF PutPlace, CallFile, Outside
  <2>5. Outside({"AX"}, rf, regs')
    <3>1. CASE a \in SpilledBytes
      BY <1>4, <2>2, <2>3, <2>4, <3>1, PutOutside, OutsideAX DEF PutPlace
    <3>2. CASE a \notin SpilledBytes
      BY <1>4, <2>2, <2>3, <2>4, <3>2, PutOutside DEF PutPlace
    <3>3. QED
      BY <3>1, <3>2
  <2>6. CaptureWrites(site, ri) = {"BX", "AX"}
    BY <1>3, <1>5, <1>8, Kinds DEF CaptureWrites
  <2>7. Outside(CaptureWrites(site, ri), regs, regs')
    BY <2>4, <2>5, <2>6, OutsideBoth
  <2>8. QED
    BY <1>2, <1>3, <1>4, <1>6, <1>7, <1>8, <2>2, <2>7, Kinds
<1>9. CASE e = STACK /\ a \in Reg
  <2>1. PICK rf : rf = Put16(regs, "BX", Unknown)
    OBVIOUS
  <2>2. regs' = PutPlace(rf, a, w) /\ mem' = mem
    BY <1>3, <1>9, <2>1, Kinds DEF CaptureResult, rins_load_call_slot, TakenWord
  <2>3. "BX" \notin ByteRegs /\ "BX" \in Reg /\ DOMAIN Unknown = 1 .. 2
    BY Kinds DEF Wide, WordRegs, ByteRegs, Unknown
  <2>4. Outside({"BX"}, regs, rf) /\ RegFile(rf)
    BY <2>1, <2>3, PutOutside DEF PutPlace, CallFile, Outside
  <2>5. Outside({a}, rf, regs') /\ Byte(regs', a) = w[1] /\ (a \in Wide => regs'[a] = w)
    BY <1>4, <1>9, <2>2, <2>4, PutOutside
  <2>6. CaptureWrites(site, ri) = {"BX", a}
    BY <1>3, <1>5, <1>6, <1>7, <1>9, Kinds DEF CaptureWrites
  <2>7. Outside(CaptureWrites(site, ri), regs, regs')
    BY <2>4, <2>5, <2>6, OutsideBoth
  <2>8. QED
    BY <1>2, <1>3, <1>4, <1>6, <1>7, <1>9, <2>2, <2>5, <2>7, Kinds
<1>10. CASE e # STACK /\ t
  <2>1. mem' = Store(regs, mem, "temp", w) /\ regs' = regs
    BY <1>3, <1>7, <1>10 DEF CaptureResult, TakenWord
  <2>2. Outside(CaptureWrites(site, ri), regs, regs')
    BY <2>1 DEF Outside, CallFile
  <2>3. QED
    BY <1>2, <1>4, <1>6, <1>7, <1>10, <2>1, <2>2
<1>11. CASE e # STACK /\ ~t /\ a \in Spilled
  <2>1. mem' = Store(regs, mem, a, w) /\ regs' = regs
    BY <1>3, <1>7, <1>11 DEF CaptureResult, TakenWord
  <2>2. Outside(CaptureWrites(site, ri), regs, regs')
    BY <2>1 DEF Outside, CallFile
  <2>3. QED
    BY <1>2, <1>4, <1>6, <1>7, <1>11, <2>1, <2>2, Kinds
<1>12. CASE e # STACK /\ ~t /\ a \in Reg
  <2>1. regs' = PutPlace(regs, a, w) /\ mem' = mem
    BY <1>3, <1>7, <1>12, Kinds DEF CaptureResult, TakenWord
  <2>2. Outside({a}, regs, regs') /\ Byte(regs', a) = w[1] /\ (a \in Wide => regs'[a] = w)
    BY <1>4, <1>12, <2>1, PutOutside DEF CallFile
  <2>3. CaptureWrites(site, ri) = {a}
    BY <1>3, <1>5, <1>6, <1>7, <1>12 DEF CaptureWrites
  <2>4. QED
    BY <1>2, <1>3, <1>4, <1>6, <1>7, <1>12, <2>1, <2>2, <2>3, Kinds
<1>13. QED
  BY <1>3, <1>8, <1>9, <1>10, <1>11, <1>12

-----------------------------------------------------------------------------
(* What a call must leave alone. *)

Restored == pc \in {"reload", "end"}
Survives(v) == \A w \in Wide, h \in 1 .. 2 : Part(v, w, h) => regs[w][h] = Orig(w, h)

\* The results are counted, and those kept in the temp slot are known.
Counting ==
    /\ CallFile
    /\ pc \in {"capture", "reload"} => ri \in 1 .. Len(site.rets) + 1
    /\ temp_ret = {k \in DOMAIN site.rets : ViaTemp(site, k) /\ (pc = "capture" => k < ri)}
SlotsStay == \A h \in Spilled \ ActsOf(site) : mem[h] = CallMem[h]
\* Until the restores, those that are not pushed.
LivesStay ==
    ~ScratchOverLive(site) =>
        \A k \in DOMAIN site.live :
            Restored \/ PushReg(site.live[k]) \notin ToSet(CallOrder) => Survives(site.live[k])
FrameStays ==
    site.frame /\ (IF Restored THEN ~FramePointerArg(site) ELSE ~BPLost(site)) => regs["BP"] = FrameBP
FlagsStay ==
    site.flags => \/ flags = "callee"
                  \/ /\ pc \in {"restore", "reload", "end"}
                     /\ call_area_words(site) > 0 /\ BPLost(site)
CallAfter == Returns => Counting /\ SlotsStay /\ LivesStay /\ FrameStays /\ FlagsStay

\* Live registers share nothing with the places of the results, nor does BP in a frame.
LEMMA LiveIs ==
    ASSUME \E F \in Sites : site \in F, NEW j, j \in DOMAIN site.rets, NEW a, a = site.rets[j].act
    PROVE  /\ \A k \in DOMAIN site.live : site.live[k] \in Reg
           /\ a \in Reg => \A k \in DOMAIN site.live : ~pregs_alias(site.live[k], a)
           /\ a \in Reg /\ site.frame => PushReg(a) # "BP"
<1>1. site.live \in Seq(Reg) /\ Allocated(site)
  BY SitesAssumption
<1>2. ASSUME NEW k \in DOMAIN site.live PROVE site.live[k] \in Reg /\ site.live[k] \in ToSet(site.live)
  BY <1>1 DEF ToSet
<1>3. a \in ActsOf(site)
  BY DEF ActsOf
<1>4. ASSUME NEW k \in DOMAIN site.live PROVE ~pregs_alias(site.live[k], a)
  <2>1. site.live[k] \in ToSet(site.live) /\ site.live[k] # a
    BY <1>1, <1>2, <1>3, <1>4 DEF Allocated
  <2>2. QED
    BY <1>1, <1>3, <2>1 DEF Allocated, Apart
<1>5. ASSUME a \in Reg, site.frame PROVE PushReg(a) # "BP"
  <2>1. a # "BP"
    BY <1>1, <1>3, <1>5 DEF Allocated
  <2>2. QED
    BY <1>5, <2>1, Kinds
<1>6. QED
  BY <1>2, <1>4, <1>5

\* What capturing a result writes.
LEMMA WritesAre ==
    ASSUME \E F \in Sites : site \in F, NEW j, j \in DOMAIN site.rets,
           NEW c, c \in CaptureWrites(site, j)
    PROVE  \/ c = site.rets[j].act /\ c \in Reg
           \/ c = "BX" /\ j \in StackRets(site)
           \/ c = "AX" /\ j \in StackRets(site) /\ site.rets[j].act \in Spilled
<1>1. site.rets[j].act \in Reg \cup Spilled
  BY RetIs
<1>2. site.rets[j].act \in Preg => site.rets[j].act \in Reg
  BY <1>1, SourcesAssumption DEF Reg
<1>3. QED
  BY <1>2 DEF CaptureWrites, StackRets

\* Capturing a result spares the live registers that are not pushed, and the frame pointer.
LEMMA CaptureSpares ==
    ASSUME \E F \in Sites : site \in F, NEW j, j \in DOMAIN site.rets,
           NEW c, c \in CaptureWrites(site, j)
    PROVE  /\ site.frame => PushReg(c) # "BP"
           /\ ~ScratchOverLive(site) => \A k \in DOMAIN site.live :
                 PushReg(site.live[k]) \notin ToSet(CallOrder) =>
                     \A w \in Wide, h \in 1 .. 2 : ~(Part(site.live[k], w, h) /\ Part(c, w, h))
<1>1. PushReg("BX") = "BX" /\ PushReg("AX") = "AX"
  BY Kinds DEF Wide, WordRegs
<1>2. CASE c = site.rets[j].act /\ c \in Reg
  <2>1. \A k \in DOMAIN site.live : site.live[k] \in Reg /\ ~pregs_alias(site.live[k], c)
    BY <1>2, LiveIs
  <2>2. \A k \in DOMAIN site.live, w \in Wide, h \in 1 .. 2 : ~(Part(site.live[k], w, h) /\ Part(c, w, h))
    BY <1>2, <2>1, PartsAlias
  <2>3. QED
    BY <1>2, <2>2, LiveIs
<1>3. CASE c = "BX" /\ j \in StackRets(site)
  <2>1. ASSUME NEW k \in DOMAIN site.live, PushReg(site.live[k]) \notin ToSet(CallOrder)
        PROVE  PushReg(site.live[k]) # "BX"
    BY <1>3, <2>1, NotPushed
  <2>2. QED
    BY <1>1, <1>3, <2>1 DEF Part
<1>4. CASE c = "AX" /\ j \in StackRets(site) /\ site.rets[j].act \in Spilled
  <2>1. ASSUME ~ScratchOverLive(site), NEW k \in DOMAIN site.live,
               PushReg(site.live[k]) \notin ToSet(CallOrder)
        PROVE  PushReg(site.live[k]) # "AX"
    <3>1. ~Clobbered(site, site.live[k])
      BY <2>1, NotPushed
    <3>2. site.live[k] \in ToSet(site.live)
      BY DEF ToSet
    <3>3. QED
      BY <1>4, <2>1, <3>1, <3>2 DEF ScratchOverLive
  <2>2. QED
    BY <1>1, <1>4, <2>1 DEF Part
<1>5. QED
  BY <1>2, <1>3, <1>4, WritesAre

\* The properties of the site are the same after a step.
LEMMA SameSite ==
    ASSUME site' = site
    PROVE  /\ (ScratchOverLive(site)' <=> ScratchOverLive(site))
           /\ (BPLost(site)' <=> BPLost(site)) /\ (FramePointerArg(site)' <=> FramePointerArg(site))
           /\ CallOrder' = CallOrder /\ ActsOf(site)' = ActsOf(site) /\ CallMem' = CallMem
           /\ call_area_words(site)' = call_area_words(site)
           /\ \A k : (ViaTemp(site, k)' <=> ViaTemp(site, k)) /\ (ResultLost(site, k)' <=> ResultLost(site, k))
  BY SiteKept DEF CallMem

\* What is kept while results are captured.
LEMMA AfterCapture ==
    ASSUME FrameInv, CallBefore, CallAfter, CaptureResult
    PROVE  CallAfter'
<1>1. /\ pc = "capture" /\ pc' = "capture" /\ ri' = ri + 1 /\ site' = site /\ flags' = flags
      /\ Counting /\ SlotsStay /\ LivesStay /\ FrameStays /\ FlagsStay /\ ~Restored /\ ~Restored'
      /\ \E F \in Sites : site \in F
  BY DEF CaptureResult, CallAfter, Returns, Restored, CallBefore, SiteAt
<1>2. CallFile /\ ri \in Nat \ {0}
  BY <1>1 DEF Counting
<1>3. PICK a, w : a = site.rets[ri].act /\ w = TakenWord(ri)
  OBVIOUS
<1>4. /\ ri \in DOMAIN site.rets /\ DOMAIN w = 1 .. 2
      /\ Outside(CaptureWrites(site, ri), regs, regs')
      /\ mem' = IF ViaTemp(site, ri) THEN Store(regs, mem, "temp", w)
                ELSE IF a \in Spilled THEN Store(regs, mem, a, w) ELSE mem
      /\ temp_ret' = IF ViaTemp(site, ri) THEN temp_ret \cup {ri} ELSE temp_ret
  BY <1>2, <1>3, CaptureIs
<1>5. /\ DOMAIN site.rets = 1 .. Len(site.rets) /\ Len(site.rets) \in Nat /\ a \in ActsOf(site)
      /\ "temp" \notin Spilled
  BY <1>1, <1>3, <1>4, RetIs, SourcesAssumption
<1>6. /\ DOMAIN mem' = Spilled \cup {"temp"}
      /\ \A h \in Spilled \cup {"temp"} : DOMAIN mem'[h] = 1 .. 2 /\ (h \in {"temp", a} \/ mem'[h] = mem[h])
  <2>1. CASE ViaTemp(site, ri)
    <3>1. mem' = Store(regs, mem, "temp", w)
      BY <1>4, <2>1
    <3>2. QED
      BY <1>2, <1>4, <3>1, StoreOnly DEF CallFile
  <2>2. CASE ~ViaTemp(site, ri) /\ a \in Spilled
    <3>1. mem' = Store(regs, mem, a, w)
      BY <1>4, <2>2
    <3>2. QED
      BY <1>2, <1>4, <2>2, <3>1, StoreOnly DEF CallFile
  <2>3. CASE ~ViaTemp(site, ri) /\ a \notin Spilled
    BY <1>2, <1>4, <2>3 DEF CallFile
  <2>4. QED
    BY <2>1, <2>2, <2>3
<1>7. Counting'
  <2>1. CallFile'
    BY <1>4, <1>6 DEF CallFile, Outside
  <2>2. ri' \in 1 .. Len(site.rets) + 1
    BY <1>1, <1>4, <1>5
  <2>3. temp_ret' = {k \in DOMAIN site.rets : ViaTemp(site, k) /\ k < ri'}
    <3>1. temp_ret = {k \in DOMAIN site.rets : ViaTemp(site, k) /\ k < ri}
      BY <1>1 DEF Counting
    <3>2. \A k \in DOMAIN site.rets : k < ri' <=> k < ri \/ k = ri
      BY <1>1, <1>2, <1>5
    <3>3. QED
      BY <1>4, <3>1, <3>2
  <2>4. QED
    BY <1>1, <2>1, <2>2, <2>3, SameSite DEF Counting
<1>8. SlotsStay'
  BY <1>1, <1>5, <1>6, SameSite DEF SlotsStay
<1>9. LivesStay'
  <2>1. SUFFICES ASSUME ~ScratchOverLive(site), NEW k \in DOMAIN site.live,
                        PushReg(site.live[k]) \notin ToSet(CallOrder)
                 PROVE  Survives(site.live[k])'
    BY <1>1, SameSite DEF LivesStay
  <2>2. Survives(site.live[k])
    BY <1>1, <2>1 DEF LivesStay
  <2>3. ASSUME NEW x \in Wide, NEW h \in 1 .. 2, Part(site.live[k], x, h) PROVE regs'[x][h] = regs[x][h]
    <3>1. \A c \in CaptureWrites(site, ri) : ~Part(c, x, h)
      BY <1>1, <1>4, <2>1, <2>3, CaptureSpares
    <3>2. QED
      BY <1>4, <3>1 DEF Outside
  <2>4. QED
    BY <1>1, <2>2, <2>3 DEF Survives
<1>10. FrameStays'
  <2>1. ASSUME site.frame PROVE regs'["BP"] = regs["BP"]
    <3>1. \A c \in CaptureWrites(site, ri) : PushReg(c) # "BP"
      BY <1>1, <1>4, <2>1, CaptureSpares
    <3>2. QED
      BY <1>4, <3>1, Kinds DEF Outside
  <2>2. QED
    BY <1>1, <2>1, SameSite DEF FrameStays
<1>11. FlagsStay'
  BY <1>1, SameSite DEF FlagsStay
<1>12. QED
  BY <1>7, <1>8, <1>9, <1>10, <1>11 DEF CallAfter

\* The far pointer is addressed through a word register.
LEMMA ScratchIs ==
    ASSUME NEW s, NEW r, r = icall_far_pointer_scratch(s)
    PROVE  r \in Wide
<1>1. PICK order : order = <<"BX", "SI", "DI", "BP">>
  OBVIOUS
<1>2. PICK ok : ok = {k \in DOMAIN order : \A a \in ToSet(RegArgs(s)) : ~pregs_alias(order[k], a.dst)}
  OBVIOUS
<1>3. r = IF ok = {} THEN "BX" ELSE order[Lowest(ok)]
  BY <1>1, <1>2 DEF icall_far_pointer_scratch
<1>4. DOMAIN order = 1 .. 4 /\ \A k \in 1 .. 4 : order[k] \in Wide
  BY <1>1 DEF Wide, WordRegs
<1>5. "BX" \in Wide
  BY DEF Wide, WordRegs
<1>6. ok \subseteq 1 .. 4 /\ ok \subseteq Nat
  BY <1>2, <1>4
<1>7. ok # {} => Lowest(ok) \in ok
  BY ONLY <1>6, LowestIs
<1>8. QED
  BY <1>3, <1>4, <1>5, <1>6, <1>7

\* The registers after the call instruction.
LEMMA AfterInstruction ==
    ASSUME FrameInv, CallBefore, EmitCall
    PROVE  /\ \E F \in Sites : site \in F
           /\ RegFile(regs')
           /\ \A w \in Wide : w \in site.preserves => \A h \in 1 .. 2 : regs'[w][h] = regs[w][h]
           /\ "BP" \in site.preserves /\ regs["BP"] = FrameBP => regs'["BP"] = FrameBP
           /\ \A k \in DOMAIN site.rets : AtExp(regs', k) \/ ScratchPopped(site, k)
           /\ site.flags => flags' = "callee"
<1>1. pc = "placed" /\ site # NoSite
  BY DEF EmitCall, NoSite
<1>2. (\E F \in Sites : site \in F) /\ RegFile(regs)
  BY <1>1, PlacedIs DEF CallBefore, SiteAt, MovesOf
<1>3. PICK rg : rg = Callee(regs)
  OBVIOUS
<1>4. PICK s : s = icall_far_pointer_scratch(site)
  OBVIOUS
<1>5. s \in Wide
  BY <1>4, ScratchIs
<1>6. PICK popped : popped = (site.op = "icall" /\ ~(needs_call_temp(site) /\ site.flags))
  OBVIOUS
<1>7. /\ regs' = IF popped THEN Put16(rg, s, regs[s]) ELSE rg
      /\ flags' = IF popped THEN "junk" ELSE "callee"
  BY <1>3, <1>4, <1>6 DEF EmitCall
<1>8. popped => site.op = "icall" /\ ~site.flags
  BY <1>6 DEF needs_call_temp
<1>9. /\ RegFile(rg)
      /\ \A w \in Wide : w \in site.preserves => \A h \in 1 .. 2 : rg[w][h] = regs[w][h]
      /\ "BP" \in site.preserves /\ regs["BP"] = FrameBP => rg["BP"] = FrameBP
      /\ \A k \in DOMAIN site.rets : AtExp(rg, k)
  BY <1>2, <1>3, CalleeIs
<1>10. ASSUME popped
       PROVE  RegFile(regs') /\ regs'[s] = regs[s] /\ \A q \in Wide : q # s => regs'[q] = rg[q]
  <2>1. DOMAIN regs[s] = 1 .. 2
    BY <1>2, <1>5 DEF RegFile
  <2>2. regs' = Put16(rg, s, regs[s])
    BY <1>7, <1>10
  <2>3. PICK w : w = regs[s]
    OBVIOUS
  <2>4. RegFile(rg)
    BY <1>9
  <2>5. RegFile(Put16(rg, s, w)) /\ Put16(rg, s, w)[s] = w
        /\ \A q \in Wide : q # s => Put16(rg, s, w)[q] = rg[q]
    BY ONLY <1>5, <2>1, <2>3, <2>4, PutWide
  <2>6. QED
    BY <2>2, <2>3, <2>5
<1>11. ASSUME popped, NEW k \in DOMAIN site.rets, ~ScratchPopped(site, k)
       PROVE  AtExp(regs', k)
  <2>1. PICK e : e = site.rets[k].exp /\ e \in Reg \cup {STACK} /\ AtExp(rg, k)
    BY <1>2, <1>9, <1>11, RetIs
  <2>2. CASE e = STACK
    BY <2>1, <2>2 DEF AtExp
  <2>3. CASE e \in Reg
    <3>1. PushReg(e) # s
      <4>1. ~pregs_alias(s, e)
        BY <1>4, <1>8, <1>11, <2>1 DEF ScratchPopped
      <4>2. s \in Reg /\ PushReg(s) = s /\ s \notin ByteRegs
        BY <1>5, Kinds
      <4>3. QED
        BY <2>3, <4>1, <4>2, Sharing
    <3>2. regs'[PushReg(e)] = rg[PushReg(e)]
      BY <1>10, <1>11, <2>3, <3>1, Kinds
    <3>3. Byte(regs', e) = Byte(rg, e)
      BY <2>3, <3>2, Kinds DEF Byte, Word
    <3>4. e \in Wide => regs'[e] = rg[e]
      BY <3>2, Kinds
    <3>5. QED
      BY <2>1, <3>3, <3>4 DEF AtExp
  <2>4. QED
    BY <2>1, <2>2, <2>3
<1>12. CASE popped
  <2>1. ASSUME NEW w \in Wide, w \in site.preserves, NEW h \in 1 .. 2
        PROVE  regs'[w][h] = regs[w][h]
    BY <1>9, <1>10, <1>12, <2>1
  <2>2. "BP" \in site.preserves /\ regs["BP"] = FrameBP => regs'["BP"] = FrameBP
    BY <1>9, <1>10, <1>12, Kinds
  <2>3. QED
    BY <1>2, <1>8, <1>10, <1>11, <1>12, <2>1, <2>2
<1>13. CASE ~popped
  BY <1>2, <1>7, <1>9, <1>13
<1>14. QED
  BY <1>12, <1>13

\* What is kept by the call instruction.
LEMMA AfterCall ==
    ASSUME FrameInv, CallBefore, EmitCall
    PROVE  CallAfter'
<1>1. /\ pc = "placed" /\ site # NoSite /\ pc' = "capture" /\ site' = site /\ ri' = 1 /\ temp_ret' = {}
      /\ ~Restored'
  BY DEF EmitCall, NoSite, Restored
<1>2. /\ mem = CallMem /\ MemFile /\ RegFile(regs)
      /\ \A w \in Wide : w \notin collect_call_arg_setup_clobbers(site) => regs[w] = CallRegs[w]
      /\ ~outgoing_bp_param(site) => regs["BP"] = FrameBP
  BY <1>1, PlacedIs
<1>3. /\ \E F \in Sites : site \in F
      /\ RegFile(regs')
      /\ \A w \in Wide : w \in site.preserves => \A h \in 1 .. 2 : regs'[w][h] = regs[w][h]
      /\ "BP" \in site.preserves /\ regs["BP"] = FrameBP => regs'["BP"] = FrameBP
      /\ site.flags => flags' = "callee"
  BY AfterInstruction
<1>4. mem' = mem \/ \E w : DOMAIN w = 1 .. 2 /\ mem' = [mem EXCEPT !["temp"] = w]
  <2>1. CASE site.op = "icall"
    <3>1. site.tgt \in Seq(Source) /\ Len(site.tgt) > 0 /\ \A t \in ToSet(site.tgt) : ~IsByte(t)
      BY <1>3, <2>1, SitesAssumption
    <3>2. PICK t : t = site.tgt[1] /\ t \in Source /\ ~IsByte(t)
      BY <3>1 DEF ToSet
    <3>3. DOMAIN Word(regs, t) = 1 .. 2
      BY <1>2, <3>2, WordDomain DEF IsByte
    <3>4. QED
      BY <3>2, <3>3 DEF EmitCall
  <2>2. CASE site.op # "icall"
    BY <2>2 DEF EmitCall
  <2>3. QED
    BY <2>1, <2>2
<1>5. /\ DOMAIN mem' = Spilled \cup {"temp"}
      /\ \A h \in Spilled \cup {"temp"} : DOMAIN mem'[h] = 1 .. 2 /\ (h = "temp" \/ mem'[h] = mem[h])
  BY <1>2, <1>4, CallPairs
<1>6. Counting'
  <2>1. CallFile'
    BY <1>3, <1>5 DEF CallFile
  <2>2. Len(site.rets) \in Nat /\ DOMAIN site.rets \subseteq Nat \ {0}
    <3>1. site.rets \in Seq([exp : Reg \cup {STACK}, act : Reg \cup Spilled])
      BY <1>3, SitesAssumption
    <3>2. QED
      BY <3>1
  <2>3. \A k \in DOMAIN site.rets : ~(k < 1)
    BY <2>2
  <2>4. QED
    BY <1>1, <2>1, <2>2, <2>3, SameSite DEF Counting
<1>7. SlotsStay'
  BY <1>1, <1>2, <1>5, SameSite, SourcesAssumption DEF SlotsStay
<1>8. LivesStay'
  <2>1. SUFFICES ASSUME NEW k \in DOMAIN site.live, PushReg(site.live[k]) \notin ToSet(CallOrder)
                 PROVE  Survives(site.live[k])'
    BY <1>1, SameSite DEF LivesStay
  <2>2. /\ PushReg(site.live[k]) \in site.preserves
        /\ PushReg(site.live[k]) \notin collect_call_arg_setup_clobbers(site)
    BY <1>3, <2>1, NotPushed
  <2>3. ASSUME NEW w \in Wide, NEW h \in 1 .. 2, Part(site.live[k], w, h)
        PROVE  regs'[w][h] = Orig(w, h)
    <3>1. regs'[w][h] = regs[w][h] /\ regs[w] = CallRegs[w]
      BY <1>2, <1>3, <2>2, <2>3 DEF Part
    <3>2. CallRegs[w] = <<Orig(w, 1), Orig(w, 2)>>
      BY CallPairs
    <3>3. QED
      BY <3>1, <3>2
  <2>4. QED
    BY <1>1, <2>3 DEF Survives
<1>9. FrameStays'
  BY <1>1, <1>2, <1>3, SameSite DEF FrameStays, BPLost
<1>10. FlagsStay'
  BY <1>1, <1>3 DEF FlagsStay
<1>11. QED
  BY <1>6, <1>7, <1>8, <1>9, <1>10 DEF CallAfter

\* What is kept when the area is dropped.
LEMMA AfterDrop ==
    ASSUME CallBefore, CallAfter, DropArea
    PROVE  CallAfter'
<1>1. /\ pc = "cleanup" /\ pc' = "restore" /\ site' = site /\ regs' = regs /\ temp_ret' = temp_ret
      /\ Counting /\ SlotsStay /\ LivesStay /\ FrameStays /\ FlagsStay /\ ~Restored /\ ~Restored'
      /\ \E F \in Sites : site \in F
  BY DEF DropArea, CallAfter, Returns, Restored, CallBefore, SiteAt
<1>2. mem' = mem \/ \E w : DOMAIN w = 1 .. 2 /\ mem' = [mem EXCEPT !["temp"] = w]
  <2>1. DOMAIN <<<<"flags", 1>>, <<"flags", 2>>>> = 1 .. 2
    OBVIOUS
  <2>2. QED
    BY <2>1 DEF DropArea
<1>3. /\ DOMAIN mem' = Spilled \cup {"temp"}
      /\ \A h \in Spilled \cup {"temp"} : DOMAIN mem'[h] = 1 .. 2 /\ (h = "temp" \/ mem'[h] = mem[h])
  BY <1>1, <1>2 DEF Counting, CallFile
<1>4. Counting'
  <2>1. temp_ret' = {k \in DOMAIN site.rets : ViaTemp(site, k)}
    BY <1>1 DEF Counting
  <2>2. QED
    BY <1>1, <1>3, <2>1, SameSite DEF Counting, CallFile
<1>5. SlotsStay'
  BY <1>1, <1>3, SameSite, SourcesAssumption DEF SlotsStay
<1>6. LivesStay' /\ FrameStays'
  BY <1>1, SameSite DEF LivesStay, FrameStays, Survives
<1>7. FlagsStay'
  <2>1. SUFFICES ASSUME site.flags, ~(call_area_words(site) > 0 /\ BPLost(site)) PROVE flags' = "callee"
    BY <1>1, SameSite DEF FlagsStay
  <2>2. flags = "callee"
    BY <1>1, <2>1 DEF FlagsStay
  <2>3. CASE call_area_words(site) = 0
    BY <2>2, <2>3 DEF DropArea
  <2>4. CASE call_area_words(site) > 0
    <3>1. site.frame
      BY <1>1, <2>1, <2>4, SitesAssumption DEF Allocated, needs_call_temp
    <3>2. regs["BP"] = FrameBP
      BY <1>1, <2>1, <2>4, <3>1 DEF FrameStays
    <3>3. QED
      BY <2>1, <2>2, <2>4, <3>2 DEF DropArea
  <2>5. call_area_words(site) \in Nat
    BY <1>1, AreaIndexIs
  <2>6. QED
    BY <2>3, <2>4, <2>5
<1>8. QED
  BY <1>4, <1>5, <1>6, <1>7 DEF CallAfter

\* What the restores bring back.
LEMMA AfterRestores ==
    ASSUME CallBefore, CallAfter, emit_call_restores
    PROVE  /\ RegFile(regs')
           /\ \A r \in Wide : regs'[r] = IF r \in ToSet(CallOrder) THEN CallRegs[r] ELSE regs[r]
<1>1. /\ stack = SavedLayer /\ (\E F \in Sites : site \in F) /\ RegFile(regs)
      /\ regs' = Popped(regs, stack, CallOrder)
  BY DEF emit_call_restores, CallBefore, CallStack, SiteAt, Returns, CallAfter, Counting, CallFile,
         CallOrder
<1>2. /\ CallOrder \in Seq(Wide \cup {"SP"}) /\ Lies(SavedLayer, << >>, CallOrder, CallRegs)
      /\ RegFile(CallRegs)
  BY <1>1, CallLayer, CallPairs
<1>3. PICK order, rf, st : order = CallOrder /\ rf = regs /\ st = SavedLayer
  OBVIOUS
<1>4. /\ RegFile(Popped(rf, st, order))
      /\ \A r \in Wide : Popped(rf, st, order)[r] = IF r \in ToSet(order) THEN CallRegs[r] ELSE rf[r]
  BY <1>1, <1>2, <1>3, PoppedOff
<1>5. QED
  BY <1>1, <1>3, <1>4

\* What is kept by the restores.
LEMMA AfterRestore ==
    ASSUME CallBefore, CallAfter, emit_call_restores
    PROVE  CallAfter'
<1>1. /\ pc = "restore" /\ pc' = "reload" /\ site' = site /\ mem' = mem /\ temp_ret' = temp_ret
      /\ ri' = 1 /\ flags' = flags
      /\ Counting /\ SlotsStay /\ LivesStay /\ FrameStays /\ FlagsStay /\ ~Restored /\ Restored'
      /\ \E F \in Sites : site \in F
  BY DEF emit_call_restores, CallAfter, Returns, Restored, CallBefore, SiteAt
<1>2. /\ RegFile(regs')
      /\ \A r \in Wide : regs'[r] = IF r \in ToSet(CallOrder) THEN CallRegs[r] ELSE regs[r]
  BY AfterRestores
<1>3. Counting'
  <2>1. Len(site.rets) \in Nat
    <3>1. site.rets \in Seq([exp : Reg \cup {STACK}, act : Reg \cup Spilled])
      BY <1>1, SitesAssumption
    <3>2. QED
      BY <3>1
  <2>2. temp_ret' = {k \in DOMAIN site.rets : ViaTemp(site, k)}
    BY <1>1 DEF Counting
  <2>3. QED
    BY <1>1, <1>2, <2>1, <2>2, SameSite DEF Counting, CallFile
<1>4. SlotsStay'
  BY <1>1, SameSite DEF SlotsStay
<1>5. LivesStay'
  <2>1. SUFFICES ASSUME ~ScratchOverLive(site), NEW k \in DOMAIN site.live
                 PROVE  Survives(site.live[k])'
    BY <1>1, SameSite DEF LivesStay
  <2>2. ASSUME NEW w \in Wide, NEW h \in 1 .. 2, Part(site.live[k], w, h)
        PROVE  regs'[w][h] = Orig(w, h)
    <3>1. CASE w \in ToSet(CallOrder)
      <4>1. CallRegs[w] = <<Orig(w, 1), Orig(w, 2)>>
        BY CallPairs
      <4>2. QED
        BY <1>2, <3>1, <4>1
    <3>2. CASE w \notin ToSet(CallOrder)
      <4>1. Survives(site.live[k])
        BY <1>1, <2>1, <2>2, <3>2 DEF LivesStay, Part
      <4>2. QED
        BY <1>2, <2>2, <3>2, <4>1 DEF Survives
    <3>3. QED
      BY <3>1, <3>2
  <2>3. QED
    BY <1>1, <2>2 DEF Survives
<1>6. FrameStays'
  <2>1. SUFFICES ASSUME site.frame, ~FramePointerArg(site) PROVE regs'["BP"] = FrameBP
    BY <1>1, SameSite DEF FrameStays
  <2>2. "BP" \in ToSet(CallOrder) \/ regs["BP"] = FrameBP
    BY <1>1, <2>1, FrameSaved DEF FrameStays
  <2>3. QED
    BY <1>2, <2>2, CallPairs, Kinds
<1>7. FlagsStay'
  BY <1>1, SameSite DEF FlagsStay
<1>8. QED
  BY <1>3, <1>4, <1>5, <1>6, <1>7 DEF CallAfter

\* Loading a result from the temp slot.
LEMMA ReloadIs ==
    ASSUME CallBefore, CallAfter, ReloadResult, NEW a, a = site.rets[ri].act
    PROVE  /\ (\E F \in Sites : site \in F) /\ ri \in DOMAIN site.rets /\ a \in Reg \cup Spilled
           /\ ri \notin temp_ret => regs' = regs
           /\ ri \in temp_ret =>
                 /\ ViaTemp(site, ri) /\ a \in Reg /\ Outside({a}, regs, regs')
                 /\ regs["BP"] = FrameBP =>
                       Byte(regs', a) = mem["temp"][1] /\ (a \in Wide => regs'[a] = mem["temp"])
<1>1. /\ (\E F \in Sites : site \in F) /\ Counting /\ pc = "reload" /\ ri <= Len(site.rets)
  BY DEF ReloadResult, CallAfter, Returns, CallBefore, SiteAt
<1>2. ri \in DOMAIN site.rets
  <2>1. site.rets \in Seq([exp : Reg \cup {STACK}, act : Reg \cup Spilled])
    BY <1>1, SitesAssumption
  <2>2. DOMAIN site.rets = 1 .. Len(site.rets)
    BY <2>1
  <2>3. QED
    BY <1>1, <2>2 DEF Counting
<1>3. a \in Reg \cup Spilled
  BY <1>1, <1>2, RetIs
<1>4. ASSUME ri \in temp_ret
      PROVE  /\ ViaTemp(site, ri) /\ a \in Reg /\ Outside({a}, regs, regs')
             /\ regs["BP"] = FrameBP =>
                   Byte(regs', a) = mem["temp"][1] /\ (a \in Wide => regs'[a] = mem["temp"])
  <2>1. ViaTemp(site, ri)
    BY <1>1, <1>4 DEF Counting
  <2>2. a \in Reg
    BY <1>3, <2>1, SourcesAssumption DEF ViaTemp
  <2>3. PICK w : w = IF regs["BP"] = FrameBP THEN mem["temp"] ELSE Unknown
    OBVIOUS
  <2>4. DOMAIN w = 1 .. 2 /\ RegFile(regs)
    BY <1>1, <2>3, FramePairs DEF Counting, CallFile, FramePair
  <2>5. regs' = PutPlace(regs, a, w)
    BY <1>4, <2>3 DEF ReloadResult
  <2>6. Outside({a}, regs, regs') /\ Byte(regs', a) = w[1] /\ (a \in Wide => regs'[a] = w)
    BY <2>2, <2>4, <2>5, PutOutside
  <2>7. QED
    BY <2>1, <2>2, <2>3, <2>6
<1>5. QED
  BY <1>1, <1>2, <1>3, <1>4 DEF ReloadResult

\* What is kept while results are loaded from the temp slot.
LEMMA AfterReload ==
    ASSUME CallBefore, CallAfter, ReloadResult
    PROVE  CallAfter'
<1>1. /\ pc = "reload" /\ pc' = "reload" /\ site' = site /\ mem' = mem /\ temp_ret' = temp_ret
      /\ ri' = ri + 1 /\ flags' = flags
      /\ Counting /\ SlotsStay /\ LivesStay /\ FrameStays /\ FlagsStay /\ Restored /\ Restored'
  BY DEF ReloadResult, CallAfter, Returns, Restored
<1>2. PICK a : a = site.rets[ri].act
  OBVIOUS
<1>3. /\ (\E F \in Sites : site \in F) /\ ri \in DOMAIN site.rets /\ a \in Reg \cup Spilled
      /\ regs' = regs \/ (a \in Reg /\ Outside({a}, regs, regs'))
  BY <1>2, ReloadIs
<1>4. RegFile(regs')
  BY <1>1, <1>3 DEF Outside, Counting, CallFile
<1>5. Counting'
  <2>1. DOMAIN site.rets = 1 .. Len(site.rets) /\ Len(site.rets) \in Nat
    BY <1>3, RetIs
  <2>2. ri' \in 1 .. Len(site.rets) + 1
    BY <1>1, <1>3, <2>1
  <2>3. temp_ret' = {k \in DOMAIN site.rets : ViaTemp(site, k)}
    BY <1>1 DEF Counting
  <2>4. QED
    BY <1>1, <1>4, <2>2, <2>3, SameSite DEF Counting, CallFile
<1>6. SlotsStay' /\ FlagsStay'
  BY <1>1, SameSite DEF SlotsStay, FlagsStay
<1>7. LivesStay'
  <2>1. SUFFICES ASSUME ~ScratchOverLive(site), NEW k \in DOMAIN site.live
                 PROVE  Survives(site.live[k])'
    BY <1>1, SameSite DEF LivesStay
  <2>2. Survives(site.live[k])
    BY <1>1, <2>1 DEF LivesStay
  <2>3. ASSUME NEW w \in Wide, NEW h \in 1 .. 2, Part(site.live[k], w, h) PROVE regs'[w][h] = regs[w][h]
    <3>1. a \in Reg => ~Part(a, w, h)
      BY <1>2, <1>3, <2>3, LiveIs, PartsAlias
    <3>2. QED
      BY <1>3, <2>3, <3>1 DEF Outside
  <2>4. QED
    BY <1>1, <2>2, <2>3 DEF Survives
<1>8. FrameStays'
  <2>1. ASSUME site.frame PROVE regs'["BP"] = regs["BP"]
    <3>1. a \in Reg => PushReg(a) # "BP"
      BY <1>2, <1>3, <2>1, LiveIs
    <3>2. QED
      BY <1>3, <3>1, Kinds DEF Outside
  <2>2. QED
    BY <1>1, <2>1, SameSite DEF FrameStays
<1>9. QED
  BY <1>5, <1>6, <1>7, <1>8 DEF CallAfter

\* The ends of the loops.
LEMMA AfterLoop ==
    ASSUME CallBefore, CallAfter, EndCapture \/ EndCall
    PROVE  CallAfter'
<1>1. /\ site' = site /\ mem' = mem /\ regs' = regs /\ temp_ret' = temp_ret /\ flags' = flags
      /\ Counting /\ SlotsStay /\ LivesStay /\ FrameStays /\ FlagsStay
      /\ \/ pc = "capture" /\ ri = Len(site.rets) + 1 /\ pc' = "cleanup"
         \/ pc = "reload" /\ pc' = "end"
  BY DEF EndCapture, EndCall, siteVars, CallAfter, Returns
<1>2. (Restored' <=> Restored)
  BY <1>1 DEF Restored
<1>3. Counting'
  <2>1. temp_ret = {k \in DOMAIN site.rets : ViaTemp(site, k)}
    <3>1. CASE pc = "capture"
      <4>1. \A k \in DOMAIN site.rets : k < ri
        <5>0. \E F \in Sites : site \in F
          BY <3>1 DEF CallBefore, SiteAt, Returns
        <5>1. site.rets \in Seq([exp : Reg \cup {STACK}, act : Reg \cup Spilled])
          BY <5>0, SitesAssumption
        <5>2. QED
          BY <1>1, <3>1, <5>1
      <4>2. QED
        BY <1>1, <3>1, <4>1 DEF Counting
    <3>2. CASE pc = "reload"
      BY <1>1, <3>2 DEF Counting
    <3>3. QED
      BY <1>1, <3>1, <3>2
  <2>2. pc' \notin {"capture", "reload"}
    BY <1>1
  <2>3. QED
    BY <1>1, <2>1, <2>2, SameSite DEF Counting, CallFile
<1>4. SlotsStay' /\ LivesStay' /\ FrameStays' /\ FlagsStay'
  BY <1>1, <1>2, SameSite DEF SlotsStay, LivesStay, FrameStays, FlagsStay, Survives
<1>5. QED
  BY <1>3, <1>4 DEF CallAfter

\* What a call leaves alone, through every step.
LEMMA CallAfterStep ==
    ASSUME FrameInv, CallBefore, CallAfter, [Next]_fvars
    PROVE  CallAfter'
<1>1. CASE UNCHANGED fvars
  <2>1. UNCHANGED <<pc, stack, regs, mem, ri, temp_ret, flags, site>>
    BY <1>1 DEF fvars, vars, siteVars
  <2>2. (Restored' <=> Restored) /\ (Returns' <=> Returns)
    BY <2>1 DEF Restored, Returns
  <2>3. Counting => Counting'
    BY <2>1, SameSite DEF Counting, CallFile
  <2>4. (SlotsStay => SlotsStay') /\ (LivesStay => LivesStay')
    BY <2>1, <2>2, SameSite DEF SlotsStay, LivesStay, Survives
  <2>5. (FrameStays => FrameStays') /\ (FlagsStay => FlagsStay')
    BY <2>1, <2>2, SameSite DEF FrameStays, FlagsStay
  <2>6. QED
    BY <2>2, <2>3, <2>4, <2>5 DEF CallAfter
<1>2. CASE EmitCall \/ CaptureResult \/ EndCapture \/ DropArea \/ emit_call_restores
           \/ ReloadResult \/ EndCall
  BY <1>2, AfterCall, AfterCapture, AfterLoop, AfterDrop, AfterRestore, AfterReload
<1>3. CASE emit_call_saves \/ PushArea \/ MoveArgs \/ SiteMoves
  <2>1. pc' \in {"area", "args", "moves", "pops", "placed"}
    <3>1. emit_call_saves \/ PushArea \/ MoveArgs => pc' \in {"area", "args", "moves"}
      BY DEF emit_call_saves, PushArea, MoveArgs, StartMoves
    <3>2. SiteMoves => pc' \in {"moves", "pops", "placed"}
      BY MoveStepKeeps DEF SiteMoves, FrameInv
    <3>3. QED
      BY <1>3, <3>1, <3>2
  <2>2. QED
    BY <2>1 DEF CallAfter, Returns
<1>4. CASE FrameStep
  BY <1>4, NoCallIn DEF CallAfter, Returns
<1>5. QED
  BY <1>1, <1>2, <1>3, <1>4 DEF Next, SiteStep, CallNext

\* What a call leaves alone is what its caller still needs.
LEMMA NothingLost ==
    ASSUME CallBefore, CallAfter
    PROVE  CallTransparent
<1>1. SUFFICES ASSUME pc = "end" PROVE CallTransparent
  BY DEF CallTransparent, LiveSurvive, FlagsArrive
<1>2. /\ Counting /\ SlotsStay /\ LivesStay /\ FrameStays /\ FlagsStay /\ Restored
      /\ stack = << >> /\ \E F \in Sites : site \in F
  BY <1>1 DEF CallAfter, CallBefore, CallStack, SiteAt, Returns, Restored
<1>3. ASSUME ~ScratchOverLive(site), NEW k \in DOMAIN site.live, NEW v, v = site.live[k]
      PROVE  Holds(v, ValueBefore(v))
  <2>1. Survives(v) /\ v \in Reg
    <3>1. site.live \in Seq(Reg)
      BY <1>2, SitesAssumption
    <3>2. QED
      BY <1>2, <1>3, <3>1 DEF LivesStay
  <2>2. CASE v \in ByteRegs
    <3>1. Byte(regs, v) = Orig(PushReg(v), Half(v))
      BY <2>1, <2>2, BytesOf DEF Survives, Byte
    <3>2. ValueBefore(v)[1] = Orig(PushReg(v), Half(v)) /\ IsByte(v) /\ v \notin Spilled /\ v \notin Wide
      BY <2>1, <2>2, Kinds DEF ValueBefore, IsByte
    <3>3. QED
      BY <3>1, <3>2 DEF Holds
  <2>3. CASE v \in Wide
    <3>1. regs[v][1] = Orig(v, 1) /\ regs[v][2] = Orig(v, 2)
      BY <2>1, <2>3, BytesOf DEF Survives
    <3>2. v \notin ByteRegs /\ v \notin Spilled
      BY <2>1, <2>3, Kinds
    <3>3. ValueBefore(v)[1] = Orig(v, 1) /\ ValueBefore(v)[2] = Orig(v, 2)
      BY <3>2 DEF ValueBefore
    <3>4. QED
      BY <2>3, <3>1, <3>2, <3>3 DEF Holds
  <2>4. QED
    BY <2>1, <2>2, <2>3, Kinds
<1>4. ASSUME NEW h \in Spilled \ ActsOf(site) PROVE mem[h] = ValueBefore(h)
  <2>1. mem[h] = <<Orig(h, 1), Orig(h, 2)>>
    BY <1>2, CallPairs DEF SlotsStay
  <2>2. h \notin ByteRegs
    BY Kinds
  <2>3. QED
    BY <2>1, <2>2 DEF ValueBefore
<1>5. LiveSurvive
  BY <1>2, <1>3, <1>4 DEF LiveSurvive, FrameStays
<1>6. FlagsArrive
  BY <1>2 DEF FlagsArrive, FlagsStay
<1>7. QED
  BY <1>5, <1>6 DEF CallTransparent

\* A call changes nothing its caller still needs, whatever the callee clobbers: the caller-saves
\* (call_saved, emit_call_saves, emit_call_restores), the capture of the results and the area
\* between them leave live registers, slots, the frame pointer, the stack and the flags.
THEOREM CallsAreTransparent == Spec => []CallTransparent
<1>1. Init => FrameInv /\ CallBefore /\ CallAfter
  <2>1. Init => CallAfter
    BY DEF Init, CallInit, FrameInit, CallAfter, Returns
  <2>2. QED
    BY <2>1, InitHolds, NoCallYet
<1>2. FrameInv /\ CallBefore /\ CallAfter /\ [Next]_fvars => FrameInv' /\ CallBefore' /\ CallAfter'
  BY InvStep, CallBeforeStep, CallAfterStep
<1>3. CallBefore /\ CallAfter => CallTransparent
  BY NothingLost
<1>4. QED
  BY <1>1, <1>2, <1>3, PTL DEF Spec

-----------------------------------------------------------------------------
(* The results of a call. *)

\* Result k still where the callee left it, in the temp slot, or where its vreg is.
Left(k)  == /\ AtExp(regs, k)
            /\ site.rets[k].exp = STACK => stack[AreaIndex(site, k)] = Ret(k)
InTemp(k) == /\ mem["temp"][1] = Ret(k)[1]
             /\ ~IsByte(site.rets[k].act) => mem["temp"][2] = Ret(k)[2]
InAct(k) == Holds(site.rets[k].act, Ret(k))

\* Whether result k waits to be captured, or to be loaded from the temp slot.
Waits(k) == pc = "capture" /\ ~(k < ri)
Parked(k) == /\ ViaTemp(site, k)
             /\ pc \in {"capture", "cleanup", "restore"} \/ (pc = "reload" /\ ~(k < ri))
ResultAt(k) == IF Waits(k) THEN Left(k) ELSE IF Parked(k) THEN InTemp(k) ELSE InAct(k)
ResultsInv == Returns => \A k \in DOMAIN site.rets : ResultLost(site, k) \/ ResultAt(k)

\* The places of different results are apart.
LEMMA ActsApart ==
    ASSUME \E F \in Sites : site \in F, NEW j, j \in DOMAIN site.rets, NEW k, k \in DOMAIN site.rets,
           j # k
    PROVE  /\ site.rets[j].act # site.rets[k].act
           /\ ~pregs_alias(site.rets[j].act, site.rets[k].act)
<1>1. Allocated(site)
  BY SitesAssumption
<1>2. site.rets[j].act # site.rets[k].act
  BY <1>1 DEF Allocated
<1>3. site.rets[j].act \in ActsOf(site) /\ site.rets[k].act \in ActsOf(site)
  BY DEF ActsOf
<1>4. QED
  BY <1>1, <1>2, <1>3 DEF Allocated, Apart

\* A value stays in a place none of whose bytes change.
LEMMA ActStays ==
    ASSUME \E F \in Sites : site \in F, NEW k, k \in DOMAIN site.rets, InAct(k), site' = site,
           NEW a, a = site.rets[k].act,
           a \in Spilled => mem'[a] = mem[a],
           a \in Reg => \A w \in Wide, h \in 1 .. 2 : Part(a, w, h) => regs'[w][h] = regs[w][h]
    PROVE  InAct(k)'
<1>1. a \in Reg \cup Spilled
  BY RetIs
<1>2. CASE a \in Spilled
  BY <1>2 DEF InAct, Holds, Ret
<1>3. CASE a \in Wide
  <2>1. regs'[a][1] = regs[a][1] /\ regs'[a][2] = regs[a][2] /\ a \notin Spilled
    BY <1>3, BytesOf, Kinds
  <2>2. QED
    BY <1>3, <2>1 DEF InAct, Holds, Ret
<1>4. CASE a \in ByteRegs
  <2>1. a \notin Spilled /\ a \notin Wide /\ a \in Reg
    BY <1>4, Kinds
  <2>2. regs'[PushReg(a)][Half(a)] = regs[PushReg(a)][Half(a)]
    BY <1>4, <2>1, BytesOf
  <2>3. IsByte(a)
    BY <1>4 DEF IsByte
  <2>4. QED
    BY <1>4, <2>1, <2>2, <2>3 DEF InAct, Holds, Ret, Byte
<1>5. QED
  BY <1>1, <1>2, <1>3, <1>4, Kinds

\* A value put in its place is there.
LEMMA ActHas ==
    ASSUME \E F \in Sites : site \in F, NEW k, k \in DOMAIN site.rets, site' = site,
           NEW a, a = site.rets[k].act, NEW w,
           w[1] = Ret(k)[1], ~IsByte(a) => w[2] = Ret(k)[2],
           a \in Spilled => mem'[a][1] = w[1] /\ (a \notin SpilledBytes => mem'[a][2] = w[2]),
           a \in Reg => Byte(regs', a) = w[1] /\ (a \in Wide => regs'[a] = w)
    PROVE  InAct(k)'
<1>1. a \in Reg \cup Spilled
  BY RetIs
<1>2. CASE a \in Spilled
  <2>1. a \notin SpilledBytes \/ IsByte(a)
    BY DEF IsByte
  <2>2. mem'[a][1] = Ret(k)[1] /\ (IsByte(a) \/ mem'[a][2] = Ret(k)[2])
    BY <1>2, <2>1
  <2>3. QED
    BY <1>2, <2>2 DEF InAct, Holds, Ret
<1>3. CASE a \in Wide
  <2>1. a \in Reg /\ a \notin Spilled /\ ~IsByte(a)
    BY <1>3, Kinds DEF IsByte
  <2>2. regs'[a][1] = Ret(k)[1] /\ regs'[a][2] = Ret(k)[2]
    BY <1>3, <2>1
  <2>3. QED
    BY <1>3, <2>1, <2>2 DEF InAct, Holds, Ret
<1>4. CASE a \in ByteRegs
  <2>1. a \notin Spilled /\ a \notin Wide /\ a \in Reg /\ IsByte(a)
    BY <1>4, Kinds DEF IsByte
  <2>2. QED
    BY <1>4, <2>1 DEF InAct, Holds, Ret, Byte
<1>5. QED
  BY <1>1, <1>2, <1>3, <1>4, Kinds

\* A result in the temp slot is in a function whose frame has one.
LEMMA ViaTempNeeds ==
    ASSUME \E F \in Sites : site \in F, NEW k, k \in DOMAIN site.rets, ViaTemp(site, k)
    PROVE  needs_call_temp(site) /\ site.frame
<1>1. PICK a, r : a = site.rets[k].act /\ r = PushReg(a)
  OBVIOUS
<1>2. a \in Preg /\ a \in Reg /\ site.rets[k].exp # STACK /\ Allocated(site) /\ a \in ActsOf(site)
  <2>1. a \in Reg \cup Spilled /\ a \in ActsOf(site)
    BY <1>1, RetIs
  <2>2. a \in Preg /\ site.rets[k].exp # STACK /\ Allocated(site)
    BY <1>1, SitesAssumption DEF ViaTemp
  <2>3. QED
    BY <2>1, <2>2, SourcesAssumption
<1>3. r \in Wide /\ ret_capture_restore_reg(a) = r /\ r # NONE /\ r \in Preg
  <2>1. r \in Wide
    BY <1>1, <1>2, Kinds
  <2>2. QED
    BY <1>1, <1>2, <2>1 DEF ret_capture_restore_reg, Wide, WordRegs, SegRegs, NONE, Preg
<1>4. PICK i \in DOMAIN call_saved(site) : pregs_alias(call_saved(site)[i], r)
  BY <1>1, <1>3 DEF ViaTemp, call_saved_restores_reg
<1>5. call_saved(site)[i] = r
  <2>1. call_saved(site)[i] \in Wide
    BY <1>4, CallSavedOver
  <2>2. PushReg(r) = r /\ PushReg(call_saved(site)[i]) = call_saved(site)[i] /\ r \in Reg
        /\ call_saved(site)[i] \in Reg
    BY <1>3, <2>1, Kinds
  <2>3. QED
    BY <1>4, <2>2, Sharing
<1>6. r \in ToSet(call_saved(site))
  BY <1>4, <1>5 DEF ToSet
<1>7. \/ r = "BP" /\ SavesBP(site)
      \/ r = "BX" /\ SavesBX(site)
      \/ \E j \in DOMAIN site.live : r = PushReg(site.live[j])
  BY <1>6, CallSavedIs
<1>8. pregs_alias(r, r)
  BY <1>3 DEF pregs_alias
<1>9. \/ site.frame /\ pregs_alias("BP", r)
      \/ \E v \in ToSet(site.live) : v \in Preg /\ pregs_alias(PushReg(v), r)
  <2>1. CASE r = "BP" /\ SavesBP(site)
    <3>1. site.frame \/ "BP" \in ToSet(site.live)
      BY <2>1 DEF SavesBP
    <3>2. PushReg("BP") = "BP" /\ "BP" \in Preg
      BY Kinds DEF Preg, WordRegs
    <3>3. QED
      BY <1>8, <2>1, <3>1, <3>2
  <2>2. CASE r = "BX" /\ SavesBX(site)
    <3>1. PICK v \in ToSet(site.live) : pregs_alias(v, "BX")
      BY <2>2 DEF SavesBX
    <3>2. site.live \in Seq(Reg)
      BY SitesAssumption
    <3>3. v \in Reg /\ "BX" \in Reg /\ PushReg("BX") = "BX"
      BY <3>1, <3>2, Kinds DEF ToSet, Wide, WordRegs
    <3>4. PushReg(v) = "BX" /\ v \in Preg
      BY <3>1, <3>3, Sharing DEF Reg
    <3>5. QED
      BY <1>8, <2>2, <3>4
  <2>3. CASE \E j \in DOMAIN site.live : r = PushReg(site.live[j])
    <3>1. PICK j \in DOMAIN site.live : r = PushReg(site.live[j])
      BY <2>3
    <3>2. site.live \in Seq(Reg)
      BY SitesAssumption
    <3>3. site.live[j] \in Preg /\ site.live[j] \in ToSet(site.live)
      BY <3>1, <3>2 DEF ToSet, Reg
    <3>4. QED
      BY <1>8, <3>1, <3>3
  <2>4. QED
    BY <1>7, <2>1, <2>2, <2>3
<1>10. call_returns_need_temp(site)
  BY <1>1, <1>2, <1>3, <1>9 DEF call_returns_need_temp
<1>11. QED
  BY <1>2, <1>10 DEF needs_call_temp, Allocated

\* The frame is reached for the results that are not given up.
LEMMA FrameReached ==
    ASSUME CallBefore, CallAfter, Returns, NEW k, k \in DOMAIN site.rets, ~ResultLost(site, k),
           ViaTemp(site, k) \/ site.rets[k].act \in Spilled
    PROVE  regs["BP"] = FrameBP
<1>1. (\E F \in Sites : site \in F) /\ FrameStays
  BY DEF CallBefore, SiteAt, CallAfter
<1>2. ~BPLost(site)
  BY DEF ResultLost, Unreachable
<1>3. site.frame
  <2>1. CASE ViaTemp(site, k)
    BY <1>1, <2>1, ViaTempNeeds
  <2>2. CASE site.rets[k].act \in Spilled
    <3>1. site.rets[k].act \in ActsOf(site)
      BY DEF ActsOf
    <3>2. Allocated(site) /\ site.frame \in BOOLEAN
      BY <1>1, SitesAssumption
    <3>3. QED
      BY <2>2, <3>1, <3>2 DEF Allocated
  <2>3. QED
    BY <2>1, <2>2
<1>4. QED
  BY <1>1, <1>2, <1>3 DEF FrameStays, FramePointerArg, BPLost

\* The word taken for a result that is where the callee left it.
LEMMA TakenIs ==
    ASSUME \E F \in Sites : site \in F, NEW k, k \in DOMAIN site.rets, Left(k), NEW w, w = TakenWord(k)
    PROVE  w[1] = Ret(k)[1] /\ (~IsByte(site.rets[k].act) => w[2] = Ret(k)[2])
<1>1. PICK e : e = site.rets[k].exp /\ e \in Reg \cup {STACK}
  BY RetIs
<1>2. CASE e = STACK
  BY <1>1, <1>2 DEF TakenWord, Left
<1>3. CASE e \in ByteRegs
  <2>1. e # STACK
    BY <1>3, RetIs, Kinds
  <2>2. w = <<Byte(regs, e), Junk>>
    BY <1>1, <1>3, <2>1 DEF TakenWord, ReadPlace
  <2>3. Byte(regs, e) = Ret(k)[1]
    BY <1>1, <2>1 DEF Left, AtExp
  <2>4. IsByte(site.rets[k].act)
    BY <1>1, <1>3, <2>1, RetIs
  <2>5. QED
    BY <2>2, <2>3, <2>4
<1>4. CASE e \in Wide
  <2>1. e # STACK /\ e \notin ByteRegs
    BY <1>4, RetIs, Kinds
  <2>2. w = regs[e]
    BY <1>1, <2>1 DEF TakenWord, ReadPlace
  <2>3. regs[e][1] = Ret(k)[1] /\ regs[e][2] = Ret(k)[2]
    BY <1>1, <1>4, <2>1 DEF Left, AtExp, Byte, Word
  <2>4. QED
    BY <2>2, <2>3
<1>5. QED
  BY <1>1, <1>2, <1>3, <1>4, Kinds

\* The call instruction leaves the results in their places.
LEMMA ResultsCall ==
    ASSUME FrameInv, CallBefore, EmitCall
    PROVE  ResultsInv'
<1>1. /\ pc = "placed" /\ site # NoSite /\ pc' = "capture" /\ site' = site /\ ri' = 1
      /\ stack' = CalleeArea(stack)
  BY DEF EmitCall, NoSite
<1>2. OnSaved(stack)
  BY <1>1, PlacedIs
<1>3. /\ \E F \in Sites : site \in F
      /\ \A k \in DOMAIN site.rets : AtExp(regs', k) \/ ScratchPopped(site, k)
  BY AfterInstruction
<1>4. \A k \in StackRets(site) : stack'[AreaIndex(site, k)] = Ret(k)
  BY <1>1, <1>2, <1>3, CalleeAreaIs
<1>5. ASSUME NEW k \in DOMAIN site.rets PROVE (ResultLost(site, k) \/ ResultAt(k))'
  <2>1. (ResultLost(site, k)' <=> ResultLost(site, k))
    BY <1>1, SameSite
  <2>2. Waits(k)'
    <3>1. k \in Nat \ {0}
      BY <1>3, <1>5, RetIs
    <3>2. QED
      BY <1>1, <3>1 DEF Waits
  <2>3. ScratchPopped(site, k) => ResultLost(site, k)
    BY DEF ResultLost
  <2>4. AtExp(regs', k) => Left(k)'
    <3>1. SUFFICES ASSUME AtExp(regs', k) PROVE Left(k)'
      OBVIOUS
    <3>2. PICK e : e = site.rets[k].exp /\ e \in Reg \cup {STACK}
      BY <1>3, <1>5, RetIs
    <3>3. CASE e = STACK
      <4>1. stack'[AreaIndex(site, k)] = Ret(k)
        BY <1>4, <1>5, <3>2, <3>3 DEF StackRets
      <4>2. AtExp(regs, k)'
        BY <1>1, <3>2, <3>3 DEF AtExp
      <4>3. AreaIndex(site, k)' = AreaIndex(site, k)
        BY <1>1 DEF AreaIndex, StackRets
      <4>4. QED
        BY <1>1, <4>1, <4>2, <4>3 DEF Left, Ret
    <3>4. CASE e \in ByteRegs
      <4>1. e # STACK /\ e \notin Wide
        BY <1>3, <1>5, <3>4, RetIs, Kinds
      <4>2. regs'[PushReg(e)][Half(e)] = Ret(k)[1]
        BY <3>1, <3>2, <3>4, <4>1 DEF AtExp, Byte
      <4>3. QED
        BY <1>1, <3>2, <3>4, <4>1, <4>2 DEF Left, AtExp, Byte, Ret
    <3>5. CASE e \in Wide
      <4>1. e # STACK /\ e \notin ByteRegs
        BY <1>3, <1>5, <3>5, RetIs, Kinds
      <4>2. regs'[e][1] = Ret(k)[1] /\ regs'[e][2] = Ret(k)[2]
        BY <3>1, <3>2, <3>5, <4>1 DEF AtExp, Byte, Word
      <4>3. QED
        BY <1>1, <3>2, <3>5, <4>1, <4>2 DEF Left, AtExp, Byte, Word, Ret
    <3>6. QED
      BY <3>2, <3>3, <3>4, <3>5, Kinds
  <2>5. QED
    BY <1>3, <1>5, <2>1, <2>2, <2>3, <2>4 DEF ResultAt
<1>6. QED
  BY <1>1, <1>5 DEF ResultsInv

\* A result stays where the callee left it while its bytes do.
LEMMA LeftStays ==
    ASSUME \E F \in Sites : site \in F, NEW k, k \in DOMAIN site.rets, Left(k), site' = site,
           stack' = stack, NEW e, e = site.rets[k].exp,
           e \in Reg => \A w \in Wide, h \in 1 .. 2 : Part(e, w, h) => regs'[w][h] = regs[w][h]
    PROVE  Left(k)'
<1>1. CASE e = STACK
  <2>1. AtExp(regs, k)'
    BY <1>1 DEF AtExp
  <2>2. AreaIndex(site, k)' = AreaIndex(site, k)
    BY DEF AreaIndex, StackRets
  <2>3. QED
    BY <2>1, <2>2 DEF Left, Ret
<1>2. CASE e \in ByteRegs
  <2>1. e # STACK /\ e \notin Wide /\ e \in Reg
    BY <1>2, RetIs, Kinds
  <2>2. regs'[PushReg(e)][Half(e)] = regs[PushReg(e)][Half(e)]
    BY <1>2, <2>1, BytesOf
  <2>3. QED
    BY <1>2, <2>1, <2>2 DEF Left, AtExp, Byte, Ret
<1>3. CASE e \in Wide
  <2>1. e # STACK /\ e \notin ByteRegs /\ e \in Reg
    BY <1>3, RetIs, Kinds
  <2>2. regs'[e][1] = regs[e][1] /\ regs'[e][2] = regs[e][2]
    BY <1>3, <2>1, BytesOf
  <2>3. QED
    BY <1>3, <2>1, <2>2 DEF Left, AtExp, Byte, Word, Ret
<1>4. QED
  BY <1>1, <1>2, <1>3, RetIs, Kinds

\* Capturing a result takes it where it is to be and disturbs no other.
LEMMA ResultsCapture ==
    ASSUME CallBefore, CallAfter, ResultsInv, CaptureResult
    PROVE  ResultsInv'
<1>1. /\ pc = "capture" /\ pc' = "capture" /\ ri' = ri + 1 /\ site' = site /\ stack' = stack
      /\ Counting /\ Returns /\ \E F \in Sites : site \in F
  BY DEF CaptureResult, CallAfter, Returns, CallBefore, SiteAt
<1>2. CallFile /\ ri \in Nat \ {0}
  BY <1>1 DEF Counting
<1>3. PICK a, w : a = site.rets[ri].act /\ w = TakenWord(ri)
  OBVIOUS
<1>4. /\ ri \in DOMAIN site.rets /\ DOMAIN w = 1 .. 2
      /\ Outside(CaptureWrites(site, ri), regs, regs')
      /\ mem' = IF ViaTemp(site, ri) THEN Store(regs, mem, "temp", w)
                ELSE IF a \in Spilled THEN Store(regs, mem, a, w) ELSE mem
      /\ ~ViaTemp(site, ri) /\ a \in Reg => Byte(regs', a) = w[1] /\ (a \in Wide => regs'[a] = w)
  BY <1>2, <1>3, CaptureIs
<1>5. "temp" \notin Spilled /\ a \in Reg \cup Spilled /\ SpilledBytes \subseteq Spilled
  BY <1>1, <1>3, <1>4, RetIs, SourcesAssumption DEF Spilled
<1>6. \A c \in CaptureWrites(site, ri) : c \in Reg
  <2>1. "BX" \in Reg /\ "AX" \in Reg
    BY Kinds DEF Wide, WordRegs
  <2>2. QED
    BY <1>1, <1>4, <2>1, WritesAre
<1>7. ASSUME NEW k \in DOMAIN site.rets, ~ResultLost(site, k)
      PROVE  ResultAt(k)'
  <2>1. ResultAt(k) /\ k \in Nat /\ ri \in Nat
    BY <1>1, <1>2, <1>7, RetIs DEF ResultsInv
  <2>2. (ViaTemp(site, k)' <=> ViaTemp(site, k))
    BY <1>1, SameSite
  <2>3. CASE k = ri
    <3>1. Left(k)
      BY <1>1, <2>1, <2>3 DEF ResultAt, Waits
    <3>2. w[1] = Ret(k)[1] /\ (~IsByte(a) => w[2] = Ret(k)[2])
      BY <1>1, <1>3, <1>7, <2>3, <3>1, TakenIs
    <3>3. ~Waits(k)'
      BY <1>1, <2>1, <2>3 DEF Waits
    <3>4. CASE ViaTemp(site, k)
      <4>1. regs["BP"] = FrameBP
        BY <1>1, <1>7, <3>4, FrameReached
      <4>2. mem' = Store(regs, mem, "temp", w)
        BY <1>4, <2>3, <3>4
      <4>3. mem'["temp"][1] = w[1] /\ mem'["temp"][2] = w[2]
        BY <1>2, <1>4, <1>5, <4>1, <4>2, StoreOnly DEF CallFile
      <4>4. InTemp(k)'
        BY <1>1, <1>3, <2>3, <3>2, <4>3 DEF InTemp, Ret
      <4>5. Parked(k)'
        BY <1>1, <2>2, <3>4 DEF Parked
      <4>6. QED
        BY <3>3, <4>4, <4>5 DEF ResultAt
    <3>5. CASE ~ViaTemp(site, k)
      <4>1. ASSUME a \in Spilled PROVE mem'[a][1] = w[1] /\ (a \notin SpilledBytes => mem'[a][2] = w[2])
        <5>1. regs["BP"] = FrameBP
          BY <1>1, <1>3, <1>7, <2>3, <4>1, FrameReached
        <5>2. mem' = Store(regs, mem, a, w)
          BY <1>4, <2>3, <3>5, <4>1
        <5>3. QED
          BY <1>2, <1>4, <4>1, <5>1, <5>2, StoreOnly DEF CallFile
      <4>2. InAct(k)'
        BY <1>1, <1>3, <1>4, <1>7, <2>3, <3>2, <3>5, <4>1, ActHas
      <4>3. ~Parked(k)'
        BY <2>2, <3>5 DEF Parked
      <4>4. QED
        BY <3>3, <4>2, <4>3 DEF ResultAt
    <3>6. QED
      BY <3>4, <3>5
  <2>4. CASE k > ri
    <3>1. Left(k)
      BY <1>1, <2>1, <2>4 DEF ResultAt, Waits
    <3>2. Waits(k)'
      BY <1>1, <2>1, <2>4 DEF Waits
    <3>3. PICK e : e = site.rets[k].exp
      OBVIOUS
    <3>4. ASSUME e \in Reg, NEW x \in Wide, NEW h \in 1 .. 2, Part(e, x, h)
          PROVE  regs'[x][h] = regs[x][h]
      <4>1. e # STACK
        BY <1>1, <1>7, <3>4, RetIs
      <4>2. \A c \in CaptureWrites(site, ri) : ~pregs_alias(c, e)
        BY <1>4, <1>7, <2>4, <3>3, <4>1 DEF ResultLost, Overwritten
      <4>3. \A c \in CaptureWrites(site, ri) : ~Part(c, x, h)
        BY <1>6, <3>4, <4>2, PartsAlias
      <4>4. QED
        BY <1>4, <4>3 DEF Outside
    <3>5. Left(k)'
      BY <1>1, <1>7, <3>1, <3>3, <3>4, LeftStays
    <3>6. QED
      BY <3>2, <3>5 DEF ResultAt
  <2>5. CASE k < ri
    <3>1. ~Waits(k) /\ ~Waits(k)'
      BY <1>1, <2>1, <2>5 DEF Waits
    <3>2. CASE ViaTemp(site, k)
      <4>1. InTemp(k) /\ Parked(k)'
        BY <1>1, <2>1, <2>2, <3>1, <3>2 DEF ResultAt, Parked
      <4>2. ~ViaTemp(site, ri)
        BY <1>4, <1>7, <2>1, <2>5, <3>2 DEF ResultLost, TempTaken
      <4>3. mem'["temp"] = mem["temp"]
        <5>1. CASE a \in Spilled
          <6>1. mem' = Store(regs, mem, a, w)
            BY <1>4, <4>2, <5>1
          <6>2. QED
            BY <1>2, <1>4, <1>5, <5>1, <6>1, StoreOnly DEF CallFile
        <5>2. QED
          BY <1>4, <4>2, <5>1
      <4>4. InTemp(k)'
        BY <1>1, <4>1, <4>3 DEF InTemp, Ret
      <4>5. QED
        BY <3>1, <4>1, <4>4 DEF ResultAt
    <3>3. CASE ~ViaTemp(site, k)
      <4>1. InAct(k) /\ ~Parked(k)'
        BY <2>1, <2>2, <3>1, <3>3 DEF ResultAt, Parked
      <4>2. PICK b : b = site.rets[k].act
        OBVIOUS
      <4>3. ASSUME b \in Spilled PROVE mem'[b] = mem[b]
        <5>1. b # a /\ b # "temp"
          BY <1>1, <1>3, <1>4, <1>5, <1>7, <2>1, <2>5, <4>2, <4>3, ActsApart
        <5>2. CASE ViaTemp(site, ri)
          <6>1. mem' = Store(regs, mem, "temp", w)
            BY <1>4, <5>2
          <6>2. QED
            BY <1>2, <1>4, <4>3, <5>1, <6>1, StoreOnly DEF CallFile
        <5>3. CASE ~ViaTemp(site, ri) /\ a \in Spilled
          <6>1. mem' = Store(regs, mem, a, w)
            BY <1>4, <5>3
          <6>2. QED
            BY <1>2, <1>4, <4>3, <5>1, <5>3, <6>1, StoreOnly DEF CallFile
        <5>4. QED
          BY <1>4, <5>2, <5>3
      <4>4. ASSUME b \in Reg, NEW x \in Wide, NEW h \in 1 .. 2, Part(b, x, h)
            PROVE  regs'[x][h] = regs[x][h]
        <5>1. \A c \in CaptureWrites(site, ri) : ~pregs_alias(c, b)
          BY <1>4, <1>7, <2>1, <2>5, <3>3, <4>2 DEF ResultLost, Overwritten
        <5>2. \A c \in CaptureWrites(site, ri) : ~Part(c, x, h)
          BY <1>6, <4>4, <5>1, PartsAlias
        <5>3. QED
          BY <1>4, <5>2 DEF Outside
      <4>5. InAct(k)'
        BY <1>1, <1>7, <4>1, <4>2, <4>3, <4>4, ActStays
      <4>6. QED
        BY <3>1, <4>1, <4>5 DEF ResultAt
    <3>4. QED
      BY <3>2, <3>3
  <2>6. QED
    BY <2>1, <2>3, <2>4, <2>5
<1>8. QED
  BY <1>1, <1>7, SameSite DEF ResultsInv

\* The ends of the loops, and dropping the area: the flags take the slot only of a call
\* that has no result in it.
LEMMA ResultsLoop ==
    ASSUME CallBefore, CallAfter, ResultsInv, EndCapture \/ DropArea \/ EndCall
    PROVE  ResultsInv'
<1>1. /\ site' = site /\ regs' = regs /\ ri' = ri /\ Counting /\ Returns /\ \E F \in Sites : site \in F
      /\ \/ pc = "capture" /\ ri = Len(site.rets) + 1 /\ pc' = "cleanup" /\ mem' = mem
         \/ pc = "cleanup" /\ pc' = "restore"
         \/ pc = "reload" /\ ri = Len(site.rets) + 1 /\ pc' = "end" /\ mem' = mem
  BY DEF EndCapture, DropArea, EndCall, siteVars, CallAfter, Returns, CallBefore, SiteAt
<1>2. ASSUME NEW k \in DOMAIN site.rets, ~ResultLost(site, k)
      PROVE  ResultAt(k)'
  <2>1. ResultAt(k) /\ (ViaTemp(site, k)' <=> ViaTemp(site, k))
    BY <1>1, <1>2, SameSite DEF ResultsInv
  <2>2. pc \in {"capture", "reload"} => k < ri
    BY <1>1, <1>2, RetIs
  <2>3. ~Waits(k) /\ ~Waits(k)' /\ (Parked(k)' <=> Parked(k))
    BY <1>1, <2>1, <2>2 DEF Waits, Parked
  <2>4. ASSUME ViaTemp(site, k) PROVE mem' = mem
    <3>1. CASE pc = "cleanup"
      <4>1. ~(call_area_words(site) > 0 /\ site.flags)
        BY <1>2, <2>4 DEF ResultLost, TempTaken
      <4>2. DropArea
        BY <3>1 DEF EndCapture, EndCall
      <4>3. QED
        BY <4>1, <4>2 DEF DropArea
    <3>2. QED
      BY <1>1, <3>1
  <2>5. \A h \in Spilled : mem'[h] = mem[h]
    <3>1. CASE pc = "cleanup"
      <4>1. "temp" \notin Spilled /\ DropArea /\ DOMAIN mem = Spilled \cup {"temp"}
        BY <1>1, <3>1, SourcesAssumption DEF EndCapture, EndCall, Counting, CallFile
      <4>2. QED
        BY <4>1 DEF DropArea
    <3>2. QED
      BY <1>1, <3>1
  <2>6. CASE Parked(k)
    <3>1. InTemp(k) /\ mem' = mem
      BY <2>1, <2>3, <2>4, <2>6 DEF ResultAt, Parked
    <3>2. InTemp(k)'
      BY <1>1, <3>1 DEF InTemp, Ret
    <3>3. QED
      BY <2>3, <2>6, <3>2 DEF ResultAt
  <2>7. CASE ~Parked(k)
    <3>1. InAct(k)
      BY <2>1, <2>3, <2>7 DEF ResultAt
    <3>2. InAct(k)'
      BY <1>1, <1>2, <2>5, <3>1, ActStays
    <3>3. QED
      BY <2>3, <2>7, <3>2 DEF ResultAt
  <2>8. QED
    BY <2>6, <2>7
<1>3. QED
  BY <1>1, <1>2, SameSite DEF ResultsInv

\* The restores pop no register that a result was captured into.
LEMMA ResultsRestore ==
    ASSUME CallBefore, CallAfter, ResultsInv, emit_call_restores
    PROVE  ResultsInv'
<1>1. /\ site' = site /\ mem' = mem /\ ri' = 1 /\ Returns /\ (\E F \in Sites : site \in F)
      /\ pc = "restore" /\ pc' = "reload"
  BY DEF emit_call_restores, CallAfter, Returns, CallBefore, SiteAt
<1>2. \A r \in Wide : regs'[r] = IF r \in ToSet(CallOrder) THEN CallRegs[r] ELSE regs[r]
  BY AfterRestores
<1>3. ASSUME NEW k \in DOMAIN site.rets, ~ResultLost(site, k)
      PROVE  ResultAt(k)'
  <2>1. ResultAt(k) /\ (ViaTemp(site, k)' <=> ViaTemp(site, k))
    BY <1>1, <1>3, SameSite DEF ResultsInv
  <2>2. k \in Nat \ {0}
    BY <1>1, <1>3, RetIs
  <2>3. /\ ~Waits(k) /\ ~Waits(k)'
        /\ (Parked(k) <=> ViaTemp(site, k)) /\ (Parked(k)' <=> ViaTemp(site, k))
    BY <1>1, <2>1, <2>2 DEF Waits, Parked
  <2>4. CASE ViaTemp(site, k)
    <3>1. InTemp(k)
      BY <2>1, <2>3, <2>4 DEF ResultAt
    <3>2. InTemp(k)'
      BY <1>1, <3>1 DEF InTemp, Ret
    <3>3. QED
      BY <2>3, <2>4, <3>2 DEF ResultAt
  <2>5. CASE ~ViaTemp(site, k)
    <3>1. PICK a, r : a = site.rets[k].act /\ r = PushReg(a)
      OBVIOUS
    <3>2. InAct(k)
      BY <2>1, <2>3, <2>5 DEF ResultAt
    <3>3. ASSUME a \in Reg PROVE r \in Wide /\ r \notin ToSet(CallOrder)
      <4>1. r \in Wide /\ a \in Preg
        BY <3>1, <3>3, Kinds DEF Reg
      <4>2. ret_capture_restore_reg(a) = r /\ pregs_alias(r, r) /\ r # "SP"
        BY <3>1, <4>1 DEF ret_capture_restore_reg, pregs_alias, Wide, WordRegs, SegRegs, NONE
      <4>3. ASSUME r \in ToSet(call_saved(site)) PROVE FALSE
        <5>1. PICK i \in DOMAIN call_saved(site) : call_saved(site)[i] = r
          BY <4>3 DEF ToSet
        <5>2. call_saved_restores_reg(site, r)
          BY <4>2, <5>1 DEF call_saved_restores_reg
        <5>3. ViaTemp(site, k) \/ HalfPopped(site, k)
          BY <3>1, <4>1, <4>2, <5>2 DEF ViaTemp, HalfPopped
        <5>4. QED
          BY <1>3, <2>5, <5>3 DEF ResultLost
      <4>4. ASSUME r \in ToSet(CallOrder), r \notin ToSet(call_saved(site)) PROVE FALSE
        <5>1. call_saved(site) \in Seq(Wide)
          BY <1>1, CallSavedOver
        <5>2. save_set_uses_pusha(call_saved(site)) /\ r \in ToSet(PushaOrder)
          BY <4>4, <5>1, SaveOrderOnly DEF CallOrder
        <5>3. LostToPopa(site, k)
          BY <2>5, <3>1, <4>1, <4>2, <5>2 DEF LostToPopa, preg_covered_by_pusha
        <5>4. QED
          BY <1>3, <5>3 DEF ResultLost
      <4>5. QED
        BY <4>1, <4>3, <4>4
    <3>4. ASSUME a \in Reg, NEW w \in Wide, NEW h \in 1 .. 2, Part(a, w, h)
          PROVE  regs'[w][h] = regs[w][h]
      BY <1>2, <3>1, <3>3, <3>4 DEF Part
    <3>5. InAct(k)'
      BY <1>1, <1>3, <3>1, <3>2, <3>4, ActStays
    <3>6. QED
      BY <2>3, <2>5, <3>5 DEF ResultAt
  <2>6. QED
    BY <2>4, <2>5
<1>4. QED
  BY <1>1, <1>3, SameSite DEF ResultsInv

\* What was kept in the temp slot is loaded where it is to be.
LEMMA ResultsReload ==
    ASSUME CallBefore, CallAfter, ResultsInv, ReloadResult
    PROVE  ResultsInv'
<1>1. /\ site' = site /\ mem' = mem /\ ri' = ri + 1 /\ Returns /\ Counting
      /\ pc = "reload" /\ pc' = "reload"
  BY DEF ReloadResult, CallAfter, Returns
<1>2. PICK a : a = site.rets[ri].act
  OBVIOUS
<1>3. /\ (\E F \in Sites : site \in F) /\ ri \in DOMAIN site.rets /\ a \in Reg \cup Spilled
      /\ ri \notin temp_ret => regs' = regs
      /\ ri \in temp_ret =>
            /\ ViaTemp(site, ri) /\ a \in Reg /\ Outside({a}, regs, regs')
            /\ regs["BP"] = FrameBP =>
                  Byte(regs', a) = mem["temp"][1] /\ (a \in Wide => regs'[a] = mem["temp"])
  BY <1>2, ReloadIs
<1>4. ASSUME NEW k \in DOMAIN site.rets, ~ResultLost(site, k)
      PROVE  ResultAt(k)'
  <2>1. ResultAt(k) /\ (ViaTemp(site, k)' <=> ViaTemp(site, k)) /\ k \in Nat /\ ri \in Nat
    BY <1>1, <1>3, <1>4, RetIs, SameSite DEF ResultsInv
  <2>2. ~Waits(k) /\ ~Waits(k)'
    BY <1>1 DEF Waits
  <2>3. CASE k = ri /\ ViaTemp(site, k)
    <3>1. InTemp(k) /\ ~Parked(k)'
      BY <1>1, <2>1, <2>2, <2>3 DEF ResultAt, Parked
    <3>2. k \in temp_ret /\ regs["BP"] = FrameBP
      BY <1>1, <1>3, <1>4, <2>3, FrameReached DEF Counting
    <3>3. PICK w : w = mem["temp"]
      OBVIOUS
    <3>4. /\ w[1] = Ret(k)[1] /\ (~IsByte(a) => w[2] = Ret(k)[2])
          /\ Byte(regs', a) = w[1] /\ (a \in Wide => regs'[a] = w) /\ a \notin Spilled
      BY <1>2, <1>3, <2>3, <3>1, <3>2, <3>3, Kinds DEF InTemp
    <3>5. InAct(k)'
      BY <1>1, <1>2, <1>3, <1>4, <2>3, <3>4, ActHas
    <3>6. QED
      BY <2>2, <3>1, <3>5 DEF ResultAt
  <2>4. CASE ~(k = ri /\ ViaTemp(site, k))
    <3>1. (Parked(k)' <=> Parked(k))
      BY <1>1, <2>1, <2>4 DEF Parked
    <3>2. CASE Parked(k)
      <4>1. InTemp(k)'
        BY <1>1, <2>1, <2>2, <3>2 DEF ResultAt, InTemp, Ret
      <4>2. QED
        BY <2>2, <3>1, <3>2, <4>1 DEF ResultAt
    <3>3. CASE ~Parked(k)
      <4>1. PICK b : b = site.rets[k].act
        OBVIOUS
      <4>2. InAct(k)
        BY <2>1, <2>2, <3>3 DEF ResultAt
      <4>3. ASSUME b \in Reg, NEW w \in Wide, NEW h \in 1 .. 2, Part(b, w, h)
            PROVE  regs'[w][h] = regs[w][h]
        <5>1. CASE ri \in temp_ret
          <6>1. ~pregs_alias(a, b)
            BY <1>2, <1>3, <1>4, <2>4, <4>1, <5>1, ActsApart
          <6>2. ~Part(a, w, h)
            BY <1>3, <4>3, <5>1, <6>1, PartsAlias
          <6>3. QED
            BY <1>3, <5>1, <6>2 DEF Outside
        <5>2. QED
          BY <1>3, <5>1
      <4>4. InAct(k)'
        BY <1>1, <1>3, <1>4, <4>1, <4>2, <4>3, ActStays
      <4>5. QED
        BY <2>2, <3>1, <3>3, <4>4 DEF ResultAt
    <3>4. QED
      BY <3>2, <3>3
  <2>5. QED
    BY <2>3, <2>4
<1>5. QED
  BY <1>1, <1>4, SameSite DEF ResultsInv

\* The results, through every step.
LEMMA ResultsStep ==
    ASSUME FrameInv, CallBefore, CallAfter, ResultsInv, [Next]_fvars
    PROVE  ResultsInv'
<1>1. CASE UNCHANGED fvars
  <2>1. UNCHANGED <<pc, stack, regs, mem, ri, site>>
    BY <1>1 DEF fvars, vars, siteVars
  <2>2. ASSUME NEW k PROVE (ResultAt(k)' <=> ResultAt(k)) /\ (ResultLost(site, k)' <=> ResultLost(site, k))
    <3>1. (Waits(k)' <=> Waits(k)) /\ (Parked(k)' <=> Parked(k))
      BY <2>1, SameSite DEF Waits, Parked
    <3>2. (Left(k)' <=> Left(k))
      BY <2>1 DEF Left, AtExp, Byte, Word, Ret, AreaIndex, StackRets
    <3>3. (InTemp(k)' <=> InTemp(k)) /\ (InAct(k)' <=> InAct(k))
      BY <2>1 DEF InTemp, InAct, Holds, Byte, Word, Ret
    <3>4. QED
      BY <2>1, <3>1, <3>2, <3>3, SameSite DEF ResultAt
  <2>3. QED
    BY <2>1, <2>2 DEF ResultsInv, Returns
<1>2. CASE EmitCall \/ CaptureResult \/ EndCapture \/ DropArea \/ emit_call_restores
           \/ ReloadResult \/ EndCall
  BY <1>2, ResultsCall, ResultsCapture, ResultsLoop, ResultsRestore, ResultsReload
<1>3. CASE emit_call_saves \/ PushArea \/ MoveArgs \/ SiteMoves
  <2>1. pc' \in {"area", "args", "moves", "pops", "placed"}
    <3>1. emit_call_saves \/ PushArea \/ MoveArgs => pc' \in {"area", "args", "moves"}
      BY DEF emit_call_saves, PushArea, MoveArgs, StartMoves
    <3>2. SiteMoves => pc' \in {"moves", "pops", "placed"}
      BY MoveStepKeeps DEF SiteMoves, FrameInv
    <3>3. QED
      BY <1>3, <3>1, <3>2
  <2>2. QED
    BY <2>1 DEF ResultsInv, Returns
<1>4. CASE FrameStep
  BY <1>4, NoCallIn DEF ResultsInv, Returns
<1>5. QED
  BY <1>1, <1>2, <1>3, <1>4 DEF Next, SiteStep, CallNext

\* At the end of the call the results are where they are to be.
LEMMA ResultsThere ==
    ASSUME CallBefore, ResultsInv
    PROVE  ResultsKept
BY DEF ResultsInv, Returns, ResultsKept, ResultAt, Waits, Parked, InAct

-----------------------------------------------------------------------------
(* The call temp slot. *)

Temp0 == mem["temp"] = ValueBefore("temp")
TempInv ==
    /\ site = NoSite => temp_ret = {} /\ Temp0
    /\ site # NoSite => /\ temp_ret = {} \/ needs_call_temp(site)
                        /\ Temp0 \/ (needs_call_temp(site) /\ site.frame)

\* A step that leaves the slot and its results alone.
LEMMA TempStays ==
    ASSUME TempInv, site' = site, temp_ret' = temp_ret \/ temp_ret' = {}, mem'["temp"] = mem["temp"]
    PROVE  TempInv'
<1>1. (Temp0' <=> Temp0)
  BY DEF Temp0, ValueBefore
<1>2. (needs_call_temp(site)' <=> needs_call_temp(site))
  OBVIOUS
<1>3. QED
  BY <1>1, <1>2 DEF TempInv

\* A store elsewhere.
LEMMA StoreApart ==
    ASSUME DOMAIN mem = Spilled \cup {"temp"}, NEW a, a \in Spilled, NEW w
    PROVE  Store(regs, mem, a, w)["temp"] = mem["temp"]
<1>1. a # "temp" /\ a \in DOMAIN mem /\ "temp" \in DOMAIN mem
  BY SourcesAssumption
<1>2. QED
  BY <1>1 DEF Store

\* The word above the return address that a value leaving on the stack goes to.
LEMMA SlotIs ==
    ASSUME \E F \in Fns : fn \in F, NEW k, k \in DOMAIN fn.out, fn.out[k].dst = STACK
    PROVE  SlotOf(k) \in SpilledWords
<1>1. PICK out, n : out = fn.out /\ n \in Nat /\ DOMAIN out = 1 .. n /\ k \in 1 .. n
  BY OutIs
<1>2. PICK P, Q : P = {j \in 1 .. n : out[j].dst = STACK} /\ Q = {j \in 1 .. k : out[j].dst = STACK}
  OBVIOUS
<1>3. IsFiniteSet(P) /\ Q \subseteq P /\ k \in Q
  <2>1. IsFiniteSet(1 .. n)
    BY ONLY FS_Interval, <1>1, 1 \in Int, \A i \in Nat : i \in Int
  <2>2. P \subseteq 1 .. n /\ Q \subseteq P /\ k \in Q
    BY <1>1, <1>2
  <2>3. QED
    BY ONLY <2>1, <2>2, FS_Subset
<1>4. IsFiniteSet(Q) /\ Cardinality(Q) <= Cardinality(P) /\ Cardinality(Q) \in Nat /\ Cardinality(P) \in Nat
  BY ONLY <1>3, FS_Subset, FS_CardinalityType
<1>5. Cardinality(Q) # 0
  BY ONLY <1>3, <1>4, FS_EmptySet
<1>6. StackSlot \in Seq(SpilledWords) /\ Cardinality(P) <= Len(StackSlot)
  BY <1>1, <1>2, FnsAssumption
<1>7. PICK q : q = Cardinality(Q) /\ q \in 1 .. Len(StackSlot)
  BY <1>4, <1>5, <1>6
<1>8. StackSlot[q] \in SpilledWords
  BY <1>6, <1>7
<1>9. QED
  BY <1>1, <1>2, <1>7, <1>8 DEF SlotOf

\* A function stores to its slots.
LEMMA TempFunction ==
    ASSUME FrameInv, KeptInv, CallBefore, TempInv, FrameStep
    PROVE  TempInv'
<1>1. ASSUME EntryMove PROVE TempInv'
  <2>1. site' = site /\ temp_ret' = temp_ret /\ DOMAIN mem = Spilled \cup {"temp"}
    BY <1>1 DEF EntryMove, FrameInv, FrameBegins, Machine
  <2>2. PICK a : a = fn.params[ri].act
    OBVIOUS
  <2>3. mem' = mem \/ (a \in Spilled /\ \E w : mem' = Store(regs, mem, a, w))
    BY <1>1, <2>2 DEF EntryMove
  <2>4. mem'["temp"] = mem["temp"]
    BY <2>1, <2>3, StoreApart
  <2>5. QED
    BY <2>1, <2>4, TempStays
<1>2. ASSUME PopOut PROVE TempInv'
  <2>1. /\ site' = site /\ temp_ret' = temp_ret /\ pc = "outs" /\ (\E F \in Fns : fn \in F)
        /\ DOMAIN mem = Spilled \cup {"temp"} /\ mi \in 0 .. Len(Leaving) /\ mi > 0
    BY <1>2 DEF PopOut, siteVars, KeptInv, RegsKept, FunctionAt, LaidOut, Within
  <2>2. PICK ks, k : ks = Leaving /\ ks \in Seq(DOMAIN fn.out) /\ k = ks[mi]
    BY <2>1, LeavingIs
  <2>3. mi \in 1 .. Len(ks) /\ DOMAIN ks = 1 .. Len(ks)
    BY <2>1, <2>2
  <2>4. k \in DOMAIN fn.out
    BY ONLY <2>2, <2>3, ElementsIn
  <2>5. mem' = mem \/ (fn.out[k].dst = STACK /\ \E w : mem' = Store(regs, mem, SlotOf(k), w))
    BY <1>2, <2>2 DEF PopOut
  <2>6. fn.out[k].dst = STACK => SlotOf(k) \in Spilled
    BY <2>1, <2>4, SlotIs DEF Spilled
  <2>7. mem'["temp"] = mem["temp"]
    BY <2>1, <2>5, <2>6, StoreApart
  <2>8. QED
    BY <2>1, <2>7, TempStays
<1>3. ASSUME \/ Prologue \/ EndParams \/ Body \/ StackReturn \/ TailArgs \/ EndOut \/ PlanReturn
             \/ ReturnMove \/ EndReturn \/ StartTail \/ TailMoves \/ PopTarget \/ emit_epilogue
      PROVE  TempInv'
  <2>1. site' = site /\ temp_ret' = temp_ret /\ mem' = mem
    BY <1>3 DEF Prologue, EndParams, Body, StackReturn, TailArgs, PushOut, EndOut, PlanReturn,
                ReturnMove, EndReturn, StartTail, TailMoves, StartMoves, PopTarget, emit_epilogue,
                siteVars
  <2>2. QED
    BY <2>1, TempStays
<1>4. QED
  BY <1>1, <1>2, <1>3 DEF FrameStep

\* A call keeps results and flags in the slot only if the frame has one.
LEMMA TempCall ==
    ASSUME FrameInv, CallBefore, CallAfter, TempInv, CallNext
    PROVE  TempInv'
<1>1. ASSUME \/ emit_call_saves \/ PushArea \/ MoveArgs \/ SiteMoves \/ EndCapture \/ emit_call_restores
             \/ ReloadResult \/ EndCall
      PROVE  TempInv'
  <2>1. site' = site /\ temp_ret' = temp_ret /\ mem' = mem
    BY <1>1 DEF emit_call_saves, PushArea, MoveArgs, StartMoves, SiteMoves, MoveStep, EmitMove, SaveMove,
                StartPops, PopSaved, EndPops, EndCapture, emit_call_restores, ReloadResult, EndCall, siteVars
  <2>2. QED
    BY <2>1, TempStays
<1>2. ASSUME EmitCall PROVE TempInv'
  <2>1. site' = site /\ temp_ret' = {} /\ \E F \in Sites : site \in F
    BY <1>2, AfterInstruction DEF EmitCall
  <2>2. site # NoSite /\ Allocated(site) /\ site.frame \in BOOLEAN
    BY <2>1, NoMovesYet, SitesAssumption
  <2>3. mem' = mem \/ needs_call_temp(site)
    BY <1>2 DEF EmitCall
  <2>4. CASE mem' = mem
    BY <2>1, <2>4, TempStays
  <2>5. CASE needs_call_temp(site)
    <3>1. site.frame
      BY <2>2, <2>5 DEF Allocated
    <3>2. QED
      BY <2>1, <2>2, <2>5, <3>1 DEF TempInv
  <2>6. QED
    BY <2>3, <2>4, <2>5
<1>3. ASSUME CaptureResult PROVE TempInv'
  <2>1. /\ site' = site /\ Counting /\ (\E F \in Sites : site \in F) /\ pc = "capture"
    BY <1>3 DEF CaptureResult, CallAfter, Returns, CallBefore, SiteAt
  <2>2. CallFile /\ ri \in Nat \ {0} /\ site # NoSite
    BY <2>1, NoMovesYet DEF Counting
  <2>3. PICK a, w : a = site.rets[ri].act /\ w = TakenWord(ri)
    OBVIOUS
  <2>4. /\ ri \in DOMAIN site.rets
        /\ mem' = IF ViaTemp(site, ri) THEN Store(regs, mem, "temp", w)
                  ELSE IF a \in Spilled THEN Store(regs, mem, a, w) ELSE mem
        /\ temp_ret' = IF ViaTemp(site, ri) THEN temp_ret \cup {ri} ELSE temp_ret
    BY <1>3, <2>2, <2>3, CaptureIs
  <2>5. CASE ViaTemp(site, ri)
    <3>1. needs_call_temp(site) /\ site.frame
      BY <2>1, <2>4, <2>5, ViaTempNeeds
    <3>2. QED
      BY <2>1, <2>2, <3>1 DEF TempInv
  <2>6. CASE ~ViaTemp(site, ri)
    <3>1. mem'["temp"] = mem["temp"]
      BY <2>2, <2>4, <2>6, StoreApart DEF CallFile
    <3>2. QED
      BY <2>1, <2>4, <2>6, <3>1, TempStays
  <2>7. QED
    BY <2>5, <2>6
<1>4. ASSUME DropArea PROVE TempInv'
  <2>1. site' = site /\ temp_ret' = temp_ret /\ (\E F \in Sites : site \in F)
    BY <1>4 DEF DropArea, CallBefore, SiteAt, Returns
  <2>2. site # NoSite /\ Allocated(site) /\ site.frame \in BOOLEAN
    BY <2>1, NoMovesYet, SitesAssumption
  <2>3. mem' = mem \/ (call_area_words(site) > 0 /\ site.flags)
    BY <1>4 DEF DropArea
  <2>4. CASE mem' = mem
    BY <2>1, <2>4, TempStays
  <2>5. CASE call_area_words(site) > 0 /\ site.flags
    <3>1. needs_call_temp(site)
      BY <2>5 DEF needs_call_temp
    <3>2. site.frame
      BY <2>2, <3>1 DEF Allocated
    <3>3. QED
      BY <2>1, <2>2, <3>1, <3>2 DEF TempInv
  <2>6. QED
    BY <2>3, <2>4, <2>5
<1>5. QED
  BY <1>1, <1>2, <1>3, <1>4 DEF CallNext

\* Every result of a call reaches its vreg, apart from the calls that are listed as lost, by
\* way of the call temp slot where its register is popped afterwards; and the slot is written
\* only in functions whose frame has one (CaptureResult, EmitCall and DropArea against the
\* driver's needs_call_temp).
THEOREM ResultsReach == Spec => []ResultsReachVregs
<1>1. Init => FrameInv /\ KeptInv /\ ContractKept /\ CallBefore /\ CallAfter /\ ResultsInv /\ TempInv
  <2>1. SUFFICES ASSUME Init PROVE CallAfter /\ ResultsInv /\ TempInv
    BY InitHolds, KeptFirst, NoCallYet
  <2>2. pc \in {"saves", "prologue"} /\ temp_ret = {} /\ Temp0
    <3>1. pc \in {"saves", "prologue"} /\ temp_ret = {}
          /\ mem = [h \in Spilled \cup {"temp"} |-> <<Orig(h, 1), Orig(h, 2)>>]
      BY <2>1 DEF Init, CallInit, FrameInit, InitMachine
    <3>2. "temp" \notin ByteRegs
      BY DEF ByteRegs
    <3>3. QED
      BY <3>1, <3>2 DEF Temp0, ValueBefore
  <2>3. QED
    BY <2>2 DEF CallAfter, ResultsInv, Returns, TempInv
<1>2. FrameInv /\ KeptInv /\ ContractKept /\ CallBefore /\ CallAfter /\ ResultsInv /\ TempInv /\ [Next]_fvars
      => FrameInv' /\ KeptInv' /\ ContractKept' /\ CallBefore' /\ CallAfter' /\ ResultsInv' /\ TempInv'
  <2>1. SUFFICES ASSUME FrameInv, KeptInv, ContractKept, CallBefore, CallAfter, ResultsInv, TempInv,
                        [Next]_fvars
                 PROVE  TempInv'
    BY InvStep, KeptStep, CallBeforeStep, CallAfterStep, ResultsStep
  <2>2. CASE UNCHANGED fvars
    <3>1. UNCHANGED <<site, temp_ret, mem>>
      BY <2>2 DEF fvars, vars, siteVars
    <3>2. QED
      BY <2>1, <3>1, TempStays
  <2>3. QED
    BY <2>1, <2>2, TempFunction, TempCall DEF Next, SiteStep
<1>3. CallBefore /\ ResultsInv /\ TempInv => ResultsReachVregs
  <2>1. ASSUME TempInv PROVE TempSlotReserved
    BY <2>1 DEF TempInv, Temp0, TempSlotReserved
  <2>2. QED
    BY <2>1, ResultsThere DEF ResultsReachVregs
<1>4. QED
  BY <1>1, <1>2, <1>3, PTL DEF Spec

-----------------------------------------------------------------------------
(* Exits.  The values that leave a function, results and arguments of tail   *)
(* calls, are followed from the locations of their parameters, over the      *)
(* stack or the moves, to where the caller or the next function expects      *)
(* them, and so is the target of a near tail call.                           *)

\* The parameter that leaves k-th, and where to.
From(k) == fn.out[k].p
Dest(k) == IF fn.out[k].dst = STACK THEN SlotOf(k) ELSE fn.out[k].dst

Stays(p) == InPlace(p) \/ ParamLost(p)
Gone(k)  == Holds(Dest(k), EntryValue(From(k))) \/ OutLost(k)

\* The word w has the value of parameter p, as far as the location of p keeps it.
Carries(w, p) ==
    w[1] = EntryValue(p)[1] /\ (IsByte(fn.params[p].act) \/ w[2] = EntryValue(p)[2])

\* Values on the stack: the words for the values not popped yet lie on top.
OnTheirWay ==
    /\ fn.exit \in {"ret", "tail"} /\ (fn.exit = "ret" => UsesStack(fn))
    /\ \A n \in 1 .. mi : Carries(stack[mi + 1 - n], From(Leaving[n])) \/ OutLost(Leaving[n])
    /\ \A k \in DOMAIN fn.out : (\A n \in 1 .. mi : Leaving[n] # k) => Gone(k)

\* Results in registers: a result that is not moved yet is where it was.
Results == Picked([k \in DOMAIN fn.out |-> k], {k \in DOMAIN fn.out : SrcLoc(k) # fn.out[k].dst})
BeingMoved ==
    /\ fn.exit = "ret" /\ ~UsesStack(fn) /\ DOMAIN moves = DOMAIN Results
    /\ \A n \in DOMAIN Results :
          /\ moves[n].dst_reg = fn.out[Results[n]].dst /\ moves[n].src = SrcLoc(Results[n])
          /\ IF moves[n].done THEN Gone(Results[n])
             ELSE InPlace(From(Results[n])) \/ OutLost(Results[n])
    /\ \A k \in DOMAIN fn.out : SrcLoc(k) = fn.out[k].dst => Gone(k)

\* The target of a near tail call is in its register, or on the stack.
Targeted(w) == w = EntryValue(fn.tgt) \/ ParamLost(fn.tgt)
TargetIn(rf, st) == IF SafeTarget THEN Targeted(rf[TargetLoc]) ELSE Targeted(st[1])
JumpReg == IF SafeTarget THEN TargetLoc ELSE choose_ntailcall_target_reg(fn)

ValuesInv ==
    /\ pc \in {"ret", "tail", "ntail", "ntailargs"} =>
          fn.exit = (IF pc = "ntailargs" THEN "ntail" ELSE pc) /\ \A p \in DOMAIN fn.params : Stays(p)
    /\ pc = "outs" => OnTheirWay
    /\ pc = "retmoves" => BeingMoved
    /\ pc = "ntailargs" => TargetIn(regs, stack)
    /\ Moving => /\ TargetIn(base.regs, base.stack)
                 /\ \A p \in DOMAIN fn.params : Value(EntryValue(p), fn.params[p].act) \/ ParamLost(p)
    /\ pc = "epilogue" =>
          /\ \A k \in DOMAIN fn.out : Gone(k)
          /\ fn.tgt # 0 => Targeted(regs[JumpReg]) \/ FramePointerMoved \/ NoStableRegister(fn)

\* Every word is a pair of bytes, so that the bytes of the target determine it.
TwoBytes(w) == w = <<w[1], w[2]>>
WordsInv ==
    pc \in {"prologue", "params", "body", "ntail"} =>
        /\ \A r \in Wide : TwoBytes(regs[r])
        /\ \A h \in SpilledWords : TwoBytes(mem[h])

-----------------------------------------------------------------------------
(* What the steps may read. *)

\* What depends on the function only.
LEMMA SameOuts ==
    ASSUME fn' = fn
    PROVE  /\ Leaving' = Leaving /\ Results' = Results /\ JumpReg' = JumpReg /\ TargetLoc' = TargetLoc
           /\ (SafeTarget' <=> SafeTarget) /\ (FramePointerMoved' <=> FramePointerMoved)
           /\ (NoStableRegister(fn)' <=> NoStableRegister(fn)) /\ (UsesStack(fn)' <=> UsesStack(fn))
           /\ \A k : /\ From(k)' = From(k) /\ Dest(k)' = Dest(k) /\ SrcLoc(k)' = SrcLoc(k)
                     /\ (OutLost(k)' <=> OutLost(k))
           /\ \A p : EntryValue(p)' = EntryValue(p) /\ (ParamLost(p)' <=> ParamLost(p))
           /\ \A w : (Targeted(w)' <=> Targeted(w))
           /\ \A w, p : (Carries(w, p)' <=> Carries(w, p))
<1>1. \A p : EntryValue(p)' = EntryValue(p) /\ (ParamLost(p)' <=> ParamLost(p))
  BY SameFn
<1>2. \A k : /\ From(k)' = From(k) /\ Dest(k)' = Dest(k) /\ SrcLoc(k)' = SrcLoc(k)
  BY DEF From, Dest, SrcLoc, SlotOf
<1>3. FramePointerMoved' <=> FramePointerMoved
  BY SameLayers
<1>4. \A k : (OutLost(k)' <=> OutLost(k))
  <2>1. TAKE k
  <2>2. /\ Exchanged(k)' <=> Exchanged(k)
        /\ OverAX(k)' <=> OverAX(k)
    BY DEF Exchanged, OverAX, SrcLoc
  <2>3. ParamLost(fn.out[k].p)' <=> ParamLost(fn.out[k].p)
    BY <1>1
  <2>4. NoStableRegister(fn)' <=> NoStableRegister(fn)
    OBVIOUS
  <2>5. QED
    BY <1>2, <1>3, <2>2, <2>3, <2>4 DEF OutLost
<1>5. /\ Leaving' = Leaving /\ Results' = Results /\ JumpReg' = JumpReg /\ TargetLoc' = TargetLoc
      /\ (SafeTarget' <=> SafeTarget)
      /\ (NoStableRegister(fn)' <=> NoStableRegister(fn)) /\ (UsesStack(fn)' <=> UsesStack(fn))
  BY SameLayers DEF Results, SrcLoc, JumpReg, TargetLoc
<1>6. /\ \A w : (Targeted(w)' <=> Targeted(w))
      /\ \A w, p : (Carries(w, p)' <=> Carries(w, p))
  BY <1>1 DEF Targeted, Carries
<1>7. QED
  BY <1>1, <1>2, <1>3, <1>4, <1>5, <1>6

\* A place and a location are of one size.
LEMMA SizesAgree ==
    ASSUME \E F \in Fns : fn \in F, NEW k, k \in DOMAIN fn.out
    PROVE  /\ From(k) \in DOMAIN fn.params /\ SrcLoc(k) = fn.params[From(k)].act
           /\ fn.out[k].dst # STACK => (fn.out[k].dst \in ByteRegs) = IsByte(SrcLoc(k))
           /\ IsByte(SrcLoc(k)) => EntryValue(From(k))[2] = Junk
<1>1. PICK out, T : out = fn.out /\ T = [p : DOMAIN fn.params, dst : Reg \cup {STACK}] /\ out \in Seq(T)
  BY FnsAssumption
<1>2. out[k] \in T
  BY ONLY <1>1, ElementsIn, k \in DOMAIN fn.out
<1>3. PICK p : p = From(k) /\ p \in DOMAIN fn.params /\ SrcLoc(k) = fn.params[p].act
  BY <1>1, <1>2 DEF From, SrcLoc
<1>4. fn.out[k].dst # STACK => (fn.out[k].dst \in ByteRegs) = IsByte(SrcLoc(k))
  BY FnsAssumption DEF SrcLoc
<1>5. IsByte(SrcLoc(k)) => EntryValue(p)[2] = Junk
  <2>1. SUFFICES ASSUME IsByte(fn.params[p].act) PROVE EntryValue(p)[2] = Junk
    BY <1>3
  <2>2. /\ fn.params[p].exp = STACK => fn.params[p].act \in SpilledWords
        /\ fn.params[p].exp # STACK => (fn.params[p].exp \in ByteRegs) = IsByte(fn.params[p].act)
    BY ONLY <1>3, ParamIs, \E F \in Fns : fn \in F
  <2>3. fn.params[p].act \notin SpilledWords
    BY <2>1, SourcesAssumption DEF IsByte, Preg, Spilled
  <2>4. fn.params[p].exp # STACK /\ fn.params[p].exp \in ByteRegs
    BY <2>1, <2>2, <2>3
  <2>5. QED
    BY <2>4 DEF EntryValue
<1>6. QED
  BY <1>3, <1>4, <1>5

\* A parameter that is in place is read from its location.
LEMMA ReadsIt ==
    ASSUME \E F \in Fns : fn \in F, RegFile(regs), MemFile, NEW p, p \in DOMAIN fn.params, InPlace(p),
           NEW s, s = fn.params[p].act, s \in Spilled => regs["BP"] = FrameBP
    PROVE  /\ Byte(regs, s) = EntryValue(p)[1]
           /\ IsByte(s) \/ Word(regs, s)[2] = EntryValue(p)[2]
           /\ Carries(rins_push_vreg_temp(regs, s), p)
<1>1. s \in Reg \cup Spilled /\ s \in Source
  BY ParamIs DEF Source
<1>2. PICK v : v = EntryValue(p) /\ Holds(s, v)
  BY DEF InPlace
<1>3. Byte(regs, s) = v[1] /\ (IsByte(s) \/ Word(regs, s)[2] = v[2])
  <2>1. CASE s \in ByteRegs
    <3>1. s \notin Spilled /\ s \notin Wide /\ IsByte(s)
      BY <2>1, SourcesAssumption, Kinds DEF IsByte, Preg
    <3>2. QED
      BY <1>2, <2>1, <3>1 DEF Holds
  <2>2. CASE s \in Wide
    <3>1. s \notin Spilled /\ s \notin ByteRegs
      BY <2>2, SourcesAssumption, Kinds DEF Wide, Preg
    <3>2. Word(regs, s) = regs[s] /\ Byte(regs, s) = regs[s][1]
      BY <2>2, <3>1 DEF Word, Byte
    <3>3. QED
      BY <1>2, <2>2, <3>1, <3>2 DEF Holds
  <2>3. CASE s \in Spilled
    <3>1. s \notin Wide /\ s \notin ByteRegs /\ s \notin Remats
      BY <2>3, SourcesAssumption, Kinds DEF Wide, Preg
    <3>2. Word(regs, s) = mem[s] /\ Byte(regs, s) = mem[s][1]
      BY <2>3, <3>1 DEF Word, Byte
    <3>3. QED
      BY <1>2, <2>3, <3>2 DEF Holds
  <2>4. QED
    BY <1>1, <2>1, <2>2, <2>3, Kinds
<1>4. Carries(rins_push_vreg_temp(regs, s), p)
  <2>1. CASE IsByte(s)
    <3>1. rins_push_vreg_temp(regs, s) = <<Byte(regs, s), regs["AX"][2]>>
      BY <2>1 DEF rins_push_vreg_temp
    <3>2. QED
      BY <1>2, <1>3, <2>1, <3>1 DEF Carries
  <2>2. CASE ~IsByte(s)
    <3>1. s \notin ByteRegs
      BY <2>2 DEF IsByte
    <3>2. Byte(regs, s) = Word(regs, s)[1] /\ rins_push_vreg_temp(regs, s) = Word(regs, s)
      BY <2>2, <3>1 DEF Byte, rins_push_vreg_temp
    <3>3. QED
      BY <1>2, <1>3, <2>2, <3>2 DEF Carries
  <2>3. QED
    BY <2>1, <2>2
<1>5. QED
  BY <1>2, <1>3, <1>4

\* The numbers up to n, in order.
LEMMA Numbers ==
    ASSUME NEW n, n \in Nat, NEW all, all = [k \in 1 .. n |-> k]
    PROVE  all \in Seq(1 .. n) /\ Len(all) = n /\ DOMAIN all = 1 .. n /\ \A k \in 1 .. n : all[k] = k
<1>1. all \in [1 .. n -> 1 .. n]
  OBVIOUS
<1>2. all \in Seq(1 .. n) /\ Len(all) = n /\ DOMAIN all = 1 .. n
  BY ONLY <1>1, n \in Nat, FunctionSeq
<1>3. QED
  BY <1>2

\* Those of P that are at most n, each once and upwards.
NumbersOf(t, P, n) ==
    /\ t \in Seq(1 .. n) /\ DOMAIN t = 1 .. Len(t) /\ Len(t) \in Nat
    /\ \A i \in 1 .. Len(t) : t[i] \in P
    /\ \A p \in P : \E i \in 1 .. Len(t) : t[i] = p
    /\ \A i, j \in 1 .. Len(t) : i < j => t[i] < t[j]

\* Numbers picked in order from the first n.
LEMMA PicksNumbers ==
    ASSUME NEW n, n \in Nat,
           NEW all, all \in Seq(1 .. n), Len(all) = n, \A k \in 1 .. n : all[k] = k,
           NEW P, P \in SUBSET (1 .. n), NEW t, t = Picked(all, P)
    PROVE  NumbersOf(t, P, n)
<1>1. PICK D : D = 1 .. n
  OBVIOUS
<1>2. all \in Seq(D) /\ Len(all) = n
  BY <1>1
<1>3. PICK pos : t \in Seq(D) /\ pos \in Seq(1 .. Len(all)) /\ Picks(all, P, Len(all), t, pos)
  <2>1. P \in SUBSET (1 .. Len(all)) /\ t = Picked(all, P)
    BY <1>1, <1>2
  <2>2. QED
    BY ONLY <1>2, <2>1, PickedIs
<1>4. DOMAIN t = 1 .. Len(t) /\ Len(t) \in Nat /\ Len(t) = Len(pos)
  <2>1. DOMAIN t = 1 .. Len(t) /\ Len(t) \in Nat
    BY ONLY <1>3, LenProperties
  <2>2. QED
    BY <1>3, <2>1 DEF Picks
<1>5. \A i \in 1 .. Len(t) : pos[i] \in P /\ t[i] = pos[i]
  BY <1>1, <1>3, <1>4 DEF Picks
<1>6. \A p \in P : \E i \in 1 .. Len(t) : pos[i] = p
  <2>1. \A p \in P : p <= Len(all)
    BY <1>2
  <2>2. QED
    BY <1>3, <1>4, <2>1 DEF Picks
<1>7. \A i, j \in 1 .. Len(t) : i < j => pos[i] < pos[j]
  BY <1>3, <1>4 DEF Picks
<1>8. QED
  BY <1>1, <1>3, <1>4, <1>5, <1>6, <1>7 DEF NumbersOf

\* The values pushed to leave on the stack: of a return all, of a tail call those that
\* are not in their slot, each once and upwards.
LEMMA LeavingUp ==
    ASSUME \E F \in Fns : fn \in F, NEW ks, ks = Leaving
    PROVE  /\ ks \in Seq(DOMAIN fn.out) /\ DOMAIN ks = 1 .. Len(ks) /\ Len(ks) \in Nat
           /\ \A i, j \in 1 .. Len(ks) : i < j => ks[i] < ks[j]
           /\ \A i \in 1 .. Len(ks) : ks[i] \in Nat
           /\ fn.exit = "ret" => \A k \in DOMAIN fn.out : k \in 1 .. Len(ks) /\ ks[k] = k
           /\ fn.exit = "ret" => \A i \in 1 .. Len(ks) : ks[i] = i
           /\ fn.exit # "ret" =>
                 /\ \A i \in 1 .. Len(ks) : fn.out[ks[i]].dst = STACK
                 /\ \A k \in DOMAIN fn.out : (\A i \in 1 .. Len(ks) : ks[i] # k)
                       => fn.out[k].dst # STACK \/ SrcLoc(k) = SlotOf(k)
<1>1. PICK n : n = Len(fn.out) /\ n \in Nat /\ DOMAIN fn.out = 1 .. n
  <2>1. PICK T, out : out = fn.out /\ out \in Seq(T)
    BY FnsAssumption
  <2>2. Len(out) \in Nat /\ DOMAIN out = 1 .. Len(out)
    BY ONLY <2>1, LenProperties
  <2>3. QED
    BY <2>1, <2>2
<1>2. PICK all : all = [k \in 1 .. n |-> k] /\ all \in Seq(1 .. n) /\ Len(all) = n /\ DOMAIN all = 1 .. n
                 /\ \A k \in 1 .. n : all[k] = k
  BY <1>1, Numbers
<1>3. PICK P : P = {k \in 1 .. n : fn.out[k].dst = STACK /\ SrcLoc(k) # SlotOf(k)}
  OBVIOUS
<1>4. ks = IF fn.exit = "ret" THEN all ELSE Picked(all, P)
  BY <1>1, <1>2, <1>3 DEF Leaving
<1>5. CASE fn.exit = "ret"
  <2>1. ks = all
    BY <1>4, <1>5
  <2>2. QED
    BY <1>1, <1>2, <1>5, <2>1
<1>6. CASE fn.exit # "ret"
  <2>1. PICK t : t = Picked(all, P) /\ ks = t
    BY <1>4, <1>6
  <2>2. P \in SUBSET (1 .. n)
    BY <1>3
  <2>3. NumbersOf(t, P, n)
    BY ONLY <1>1, <1>2, <2>1, <2>2, PicksNumbers
  <2>4. /\ t \in Seq(1 .. n) /\ DOMAIN t = 1 .. Len(t) /\ Len(t) \in Nat
        /\ \A i, j \in 1 .. Len(t) : i < j => t[i] < t[j]
        /\ \A i \in 1 .. Len(t) : t[i] \in 1 .. n
    BY <1>3, <2>3 DEF NumbersOf
  <2>5. \A i \in 1 .. Len(t) : fn.out[t[i]].dst = STACK
    BY <1>3, <2>3 DEF NumbersOf
  <2>6. ASSUME NEW k \in DOMAIN fn.out, \A i \in 1 .. Len(t) : t[i] # k
        PROVE  fn.out[k].dst # STACK \/ SrcLoc(k) = SlotOf(k)
    <3>1. k \notin P
      BY <2>3, <2>6 DEF NumbersOf
    <3>2. QED
      BY <1>1, <1>3, <2>6, <3>1
  <2>7. QED
    BY <1>1, <1>6, <2>1, <2>4, <2>5, <2>6
<1>7. QED
  BY <1>5, <1>6

\* The moves of results: those that are not in their place.
LEMMA ResultsAre ==
    ASSUME \E F \in Fns : fn \in F, NEW ks, ks = Results
    PROVE  /\ ks \in Seq(DOMAIN fn.out) /\ DOMAIN ks = 1 .. Len(ks) /\ Len(ks) \in Nat
           /\ \A i \in DOMAIN ks : ks[i] \in DOMAIN fn.out /\ SrcLoc(ks[i]) # fn.out[ks[i]].dst
           /\ \A i, j \in DOMAIN ks : i # j => ks[i] # ks[j]
           /\ \A k \in DOMAIN fn.out : SrcLoc(k) # fn.out[k].dst => \E i \in DOMAIN ks : ks[i] = k
<1>1. PICK n : n = Len(fn.out) /\ n \in Nat /\ DOMAIN fn.out = 1 .. n
  <2>1. PICK T, out : out = fn.out /\ out \in Seq(T)
    BY FnsAssumption
  <2>2. Len(out) \in Nat /\ DOMAIN out = 1 .. Len(out)
    BY ONLY <2>1, LenProperties
  <2>3. QED
    BY <2>1, <2>2
<1>2. PICK P : P = {k \in 1 .. n : SrcLoc(k) # fn.out[k].dst}
  OBVIOUS
<1>3. PICK all, t : /\ all \in Seq(1 .. n) /\ Len(all) = n /\ \A k \in 1 .. n : all[k] = k
                    /\ t = Picked(all, P) /\ ks = t
  <2>1. PICK all : all = [k \in 1 .. n |-> k]
    OBVIOUS
  <2>2. all \in Seq(1 .. n) /\ Len(all) = n /\ \A k \in 1 .. n : all[k] = k
    BY ONLY <1>1, <2>1, Numbers
  <2>3. ks = Picked(all, P)
    BY <1>1, <1>2, <2>1 DEF Results
  <2>4. QED
    BY <2>2, <2>3
<1>4. P \in SUBSET (1 .. n)
  BY <1>2
<1>5. NumbersOf(t, P, n)
  BY ONLY <1>1, <1>3, <1>4, PicksNumbers
<1>6. \A i, j \in DOMAIN t : i # j => t[i] # t[j]
  <2>1. \A i, j \in DOMAIN t : i < j => t[i] # t[j]
    BY <1>2, <1>5 DEF NumbersOf
  <2>2. \A i, j \in DOMAIN t : i < j \/ j < i \/ i = j
    BY <1>5 DEF NumbersOf
  <2>3. QED
    BY <2>1, <2>2
<1>7. /\ t \in Seq(1 .. n) /\ DOMAIN t = 1 .. Len(t) /\ Len(t) \in Nat
      /\ \A i \in DOMAIN t : t[i] \in P
  BY <1>5 DEF NumbersOf
<1>8. \A p \in P : \E i \in DOMAIN t : t[i] = p
  BY <1>5 DEF NumbersOf
<1>9. \A i \in DOMAIN t : t[i] \in DOMAIN fn.out /\ SrcLoc(t[i]) # fn.out[t[i]].dst
  BY <1>1, <1>2, <1>7
<1>10. \A k \in DOMAIN fn.out : SrcLoc(k) # fn.out[k].dst => \E i \in DOMAIN t : t[i] = k
  BY <1>1, <1>2, <1>8
<1>11. t \in Seq(DOMAIN fn.out)
  BY ONLY <1>1, <1>7
<1>12. QED
  BY <1>3, <1>6, <1>7, <1>9, <1>10, <1>11

\* Values that leave on the stack have slots of their own.
LEMMA SlotsDiffer ==
    ASSUME \E F \in Fns : fn \in F, NEW j, NEW k, j \in DOMAIN fn.out, k \in DOMAIN fn.out, j # k,
           fn.out[j].dst = STACK, fn.out[k].dst = STACK
    PROVE  SlotOf(j) # SlotOf(k)
<1>1. PICK out, n : out = fn.out /\ n \in Nat /\ DOMAIN out = 1 .. n
  BY OutIs
<1>2. PICK P : P = {i \in 1 .. n : out[i].dst = STACK} /\ j \in P /\ k \in P
  BY <1>1
<1>3. IsFiniteSet(P) /\ \A S : S \subseteq P => IsFiniteSet(S)
  <2>1. IsFiniteSet(1 .. n)
    BY ONLY FS_Interval, <1>1, 1 \in Int, \A i \in Nat : i \in Int
  <2>2. P \subseteq 1 .. n
    BY <1>2
  <2>3. IsFiniteSet(P)
    BY ONLY <2>1, <2>2, FS_Subset
  <2>4. QED
    BY ONLY <2>3, FS_Subset
<1>4. PICK Upto : Upto = [i \in P |-> {l \in 1 .. i : out[l].dst = STACK}]
  OBVIOUS
<1>5. \A i \in P : /\ Upto[i] \subseteq P /\ i \in Upto[i] /\ IsFiniteSet(Upto[i])
                   /\ SlotOf(i) = StackSlot[Cardinality(Upto[i])]
  BY <1>1, <1>2, <1>3, <1>4 DEF SlotOf
<1>6. StackSlot \in Seq(SpilledWords) /\ IsInjective(StackSlot) /\ Cardinality(P) <= Len(StackSlot)
  BY <1>1, <1>2, FnsAssumption
<1>7. Cardinality(P) \in Nat
  BY ONLY <1>3, FS_CardinalityType
<1>8. ASSUME NEW i \in P PROVE Cardinality(Upto[i]) \in DOMAIN StackSlot /\ Cardinality(Upto[i]) \in Nat
  <2>1. /\ Cardinality(Upto[i]) \in Nat /\ Cardinality(Upto[i]) # 0
        /\ Cardinality(Upto[i]) <= Cardinality(P)
    BY ONLY <1>3, <1>5, <1>8, FS_CardinalityType, FS_EmptySet, FS_Subset
  <2>2. DOMAIN StackSlot = 1 .. Len(StackSlot) /\ Len(StackSlot) \in Nat
    BY ONLY <1>6, LenProperties
  <2>3. QED
    BY <1>6, <1>7, <2>1, <2>2
<1>9. ASSUME NEW i \in P, NEW l \in P, i < l PROVE Cardinality(Upto[i]) # Cardinality(Upto[l])
  <2>1. PICK S : S = Upto[l] \ {l}
    OBVIOUS
  <2>2. IsFiniteSet(S) /\ Cardinality(S) = Cardinality(Upto[l]) - 1
    BY ONLY <1>5, <2>1, FS_RemoveElement
  <2>3. Upto[i] \subseteq S
    BY <1>2, <1>4, <1>9, <2>1
  <2>4. Cardinality(Upto[i]) <= Cardinality(S)
    BY ONLY <2>2, <2>3, FS_Subset
  <2>5. QED
    BY <1>8, <2>2, <2>4
<1>10. Cardinality(Upto[j]) # Cardinality(Upto[k])
  <2>1. j < k \/ k < j
    BY <1>1, <1>2
  <2>2. QED
    BY <1>2, <1>9, <2>1
<1>11. StackSlot[Cardinality(Upto[j])] # StackSlot[Cardinality(Upto[k])]
  BY <1>2, <1>6, <1>8, <1>10 DEF IsInjective
<1>12. QED
  BY <1>2, <1>5, <1>11

-----------------------------------------------------------------------------
(* The values stay where they are, and arrive. *)

\* A parameter whose location is left alone.
LEMMA StaysPut ==
    ASSUME \E F \in Fns : fn \in F, fn' = fn, NEW p, p \in DOMAIN fn.params, Stays(p),
           NEW a, a = fn.params[p].act,
           a \in Spilled => mem'[a] = mem[a], a \in Reg => regs'[PushReg(a)] = regs[PushReg(a)]
    PROVE  Stays(p)'
<1>1. EntryValue(p)' = EntryValue(p) /\ (ParamLost(p)' <=> ParamLost(p))
  BY SameFn
<1>2. CASE ParamLost(p)
  BY <1>1, <1>2 DEF Stays
<1>3. CASE InPlace(p)
  <2>1. PICK h, w : h = a /\ w = EntryValue(p) /\ Holds(h, w)
    BY <1>3 DEF InPlace
  <2>2. h \in Reg \cup Spilled
    BY ONLY <2>1, ParamIs, \E F \in Fns : fn \in F, p \in DOMAIN fn.params, a = fn.params[p].act
  <2>3. Holds(h, w)'
    <3>1. h \in Spilled => mem'[h] = mem[h]
      BY <2>1
    <3>2. h \in Reg => regs'[PushReg(h)] = regs[PushReg(h)]
      BY <2>1
    <3>3. QED
      BY ONLY <2>1, <2>2, <3>1, <3>2, HoldsStay
  <2>4. QED
    BY <1>1, <2>1, <2>3 DEF Stays, InPlace
<1>4. QED
  BY <1>2, <1>3 DEF Stays

\* A value that is where it leaves, or lost.
LEMMA GoneStays ==
    ASSUME \E F \in Fns : fn \in F, fn' = fn, NEW k, k \in DOMAIN fn.out, Gone(k),
           NEW d, d = fn.out[k].dst,
           \/ OutLost(k)
           \/ d = STACK /\ mem'[SlotOf(k)] = mem[SlotOf(k)]
           \/ d # STACK /\ \A w \in Wide, h \in 1 .. 2 : Part(d, w, h) => regs'[w][h] = regs[w][h]
    PROVE  Gone(k)'
<1>1. /\ EntryValue(From(k))' = EntryValue(From(k)) /\ (OutLost(k)' <=> OutLost(k))
      /\ Dest(k)' = Dest(k) /\ From(k)' = From(k)
  BY SameOuts
<1>2. CASE OutLost(k)
  BY <1>1, <1>2 DEF Gone
<1>3. CASE ~OutLost(k)
  <2>1. PICK v, t : v = EntryValue(From(k)) /\ t = Dest(k) /\ Holds(t, v)
    BY <1>3 DEF Gone
  <2>2. Holds(t, v)'
    <3>1. CASE d = STACK
      <4>1. t \in Spilled /\ mem'[t] = mem[t]
        BY <1>3, <2>1, <3>1, SlotIs DEF Dest, Spilled
      <4>2. QED
        BY <2>1, <4>1 DEF Holds
    <3>2. CASE d # STACK
      <4>1. t = d /\ d \in Reg /\ d \notin Spilled
        BY <2>1, <3>2, OutIs, Kinds DEF Dest
      <4>2. \A w \in Wide, h \in 1 .. 2 : Part(d, w, h) => regs'[w][h] = regs[w][h]
        BY <1>3, <3>2
      <4>3. CASE d \in ByteRegs
        <5>1. Byte(regs', d) = Byte(regs, d) /\ d \notin Wide
          BY <4>2, <4>3, BytesOf, Kinds DEF Byte
        <5>2. (Byte(regs, d))' = Byte(regs', d)
          BY <4>3 DEF Byte
        <5>3. IsByte(d)
          BY <4>3 DEF IsByte
        <5>4. QED
          BY <2>1, <4>1, <5>1, <5>2, <5>3 DEF Holds
      <4>4. CASE d \in Wide
        <5>1. regs'[d][1] = regs[d][1] /\ regs'[d][2] = regs[d][2]
          BY <4>2, <4>4, BytesOf
        <5>2. QED
          BY <2>1, <4>1, <4>4, <5>1 DEF Holds
      <4>5. QED
        BY <4>1, <4>3, <4>4, Kinds
    <3>3. QED
      BY <3>1, <3>2
  <2>3. QED
    BY <1>1, <2>1, <2>2 DEF Gone
<1>4. QED
  BY <1>2, <1>3

\* A value that has just been put where it leaves.
LEMMA GoneNow ==
    ASSUME \E F \in Fns : fn \in F, fn' = fn, NEW k, k \in DOMAIN fn.out,
           NEW d, d = fn.out[k].dst, NEW v, v = EntryValue(From(k)),
           d = STACK => mem'[SlotOf(k)][1] = v[1] /\ mem'[SlotOf(k)][2] = v[2],
           d # STACK => Byte(regs', d) = v[1] /\ (d \in Wide => regs'[d][1] = v[1] /\ regs'[d][2] = v[2])
    PROVE  Gone(k)'
<1>1. /\ EntryValue(From(k))' = EntryValue(From(k)) /\ Dest(k)' = Dest(k) /\ From(k)' = From(k)
  BY SameOuts
<1>2. PICK t : t = Dest(k)
  OBVIOUS
<1>3. Holds(t, v)'
  <2>1. CASE d = STACK
    <3>1. t \in Spilled /\ t = SlotOf(k)
      BY <1>2, <2>1, SlotIs DEF Dest, Spilled
    <3>2. QED
      BY <2>1, <3>1 DEF Holds
  <2>2. CASE d # STACK
    <3>1. t = d /\ d \in Reg /\ d \notin Spilled
      BY <1>2, <2>2, OutIs, Kinds DEF Dest
    <3>2. CASE d \in ByteRegs
      <4>1. d \notin Wide /\ IsByte(d)
        BY <3>2, Kinds DEF IsByte
      <4>2. (Byte(regs, d))' = Byte(regs', d)
        BY <3>2 DEF Byte
      <4>3. QED
        BY <2>2, <3>1, <4>1, <4>2 DEF Holds
    <3>3. CASE d \in Wide
      BY <2>2, <3>1, <3>3 DEF Holds
    <3>4. QED
      BY <3>1, <3>2, <3>3, Kinds
  <2>3. QED
    BY <2>1, <2>2
<1>4. QED
  BY <1>1, <1>2, <1>3 DEF Gone

\* The body keeps the parameters where they are.
LEMMA ValuesBody ==
    ASSUME FrameInv, ParamsInv, WordsInv, Body
    PROVE  ValuesInv' /\ WordsInv'
<1>1. /\ (\E F \in Fns : fn \in F) /\ pc = "body" /\ UNCHANGED <<mem, stack, fn>> /\ pc' = fn.exit
      /\ RegFile(regs)
  BY DEF FrameInv, FrameBegins, Machine, Body, frameVars
<1>2. fn.exit \in {"ret", "tail", "ntail"}
  BY <1>1, FnsAssumption
<1>3. PICK kept, changed :
        /\ kept = {PushReg(a) : a \in Locs(fn) \ Spilled} \cup {"DS", "CS", "SS"}
                  \cup (IF fn.frame THEN {"BP"} ELSE {})
        /\ changed = IF fn.isr THEN fn.used \ kept ELSE Wide \ kept
        /\ regs' = [r \in Wide |-> IF r \in changed THEN Unknown ELSE regs[r]]
  BY DEF Body
<1>4. ASSUME NEW p \in DOMAIN fn.params PROVE Stays(p)'
  <2>1. PICK a : a = fn.params[p].act /\ a \in Reg \cup Spilled
    BY <1>1, ParamIs
  <2>2. Stays(p)
    <3>1. ri = Len(fn.params) + 1 /\ (p < ri => InPlace(p) \/ ParamLost(p))
      BY <1>1 DEF ParamsInv
    <3>2. DOMAIN fn.params = 1 .. Len(fn.params) /\ Len(fn.params) \in Nat
      BY ONLY <1>1, <1>4, ParamIs
    <3>3. p < ri
      BY <1>4, <3>1, <3>2
    <3>4. QED
      BY <3>1, <3>3 DEF Stays
  <2>3. ~fn.isr
    BY <1>1, HandlerIs
  <2>4. ASSUME a \in Reg PROVE regs'[PushReg(a)] = regs[PushReg(a)]
    <3>1. a \notin Spilled /\ a \in Locs(fn)
      BY <2>1, <2>4, Kinds DEF Locs
    <3>2. PushReg(a) \in Wide /\ PushReg(a) \in kept
      BY <1>3, <2>4, <3>1, Kinds
    <3>3. QED
      BY <1>3, <3>2, <2>3
  <2>5. a \in Spilled => mem'[a] = mem[a]
    BY <1>1
  <2>6. QED
    BY ONLY <1>1, <1>4, <2>1, <2>2, <2>4, <2>5, StaysPut
<1>5. (\A p \in DOMAIN fn.params : Stays(p))'
  BY <1>1, <1>4
<1>6. fn.exit' = pc'
  BY <1>1
<1>7. ValuesInv'
  BY <1>1, <1>2, <1>5, <1>6 DEF ValuesInv, Moving
<1>8. WordsInv'
  <2>1. TwoBytes(Unknown)
    BY DEF TwoBytes, Unknown
  <2>2. \A r \in Wide : TwoBytes(regs'[r])
    BY <1>1, <1>3, <2>1 DEF WordsInv
  <2>3. QED
    BY <1>1, <2>2 DEF WordsInv, TwoBytes
<1>9. QED
  BY <1>7, <1>8

\* A value whose parameter is where it leaves.
LEMMA GoneAlready ==
    ASSUME \E F \in Fns : fn \in F, NEW k, k \in DOMAIN fn.out, Stays(From(k)), Dest(k) = SrcLoc(k)
    PROVE  Gone(k)
<1>1. SrcLoc(k) = fn.params[From(k)].act
  BY SizesAgree
<1>2. ParamLost(From(k)) => OutLost(k)
  BY DEF OutLost, From
<1>3. QED
  BY <1>1, <1>2 DEF Gone, Stays, InPlace

\* The values that leave on the stack are pushed.
LEMMA ValuesPush ==
    ASSUME FrameInv, KeptInv, ValuesInv, StackReturn \/ TailArgs
    PROVE  ValuesInv'
<1>1. /\ \E F \in Fns : fn \in F
      /\ Machine /\ (fn.frame => regs["BP"] = FrameBP)
      /\ UNCHANGED <<regs, mem, fn>> /\ pc' = "outs" /\ mi' = Len(Leaving)
      /\ fn.exit \in {"ret", "tail"} /\ (fn.exit = "ret" => UsesStack(fn))
      /\ \A p \in DOMAIN fn.params : Stays(p)
  BY DEF FrameInv, FrameBegins, ValuesInv, StackReturn, TailArgs, PushOut, frameVars
<1>2. PICK ks, n : ks = Leaving /\ ks \in Seq(DOMAIN fn.out) /\ n = Len(ks) /\ n \in Nat
                   /\ DOMAIN ks = 1 .. n
  BY <1>1, LeavingUp
<1>3. PICK W : W = {rins_push_vreg_temp(regs, s) : s \in Source}
  OBVIOUS
<1>4. Words(W)
  <2>1. \A s \in Source : DOMAIN rins_push_vreg_temp(regs, s) = 1 .. 2
    BY <1>1, PushWord DEF Machine
  <2>2. QED
    BY <1>3, <2>1 DEF Words
<1>5. PICK words : words = [j \in DOMAIN ks |-> rins_push_vreg_temp(regs, SrcLoc(ks[j]))]
  OBVIOUS
<1>6. \A j \in 1 .. n : ks[j] \in DOMAIN fn.out
  BY ONLY <1>2, ElementsIn
<1>7. words \in Seq(W) /\ Len(words) = n
  <2>1. \A j \in 1 .. n : SrcLoc(ks[j]) \in Source
    BY ONLY <1>1, <1>6, OutIs
  <2>2. words \in [1 .. n -> W]
    BY <1>2, <1>3, <1>5, <2>1
  <2>3. QED
    BY ONLY <1>2, <2>2, FunctionSeq
<1>8. PICK rev : rev = Reverse(words)
  OBVIOUS
<1>9. rev \in Seq(W) /\ Len(rev) = n /\ \A j \in 1 .. n : rev[j] = words[n + 1 - j]
  BY ONLY <1>7, <1>8, ReverseIs
<1>10. stack' = rev \o stack
  BY <1>2, <1>5, <1>8 DEF StackReturn, TailArgs, PushOut
<1>11. OnTop(stack', rev, n)
  <2>1. Sequence(stack) /\ n = Len(rev)
    BY <1>1, <1>9 DEF Machine
  <2>2. QED
    BY ONLY <1>4, <1>9, <1>10, <2>1, AllOn
<1>12. \A i \in 1 .. n : stack'[n + 1 - i] = words[i]
  <2>1. TAKE i \in 1 .. n
  <2>2. n + 1 - i \in 1 .. n /\ n + 1 - (n + 1 - i) = i
    BY <1>2
  <2>3. QED
    BY <1>9, <1>11, <2>2 DEF OnTop
<1>13. ASSUME NEW i \in 1 .. n PROVE Carries(stack'[n + 1 - i], From(ks[i])) \/ OutLost(ks[i])
  <2>1. PICK k, p, a : k = ks[i] /\ p = From(k) /\ a = SrcLoc(k) /\ k \in DOMAIN fn.out
    BY <1>6
  <2>2. p \in DOMAIN fn.params /\ a = fn.params[p].act
    BY <1>1, <2>1, SizesAgree
  <2>3. ParamLost(p) => OutLost(k)
    BY <2>1 DEF OutLost, From
  <2>4. InPlace(p) => Carries(rins_push_vreg_temp(regs, a), p)
    <3>1. a \in Spilled => regs["BP"] = FrameBP
      BY <1>1, <2>2, ParamIs
    <3>2. RegFile(regs) /\ MemFile
      BY <1>1 DEF Machine
    <3>3. QED
      BY ONLY <1>1, <2>2, <3>1, <3>2, ReadsIt
  <2>5. stack'[n + 1 - i] = rins_push_vreg_temp(regs, a)
    BY <1>2, <1>5, <1>12, <2>1
  <2>6. QED
    BY <1>1, <2>1, <2>2, <2>3, <2>4, <2>5 DEF Stays
<1>14. ASSUME NEW k \in DOMAIN fn.out, \A i \in 1 .. n : ks[i] # k
       PROVE  Gone(k)'
  <2>1. Gone(k)
    <3>1. fn.exit = "tail" /\ (fn.out[k].dst # STACK \/ SrcLoc(k) = SlotOf(k))
      BY <1>1, <1>2, <1>14, LeavingUp
    <3>2. CASE Dest(k) = SrcLoc(k)
      <4>1. Stays(From(k))
        BY <1>1, <1>14, SizesAgree
      <4>2. QED
        BY ONLY <1>1, <1>14, <3>2, <4>1, GoneAlready
    <3>3. CASE Dest(k) # SrcLoc(k)
      BY <3>1, <3>3 DEF Gone, OutLost, Dest
    <3>4. QED
      BY <3>2, <3>3
  <2>2. PICK d : d = fn.out[k].dst
    OBVIOUS
  <2>3. d = STACK => mem'[SlotOf(k)] = mem[SlotOf(k)]
    BY <1>1
  <2>4. \A w \in Wide, h \in 1 .. 2 : Part(d, w, h) => regs'[w][h] = regs[w][h]
    BY <1>1
  <2>5. QED
    BY ONLY <1>1, <1>14, <2>1, <2>2, <2>3, <2>4, GoneStays
<1>15. OnTheirWay'
  <2>1. \A i \in 1 .. mi' : Carries(stack[mi + 1 - i], From(Leaving[i]))' \/ OutLost(Leaving[i])'
    <3>1. TAKE i \in 1 .. mi'
    <3>2. i \in 1 .. n /\ mi' = n /\ Leaving' = ks
      BY <1>1, <1>2, SameOuts
    <3>3. CASE OutLost(ks[i])
      BY <1>1, <3>2, <3>3, SameOuts
    <3>4. CASE Carries(stack'[n + 1 - i], From(ks[i]))
      <4>1. PICK p : p = From(ks[i]) /\ p = From(Leaving[i])'
        BY <1>1, <3>2, SameOuts
      <4>2. EntryValue(p)' = EntryValue(p) /\ fn' = fn
        BY <1>1, SameOuts
      <4>3. QED
        BY <3>2, <3>4, <4>1, <4>2 DEF Carries
    <3>5. QED
      BY <1>13, <3>2, <3>3, <3>4
  <2>2. \A k \in DOMAIN fn'.out : (\A i \in 1 .. mi' : Leaving'[i] # k) => Gone(k)'
    BY <1>1, <1>2, <1>14, SameOuts
  <2>3. fn'.exit \in {"ret", "tail"} /\ (fn'.exit = "ret" => UsesStack(fn)')
    BY <1>1, SameOuts
  <2>4. QED
    BY <2>1, <2>2, <2>3 DEF OnTheirWay
<1>16. QED
  BY <1>1, <1>15 DEF ValuesInv, Moving

\* What a pop on the way out writes: a place of the stack or a register, and AX for a byte.
LEMMA PopWrites ==
    ASSUME FrameInv, KeptInv, PopOut, NEW k, k = Leaving[mi], k \in DOMAIN fn.out,
           NEW dst, dst = fn.out[k].dst, NEW w, w = Head(stack), DOMAIN w = 1 .. 2
    PROVE  /\ \A h \in Spilled : (dst = STACK => h # SlotOf(k)) => mem'[h] = mem[h]
           /\ dst = STACK /\ regs["BP"] = FrameBP =>
                 /\ mem'[SlotOf(k)][1] = w[1]
                 /\ mem'[SlotOf(k)][2] = IF IsByte(SrcLoc(k)) THEN Junk ELSE w[2]
           /\ \A q \in Wide, h \in 1 .. 2 :
                 /\ dst # STACK => ~Part(dst, q, h)
                 /\ IsByte(SrcLoc(k)) => q # "AX"
                 => regs'[q][h] = regs[q][h]
           /\ dst # STACK => Byte(regs', dst) = w[1] /\ (dst \in Wide => regs'[dst] = w)
<1>1. /\ \E F \in Fns : fn \in F
      /\ RegFile(regs) /\ MemFile /\ DOMAIN mem = Spilled \cup {"temp"}
  BY DEF KeptInv, FunctionAt, RegsKept, Within, PopOut
<1>2. dst \in Reg \cup {STACK}
  BY <1>1, OutIs
<1>3. PICK popped, byte :
        /\ byte = IsByte(SrcLoc(k))
        /\ popped = IF dst \in ByteRegs \/ (dst = STACK /\ byte)
                    THEN Put16(regs, "AX", w) ELSE regs
  OBVIOUS
<1>4. PICK x : x = (IF byte THEN <<w[1], Junk>> ELSE w) /\ DOMAIN x = 1 .. 2
               /\ x[1] = w[1] /\ x[2] = IF byte THEN Junk ELSE w[2]
  <2>1. PICK x : x = IF byte THEN <<w[1], Junk>> ELSE w
    OBVIOUS
  <2>2. CASE byte
    <3>1. x = <<w[1], Junk>>
      BY <2>1, <2>2
    <3>2. QED
      BY <2>1, <2>2, <3>1
  <2>3. CASE ~byte
    BY <2>1, <2>3
  <2>4. QED
    BY <2>2, <2>3
<1>5. /\ regs' = IF dst = STACK THEN popped ELSE PutPlace(popped, dst, w)
      /\ mem' = IF dst = STACK THEN Store(regs, mem, SlotOf(k), x) ELSE mem
  BY <1>3, <1>4 DEF PopOut
<1>6. RegFile(popped) /\ \A q \in Wide : (byte => q # "AX") => popped[q] = regs[q]
  <2>1. "AX" \in Wide
    BY DEF Wide, WordRegs
  <2>2. dst \in ByteRegs => byte
    <3>1. STACK \notin ByteRegs
      BY DEF STACK, ByteRegs
    <3>2. QED
      BY <1>1, <1>2, <1>3, <3>1, SizesAgree
  <2>3. CASE popped = Put16(regs, "AX", w) /\ byte
    <3>1. RegFile(regs) /\ DOMAIN w = 1 .. 2
      BY <1>1
    <3>2. RegFile(popped) /\ \A q \in Wide : q # "AX" => popped[q] = regs[q]
      BY ONLY <2>1, <2>3, <3>1, PutWide
    <3>3. QED
      BY <2>3, <3>2
  <2>4. QED
    BY <1>1, <1>3, <2>2, <2>3
<1>7. CASE dst = STACK
  <2>1. PICK a, m : a = SlotOf(k) /\ m = mem' /\ m = Store(regs, mem, a, x)
    BY <1>5, <1>7
  <2>2. a \in Spilled /\ ~IsByte(a)
    <3>1. a \in SpilledWords
      BY <1>1, <1>7, <2>1, SlotIs
    <3>2. QED
      BY <3>1, SourcesAssumption DEF IsByte, Preg, Spilled
  <2>3. RegFile(regs) /\ MemFile /\ DOMAIN mem = Spilled \cup {"temp"} /\ DOMAIN x = 1 .. 2
    BY <1>1, <1>4
  <2>4. /\ \A h \in Spilled : DOMAIN m[h] = 1 .. 2 /\ (h # a => m[h] = mem[h])
        /\ regs["BP"] = FrameBP => m[a][1] = x[1] /\ (~IsByte(a) => m[a][2] = x[2])
    BY ONLY <2>1, <2>2, <2>3, StoreEffect
  <2>5. regs' = popped
    BY <1>5, <1>7
  <2>6. \A h \in Spilled : h # SlotOf(k) => mem'[h] = mem[h]
    BY <2>1, <2>4
  <2>7. regs["BP"] = FrameBP =>
           /\ mem'[SlotOf(k)][1] = w[1]
           /\ mem'[SlotOf(k)][2] = IF byte THEN Junk ELSE w[2]
    BY <1>4, <2>1, <2>2, <2>4
  <2>8. \A q \in Wide, h \in 1 .. 2 : (byte => q # "AX") => regs'[q][h] = regs[q][h]
    BY <1>6, <2>5
  <2>9. QED
    BY <1>3, <1>7, <2>6, <2>7, <2>8
<1>8. CASE dst # STACK
  <2>1. PICK rg : rg = regs' /\ rg = PutPlace(popped, dst, w)
    BY <1>5, <1>8
  <2>2. dst \in Reg /\ RegFile(popped) /\ DOMAIN w = 1 .. 2
    BY <1>2, <1>6, <1>8
  <2>3. Outside({dst}, popped, rg) /\ Byte(rg, dst) = w[1] /\ (dst \in Wide => rg[dst] = w)
    BY ONLY <2>1, <2>2, PutOutside
  <2>4. \A q \in Wide, h \in 1 .. 2 : ~Part(dst, q, h) /\ (byte => q # "AX") => regs'[q][h] = regs[q][h]
    BY <1>6, <2>1, <2>3 DEF Outside
  <2>5. mem' = mem
    BY <1>5, <1>8
  <2>6. QED
    BY <1>3, <1>8, <2>1, <2>3, <2>4, <2>5
<1>9. QED
  BY <1>7, <1>8

\* One of them is popped, and the others stay.
LEMMA ValuesPop ==
    ASSUME FrameInv, KeptInv, ValuesInv, PopOut
    PROVE  ValuesInv'
<1>1. /\ \E F \in Fns : fn \in F
      /\ (fn.frame /\ ~FramePointerMoved => regs["BP"] = FrameBP)
      /\ mi \in 0 .. Len(Leaving) /\ StackOn(stack, OnEntry, mi) /\ mi > 0 /\ OnTheirWay
      /\ UNCHANGED <<pc, fn>> /\ pc = "outs" /\ mi' = mi - 1 /\ stack' = Tail(stack)
  BY DEF KeptInv, FunctionAt, LaidOut, RegsKept, Within, PopOut, frameVars, ValuesInv
<1>2. PICK ks : ks = Leaving /\ ks \in Seq(DOMAIN fn.out) /\ DOMAIN ks = 1 .. Len(ks) /\ Len(ks) \in Nat
  BY <1>1, LeavingUp
<1>3. PICK n \in Nat : n = mi - 1 /\ mi = n + 1 /\ mi \in 1 .. Len(ks) /\ n \in 0 .. Len(ks)
  BY <1>1, <1>2
<1>4. PICK k : k = ks[mi] /\ k = Leaving[mi] /\ k \in DOMAIN fn.out
  BY ONLY <1>2, <1>3, ElementsIn
<1>5. PICK dst : dst = fn.out[k].dst /\ dst \in Reg \cup {STACK} /\ dst \in Outs(fn)
  BY ONLY <1>1, <1>4, OutIs
<1>6. PICK w, t : /\ w = Head(stack) /\ t = stack' /\ w = stack[1] /\ DOMAIN w = 1 .. 2
                  /\ \A j \in 1 .. n : t[j] = stack[j + 1]
  <2>1. PICK st, b : st = stack /\ b = OnEntry /\ StackOn(st, b, n + 1)
    BY <1>1, <1>3
  <2>2. Head(st) = st[1] /\ DOMAIN st[1] = 1 .. 2 /\ \A j \in 1 .. n : Tail(st)[j] = st[j + 1]
    BY ONLY n \in Nat, <2>1, PopOn
  <2>3. QED
    BY <1>1, <2>1, <2>2
<1>7. PICK p, v, a : /\ p = From(k) /\ v = EntryValue(p) /\ a = SrcLoc(k)
                     /\ a = fn.params[p].act /\ p \in DOMAIN fn.params
                     /\ dst # STACK => (dst \in ByteRegs) = IsByte(a)
                     /\ IsByte(a) => v[2] = Junk
  BY <1>1, <1>4, <1>5, SizesAgree
<1>8. Carries(w, p) \/ OutLost(k)
  <2>1. mi + 1 - mi = 1 /\ mi \in 1 .. mi
    BY <1>3
  <2>2. Carries(stack[mi + 1 - mi], From(Leaving[mi])) \/ OutLost(Leaving[mi])
    BY <1>1, <2>1 DEF OnTheirWay
  <2>3. QED
    BY <1>4, <1>6, <1>7, <2>1, <2>2
<1>9. /\ \A h \in Spilled : (dst = STACK => h # SlotOf(k)) => mem'[h] = mem[h]
      /\ dst = STACK /\ regs["BP"] = FrameBP =>
            /\ mem'[SlotOf(k)][1] = w[1]
            /\ mem'[SlotOf(k)][2] = IF IsByte(a) THEN Junk ELSE w[2]
      /\ \A q \in Wide, h \in 1 .. 2 :
            /\ dst # STACK => ~Part(dst, q, h)
            /\ IsByte(a) => q # "AX"
            => regs'[q][h] = regs[q][h]
      /\ dst # STACK => Byte(regs', dst) = w[1] /\ (dst \in Wide => regs'[dst] = w)
  <2>1. k = Leaving[mi] /\ k \in DOMAIN fn.out /\ dst = fn.out[k].dst /\ w = Head(stack) /\ DOMAIN w = 1 .. 2
    BY <1>4, <1>5, <1>6
  <2>2. a = SrcLoc(k)
    BY <1>7
  <2>3. QED
    BY ONLY FrameInv, KeptInv, PopOut, <2>1, <2>2, PopWrites
<1>10. Gone(k)'
  <2>1. CASE OutLost(k)
    BY <1>1, <2>1, SameOuts DEF Gone
  <2>2. CASE ~OutLost(k)
    <3>1. w[1] = v[1] /\ (IsByte(a) \/ w[2] = v[2])
      BY <1>7, <1>8, <2>2 DEF Carries
    <3>2. dst = STACK => mem'[SlotOf(k)][1] = v[1] /\ mem'[SlotOf(k)][2] = v[2]
      <4>1. SUFFICES ASSUME dst = STACK
                     PROVE  mem'[SlotOf(k)][1] = v[1] /\ mem'[SlotOf(k)][2] = v[2]
        BY <1>1
      <4>2. fn.frame
        BY <1>1, <1>5, <4>1, FnsAssumption
      <4>3. ~FramePointerMoved
        BY <2>2 DEF OutLost
      <4>4. regs["BP"] = FrameBP
        BY <1>1, <4>2, <4>3
      <4>5. QED
        BY <1>7, <1>9, <3>1, <4>1, <4>4
    <3>3. dst # STACK => Byte(regs', dst) = v[1] /\ (dst \in Wide => regs'[dst][1] = v[1] /\ regs'[dst][2] = v[2])
      <4>1. dst \in Wide => dst \notin ByteRegs
        BY Kinds
      <4>2. QED
        BY <1>7, <1>9, <3>1, <4>1
    <3>4. fn' = fn
      BY <1>1
    <3>5. QED
      BY ONLY <1>1, <1>4, <1>5, <1>7, <3>2, <3>3, <3>4, GoneNow
  <2>3. QED
    BY <2>1, <2>2
<1>11. ASSUME NEW j \in DOMAIN fn.out, j # k, \A i \in 1 .. n : ks[i] # j
       PROVE  Gone(j)'
  <2>1. Gone(j)
    <3>1. \A i \in 1 .. mi : i \in 1 .. n \/ i = mi
      BY <1>3
    <3>2. \A i \in 1 .. mi : Leaving[i] # j
      BY <1>2, <1>4, <1>11, <3>1
    <3>3. QED
      BY <1>1, <1>11, <3>2 DEF OnTheirWay
  <2>2. PICK d : d = fn.out[j].dst /\ d \in Reg \cup {STACK} /\ d \in Outs(fn)
    BY ONLY <1>1, <1>11, OutIs
  <2>3. ASSUME d = STACK PROVE mem'[SlotOf(j)] = mem[SlotOf(j)]
    <3>1. SlotOf(j) \in Spilled
      BY <1>1, <1>11, <2>2, <2>3, SlotIs DEF Spilled
    <3>2. dst = STACK => SlotOf(j) # SlotOf(k)
      BY <1>1, <1>4, <1>5, <1>11, <2>2, <2>3, SlotsDiffer
    <3>3. QED
      BY <1>9, <3>1, <3>2
  <2>4. ASSUME d # STACK, ~OutLost(j), NEW q \in Wide, NEW h \in 1 .. 2, Part(d, q, h)
        PROVE  regs'[q][h] = regs[q][h]
    <3>1. d \in Reg
      BY <2>2, <2>4
    <3>2. ASSUME dst # STACK PROVE ~Part(dst, q, h)
      <4>1. dst # d
        BY <1>1, <1>4, <1>5, <1>11, <2>2, <3>2, FnsAssumption
      <4>2. Apart(Outs(fn) \ {STACK})
        BY <1>1, FnsAssumption
      <4>3. ~pregs_alias(dst, d)
        BY <1>5, <2>2, <2>4, <3>2, <4>1, <4>2 DEF Apart
      <4>4. QED
        BY <1>5, <2>4, <3>1, <3>2, <4>3, PartsAlias
    <3>3. ASSUME IsByte(a), q = "AX" PROVE FALSE
      <4>1. InAX(d)
        <5>1. PushReg(d) = "AX"
          BY <2>4, <3>3 DEF Part
        <5>2. CASE d \in Wide
          BY <5>1, <5>2, Kinds DEF InAX
        <5>3. CASE d \in ByteRegs
          <6>1. d = preg_alias_lo["AX"] \/ d = preg_alias_hi["AX"]
            BY <5>1, <5>3, HalfOf
          <6>2. QED
            BY <6>1 DEF InAX, Halves
        <5>4. QED
          BY <3>1, <5>2, <5>3, Kinds
      <4>2. k \in DOMAIN fn.out \ {j} /\ IsByte(SrcLoc(k))
        BY <1>4, <1>7, <1>11, <3>3
      <4>3. CASE fn.exit = "ret"
        <5>1. k = mi /\ j \in 1 .. Len(ks) /\ ks[j] = j /\ UsesStack(fn)
          BY <1>1, <1>2, <1>3, <1>4, <1>11, <4>3, LeavingUp DEF OnTheirWay
        <5>2. j \notin 1 .. n
          BY <1>11, <5>1
        <5>3. k < j
          BY <1>2, <1>3, <1>11, <5>1, <5>2
        <5>4. QED
          BY <2>2, <2>4, <4>1, <4>2, <4>3, <5>1, <5>3 DEF OutLost, OverAX
      <4>4. CASE fn.exit # "ret"
        <5>1. fn.exit = "tail" /\ fn.out[k].dst = STACK
          BY <1>1, <1>2, <1>3, <1>4, <4>4, LeavingUp DEF OnTheirWay
        <5>2. QED
          BY <2>2, <2>4, <4>1, <4>2, <5>1 DEF OutLost, OverAX
      <4>5. QED
        BY <4>3, <4>4
    <3>4. QED
      BY <1>9, <3>2, <3>3
  <2>5. \/ OutLost(j)
        \/ d = STACK /\ mem'[SlotOf(j)] = mem[SlotOf(j)]
        \/ d # STACK /\ \A q \in Wide, h \in 1 .. 2 : Part(d, q, h) => regs'[q][h] = regs[q][h]
    BY <2>3, <2>4
  <2>6. fn' = fn
    BY <1>1
  <2>7. QED
    BY ONLY <1>1, <1>11, <2>1, <2>2, <2>5, <2>6, GoneStays
<1>12. OnTheirWay'
  <2>1. \A i \in 1 .. mi' : Carries(stack[mi + 1 - i], From(Leaving[i]))' \/ OutLost(Leaving[i])'
    <3>1. TAKE i \in 1 .. mi'
    <3>2. i \in 1 .. n /\ mi' = n /\ Leaving' = Leaving /\ i \in 1 .. mi
      BY <1>1, <1>3, SameOuts
    <3>3. stack'[mi' + 1 - i] = stack[mi + 1 - i]
      <4>1. n + 1 - i \in 1 .. n /\ (n + 1 - i) + 1 = mi + 1 - i
        BY <1>3, <3>2
      <4>2. QED
        BY <1>6, <3>2, <4>1
    <3>4. Carries(stack[mi + 1 - i], From(Leaving[i])) \/ OutLost(Leaving[i])
      BY <1>1, <3>2 DEF OnTheirWay
    <3>5. CASE OutLost(Leaving[i])
      BY <1>1, <3>2, <3>5, SameOuts
    <3>6. CASE Carries(stack[mi + 1 - i], From(Leaving[i]))
      <4>1. PICK r : r = From(Leaving[i]) /\ r = From(Leaving[i])'
        BY <1>1, <3>2, SameOuts
      <4>2. EntryValue(r)' = EntryValue(r) /\ fn' = fn
        BY <1>1, SameOuts
      <4>3. QED
        BY <3>3, <3>6, <4>1, <4>2 DEF Carries
    <3>7. QED
      BY <3>4, <3>5, <3>6
  <2>2. \A j \in DOMAIN fn'.out : (\A i \in 1 .. mi' : Leaving'[i] # j) => Gone(j)'
    BY <1>1, <1>2, <1>3, <1>10, <1>11, SameOuts
  <2>3. fn'.exit \in {"ret", "tail"} /\ (fn'.exit = "ret" => UsesStack(fn)')
    BY <1>1, SameOuts DEF OnTheirWay
  <2>4. QED
    BY <2>1, <2>2, <2>3 DEF OnTheirWay
<1>13. QED
  BY <1>1, <1>12 DEF ValuesInv, Moving

\* Steps that neither change the registers nor the frame.
LEMMA NothingMoves ==
    ASSUME \E F \in Fns : fn \in F, UNCHANGED <<regs, mem, fn>>
    PROVE  /\ \A p \in DOMAIN fn.params : Stays(p) => Stays(p)'
           /\ \A k \in DOMAIN fn.out : Gone(k) => Gone(k)'
           /\ \A k \in DOMAIN fn.out : Stays(From(k)) => InPlace(From(k))' \/ OutLost(k)'
<1>1. fn' = fn /\ regs' = regs /\ mem' = mem
  OBVIOUS
<1>2. ASSUME NEW p \in DOMAIN fn.params, Stays(p) PROVE Stays(p)'
  <2>1. PICK a : a = fn.params[p].act
    OBVIOUS
  <2>2. (a \in Spilled => mem'[a] = mem[a]) /\ (a \in Reg => regs'[PushReg(a)] = regs[PushReg(a)])
    BY <1>1
  <2>3. QED
    BY ONLY \E F \in Fns : fn \in F, <1>1, <1>2, <2>1, <2>2, StaysPut
<1>3. ASSUME NEW k \in DOMAIN fn.out, Gone(k) PROVE Gone(k)'
  <2>1. PICK d : d = fn.out[k].dst
    OBVIOUS
  <2>2. \/ OutLost(k)
        \/ d = STACK /\ mem'[SlotOf(k)] = mem[SlotOf(k)]
        \/ d # STACK /\ \A w \in Wide, h \in 1 .. 2 : Part(d, w, h) => regs'[w][h] = regs[w][h]
    BY <1>1
  <2>3. QED
    BY ONLY \E F \in Fns : fn \in F, <1>1, <1>3, <2>1, <2>2, GoneStays
<1>4. ASSUME NEW k \in DOMAIN fn.out, Stays(From(k)) PROVE InPlace(From(k))' \/ OutLost(k)'
  <2>1. PICK p : p = From(k) /\ p = From(k)' /\ p \in DOMAIN fn.params
    BY <1>1, <1>4, SizesAgree, SameOuts
  <2>2. Stays(p)'
    BY <1>2, <1>4, <2>1
  <2>3. CASE ParamLost(p)'
    <3>1. OutLost(k)
      BY <1>1, <2>1, <2>3, SameOuts DEF OutLost, From
    <3>2. QED
      BY <1>1, <3>1, SameOuts
  <2>4. CASE InPlace(p)'
    <3>1. InPlace(From(k)) <=> Holds(fn.params[p].act, EntryValue(p))
      BY <2>1 DEF InPlace
    <3>2. (InPlace(From(k)))' <=> InPlace(p)'
      BY <2>1, <1>1, SameOuts DEF InPlace
    <3>3. QED
      BY <2>4, <3>2
  <2>5. QED
    BY <2>2, <2>3, <2>4 DEF Stays
<1>5. QED
  BY <1>2, <1>3, <1>4

\* When the last is popped or moved all are where they should be.
LEMMA ValuesEnd ==
    ASSUME FrameInv, KeptInv, ValuesInv, EndOut \/ EndReturn
    PROVE  ValuesInv'
<1>1. /\ \E F \in Fns : fn \in F
      /\ UNCHANGED <<regs, mem, fn>> /\ pc' = "epilogue"
  BY DEF KeptInv, FunctionAt, Within, EndOut, EndReturn, frameVars
<1>2. fn.exit # "ntail" /\ \A k \in DOMAIN fn.out : Gone(k)
  <2>1. CASE EndOut
    <3>1. OnTheirWay /\ mi = 0
      BY <2>1 DEF ValuesInv, EndOut
    <3>2. QED
      BY <3>1 DEF OnTheirWay
  <2>2. CASE EndReturn
    <3>1. BeingMoved /\ Pending = {}
      BY <2>2 DEF ValuesInv, EndReturn
    <3>2. ASSUME NEW k \in DOMAIN fn.out, SrcLoc(k) # fn.out[k].dst PROVE Gone(k)
      <4>1. PICK ks : ks = Results /\ \E i \in DOMAIN ks : ks[i] = k
        BY <1>1, <3>2, ResultsAre
      <4>2. PICK i : i \in DOMAIN ks /\ ks[i] = k
        BY <4>1
      <4>3. moves[i].done
        BY <3>1, <4>1, <4>2 DEF Pending, BeingMoved
      <4>4. QED
        BY <3>1, <4>1, <4>2, <4>3 DEF BeingMoved
    <3>3. QED
      BY <3>1, <3>2 DEF BeingMoved
  <2>3. QED
    BY <2>1, <2>2
<1>3. fn.tgt = 0
  BY <1>1, <1>2, FnsAssumption
<1>4. \A k \in DOMAIN fn'.out : Gone(k)'
  BY <1>1, <1>2, NothingMoves
<1>5. QED
  BY <1>1, <1>3, <1>4 DEF ValuesInv, Moving

\* Results in registers: no move is made yet.
LEMMA ValuesPlan ==
    ASSUME FrameInv, KeptInv, ValuesInv, PlanReturn
    PROVE  ValuesInv'
<1>1. /\ \E F \in Fns : fn \in F
      /\ UNCHANGED <<regs, mem, fn>> /\ pc' = "retmoves" /\ fn.exit = "ret" /\ ~UsesStack(fn)
      /\ \A p \in DOMAIN fn.params : Stays(p)
  BY DEF KeptInv, FunctionAt, Within, PlanReturn, frameVars, ValuesInv
<1>2. PICK ks : ks = Results
  OBVIOUS
<1>3. /\ DOMAIN ks = 1 .. Len(ks) /\ Len(ks) \in Nat
      /\ \A i \in DOMAIN ks : ks[i] \in DOMAIN fn.out
  BY <1>1, <1>2, ResultsAre
<1>4. moves' = [n \in DOMAIN ks |-> [dst_reg |-> fn.out[ks[n]].dst, src |-> SrcLoc(ks[n]), done |-> FALSE]]
  BY <1>2 DEF PlanReturn, Results
<1>5. ASSUME NEW k \in DOMAIN fn.out PROVE Stays(From(k))
  BY <1>1, <1>5, SizesAgree
<1>6. /\ DOMAIN moves' = DOMAIN ks
      /\ \A n \in DOMAIN ks : /\ moves'[n].dst_reg = fn.out[ks[n]].dst /\ moves'[n].src = SrcLoc(ks[n])
                              /\ ~moves'[n].done
  BY <1>4
<1>7. \A k \in DOMAIN fn.out : InPlace(From(k))' \/ OutLost(k)'
  BY <1>1, <1>5, NothingMoves
<1>8. ASSUME NEW k \in DOMAIN fn.out, SrcLoc(k) = fn.out[k].dst PROVE Gone(k)'
  <2>1. fn.out[k].dst # STACK
    BY <1>1 DEF UsesStack, Outs
  <2>2. Dest(k) = SrcLoc(k)
    BY <1>8, <2>1 DEF Dest
  <2>3. Gone(k)
    BY <1>1, <1>5, <1>8, <2>2, GoneAlready
  <2>4. QED
    BY <1>1, <1>8, <2>3, NothingMoves
<1>9. Results' = ks /\ \A k : SrcLoc(k)' = SrcLoc(k)
  BY <1>1, <1>2, SameOuts
<1>10. BeingMoved'
  <2>1. fn'.exit = "ret" /\ ~UsesStack(fn)'
    BY <1>1, SameOuts
  <2>2. \A n \in DOMAIN Results' :
          /\ moves'[n].dst_reg = fn'.out[Results'[n]].dst /\ moves'[n].src = SrcLoc(Results[n])'
          /\ ~moves'[n].done
    BY <1>1, <1>6, <1>9
  <2>3. \A n \in DOMAIN Results' : InPlace(From(Results[n]))' \/ OutLost(Results[n])'
    <3>1. TAKE n \in DOMAIN Results'
    <3>2. PICK k : k = Results'[n] /\ k \in DOMAIN fn.out
      BY <1>3, <1>9
    <3>3. InPlace(From(k))' \/ OutLost(k)'
      BY <1>7, <3>2
    <3>4. QED
      BY <3>2, <3>3 DEF InPlace, From, OutLost, ParamLost, FramePointerMoved, Exchanged, OverAX
  <2>4. \A k \in DOMAIN fn'.out : SrcLoc(k)' = fn'.out[k].dst => Gone(k)'
    BY <1>1, <1>8, <1>9
  <2>5. QED
    BY <1>6, <1>9, <2>1, <2>2, <2>3, <2>4 DEF BeingMoved
<1>11. QED
  BY <1>1, <1>10 DEF ValuesInv, Moving

\* A value in a register no part of which is written.
LEMMA PartsStay ==
    ASSUME NEW r, r \in Reg, NEW v, Holds(r, v),
           \A w \in Wide, h \in 1 .. 2 : Part(r, w, h) => regs'[w][h] = regs[w][h]
    PROVE  Holds(r, v)'
<1>1. r \notin Spilled
  BY Kinds
<1>2. CASE r \in ByteRegs
  <2>1. Byte(regs', r) = Byte(regs, r) /\ r \notin Wide
    BY <1>2, BytesOf, Kinds DEF Byte
  <2>2. (Byte(regs, r))' = Byte(regs', r)
    BY <1>2 DEF Byte
  <2>3. IsByte(r)
    BY <1>2 DEF IsByte
  <2>4. QED
    BY <1>1, <2>1, <2>2, <2>3 DEF Holds
<1>3. CASE r \in Wide
  <2>1. regs'[r][1] = regs[r][1] /\ regs'[r][2] = regs[r][2]
    BY <1>3, BytesOf
  <2>2. QED
    BY <1>1, <1>3, <2>1 DEF Holds
<1>4. QED
  BY <1>2, <1>3, Kinds

\* Of places of one size a move writes the destination only, with all it reads.
LEMMA MovesWhole ==
    ASSUME NEW rf, RegFile(rf), MemFile, NEW d, NEW s, Movable(d, s), (d \in ByteRegs) = IsByte(s),
           NEW rg, rg = rins_mov_preg_from_vreg(rf, d, s)
    PROVE  /\ \A w \in Wide, h \in 1 .. 2 : ~Part(d, w, h) => rg[w][h] = rf[w][h]
           /\ Byte(rg, d) = Byte(rf, s)
           /\ d \in Wide => rg[d][1] = Byte(rf, s) /\ rg[d][2] = Word(rf, s)[2]
<1>1. d \in Reg /\ s \in Source
  BY DEF Movable
<1>2. WordRegs \cap SpilledBytes = {} /\ WordRegs \cap ByteRegs = {}
  BY Kinds
<1>3. ~(d \in ByteRegs /\ s \in WordRegs)
  BY <1>2 DEF IsByte
<1>4. ~(d \in SplitWords /\ IsByte(s))
  BY Kinds
<1>5. planned_move_clobber_reg(d, s) = d
  BY <1>3, <1>4, Kinds DEF planned_move_clobber_reg
<1>6. Moved(rf, rg, d, s, d)
  BY <1>5, MoveEffect
<1>7. CASE d \in ByteRegs
  <2>1. rg[PushReg(d)][Half(d)] = Byte(rf, s) /\ d \notin Wide
    BY <1>3, <1>6, <1>7, Kinds DEF Moved
  <2>2. QED
    BY <1>6, <1>7, <2>1 DEF Moved, Byte
<1>8. CASE d \in Wide
  <2>1. d \notin ByteRegs
    BY <1>8, Kinds
  <2>2. Byte(rg, d) = rg[d][1]
    BY <1>8, <2>1 DEF Byte, Word
  <2>3. QED
    BY <1>6, <1>8, <2>1, <2>2 DEF Moved
<1>9. QED
  BY <1>1, <1>7, <1>8, Kinds

\* Two registers values leave in share no part.
LEMMA DestsApart ==
    ASSUME \E F \in Fns : fn \in F, NEW j, NEW k, j \in DOMAIN fn.out, k \in DOMAIN fn.out, j # k,
           NEW d, d = fn.out[j].dst, d # STACK, NEW e, e = fn.out[k].dst, e # STACK
    PROVE  \A w \in Wide, h \in 1 .. 2 : Part(e, w, h) => ~Part(d, w, h)
<1>1. d \in Reg /\ d \in Outs(fn) /\ e \in Reg /\ e \in Outs(fn)
  BY OutIs
<1>2. d # e /\ Apart(Outs(fn) \ {STACK})
  BY FnsAssumption
<1>3. ~pregs_alias(d, e)
  BY <1>1, <1>2 DEF Apart
<1>4. QED
  BY <1>1, <1>3, PartsAlias

\* The result moved next overwrites none that is still to be moved, or all that are left
\* are exchanged.
LEMMA PickSpares ==
    ASSUME FrameInv, KeptInv, BeingMoved, ReturnMove, NEW i, i = RetPick, NEW ks, ks = Results
    PROVE  /\ i \in DOMAIN ks /\ DOMAIN moves = DOMAIN ks /\ ~moves[i].done
           /\ \A n \in DOMAIN ks : n # i /\ ~moves[n].done =>
                 ~pregs_alias(fn.out[ks[i]].dst, SrcLoc(ks[n])) \/ OutLost(ks[n])
<1>1. (\E F \in Fns : fn \in F) /\ pc = "retmoves"
  BY DEF KeptInv, FunctionAt, Within, ReturnMove
<1>2. /\ DOMAIN ks = 1 .. Len(ks) /\ Len(ks) \in Nat
      /\ \A n \in DOMAIN ks : ks[n] \in DOMAIN fn.out
      /\ \A m, n \in DOMAIN ks : m # n => ks[m] # ks[n]
  BY <1>1, ResultsAre
<1>3. /\ DOMAIN moves = DOMAIN ks /\ fn.exit = "ret" /\ ~UsesStack(fn)
      /\ \A n \in DOMAIN ks : moves[n].dst_reg = fn.out[ks[n]].dst /\ moves[n].src = SrcLoc(ks[n])
  BY DEF BeingMoved
<1>4. PICK pending, free :
         /\ pending = Pending
         /\ free = {j \in Pending : \A l \in Pending \ {j} :
                      ~pregs_alias(moves[j].dst_reg, moves[l].src)}
  OBVIOUS
<1>5. i = Lowest(IF free = {} THEN pending ELSE free)
  BY <1>4 DEF RetPick
<1>6. pending # {} /\ free \subseteq pending /\ pending = {n \in DOMAIN ks : ~moves[n].done}
  BY <1>3, <1>4 DEF ReturnMove, Pending
<1>7. PICK S : S = (IF free = {} THEN pending ELSE free) /\ S # {} /\ S \subseteq pending
  BY <1>6
<1>8. i \in S
  <2>1. S \subseteq Nat
    BY <1>2, <1>6, <1>7
  <2>2. QED
    BY ONLY <1>5, <1>7, <2>1, LowestIs
<1>9. i \in DOMAIN ks /\ ~moves[i].done
  BY <1>6, <1>7, <1>8
<1>10. ASSUME NEW n \in DOMAIN ks, n # i, ~moves[n].done
       PROVE  ~pregs_alias(fn.out[ks[i]].dst, SrcLoc(ks[n])) \/ OutLost(ks[n])
  <2>1. n \in pending
    BY <1>6, <1>10
  <2>2. CASE free # {}
    <3>1. i \in free
      BY <1>7, <1>8, <2>2
    <3>2. ~pregs_alias(moves[i].dst_reg, moves[n].src)
      BY <1>4, <1>10, <2>1, <3>1
    <3>3. QED
      BY <1>3, <1>9, <3>2
  <2>3. CASE free = {}
    <3>1. PICK K : K = {ks[m] : m \in pending}
      OBVIOUS
    <3>2. K \in SUBSET DOMAIN fn.out /\ ks[n] \in K
      BY <1>2, <1>6, <2>1, <3>1
    <3>3. ASSUME NEW j \in K PROVE \E l \in K \ {j} : pregs_alias(fn.out[j].dst, SrcLoc(l))
      <4>1. PICK m \in pending : j = ks[m]
        BY <3>1
      <4>2. PICK q \in pending \ {m} : pregs_alias(moves[m].dst_reg, moves[q].src)
        BY <1>4, <2>3, <4>1
      <4>3. ks[q] \in K /\ ks[q] # j
        BY <1>2, <1>6, <3>1, <4>1, <4>2
      <4>4. pregs_alias(fn.out[j].dst, SrcLoc(ks[q]))
        BY <1>3, <1>6, <4>1, <4>2
      <4>5. QED
        BY <4>3, <4>4
    <3>4. Exchanged(ks[n])
      BY <3>2, <3>3 DEF Exchanged
    <3>5. QED
      BY <1>3, <3>4 DEF OutLost
  <2>4. QED
    BY <2>2, <2>3
<1>11. QED
  BY <1>3, <1>9, <1>10

\* One of them is moved, and the others stay.
LEMMA ValuesReturnMove ==
    ASSUME FrameInv, KeptInv, ValuesInv, ReturnMove
    PROVE  ValuesInv'
<1>1. /\ \E F \in Fns : fn \in F
      /\ RegFile(regs) /\ (fn.frame /\ ~FramePointerMoved => regs["BP"] = FrameBP)
      /\ MemFile /\ BeingMoved
      /\ UNCHANGED <<mem, fn>> /\ pc' = "retmoves"
  BY DEF KeptInv, FunctionAt, RegsKept, Within, ReturnMove, frameVars, ValuesInv
<1>2. PICK ks, i : ks = Results /\ i = RetPick
  OBVIOUS
<1>3. /\ DOMAIN ks = 1 .. Len(ks) /\ Len(ks) \in Nat
      /\ \A n \in DOMAIN ks : ks[n] \in DOMAIN fn.out /\ SrcLoc(ks[n]) # fn.out[ks[n]].dst
      /\ \A m, n \in DOMAIN ks : m # n => ks[m] # ks[n]
      /\ \A k \in DOMAIN fn.out : SrcLoc(k) # fn.out[k].dst => \E n \in DOMAIN ks : ks[n] = k
  BY <1>1, <1>2, ResultsAre
<1>4. /\ i \in DOMAIN ks /\ DOMAIN moves = DOMAIN ks /\ ~moves[i].done
      /\ \A n \in DOMAIN ks : n # i /\ ~moves[n].done =>
            ~pregs_alias(fn.out[ks[i]].dst, SrcLoc(ks[n])) \/ OutLost(ks[n])
  BY <1>1, <1>2, PickSpares
<1>5. PICK k : k = ks[i] /\ k \in DOMAIN fn.out
  BY <1>3, <1>4
<1>6. PICK d, s : d = fn.out[k].dst /\ s = SrcLoc(k)
  OBVIOUS
<1>7. \A j \in DOMAIN fn.out : fn.out[j].dst # STACK
  BY <1>1 DEF BeingMoved, UsesStack, Outs
<1>8. d \in Reg /\ d # STACK /\ s \in Source /\ Movable(d, s) /\ (d \in ByteRegs) = IsByte(s)
  BY <1>1, <1>5, <1>6, <1>7, OutIs, SizesAgree
<1>9. /\ moves' = [moves EXCEPT ![i].done = TRUE]
      /\ moves[i].dst_reg = d /\ moves[i].src = s
      /\ regs' = rins_mov_preg_from_vreg(regs, d, s)
  BY <1>1, <1>2, <1>4, <1>5, <1>6 DEF ReturnMove, BeingMoved
<1>10. /\ \A w \in Wide, h \in 1 .. 2 : ~Part(d, w, h) => regs'[w][h] = regs[w][h]
       /\ Byte(regs', d) = Byte(regs, s)
       /\ d \in Wide => regs'[d][1] = Byte(regs, s) /\ regs'[d][2] = Word(regs, s)[2]
  BY <1>1, <1>8, <1>9, MovesWhole
<1>11. fn' = fn
  BY <1>1
<1>12. Gone(k)'
  <2>1. CASE OutLost(k)
    BY <1>1, <2>1, SameOuts DEF Gone
  <2>2. CASE ~OutLost(k)
    <3>1. PICK p, v : p = From(k) /\ v = EntryValue(p) /\ p \in DOMAIN fn.params /\ s = fn.params[p].act
      BY <1>1, <1>5, <1>6, SizesAgree
    <3>2. InPlace(p)
      BY <1>1, <1>2, <1>4, <1>5, <2>2, <3>1 DEF BeingMoved
    <3>3. s \in Spilled => regs["BP"] = FrameBP
      BY <1>1, <2>2, <3>1, ParamIs DEF OutLost
    <3>4. Byte(regs, s) = v[1] /\ (IsByte(s) \/ Word(regs, s)[2] = v[2])
      BY <1>1, <3>1, <3>2, <3>3, ReadsIt
    <3>5. Byte(regs', d) = v[1] /\ (d \in Wide => regs'[d][1] = v[1] /\ regs'[d][2] = v[2])
      <4>1. d \in Wide => ~IsByte(s)
        BY <1>8, Kinds
      <4>2. QED
        BY <1>10, <3>4, <4>1
    <3>6. v = EntryValue(From(k)) /\ d = fn.out[k].dst /\ d # STACK
      BY <1>6, <1>8, <3>1
    <3>7. QED
      BY ONLY <1>1, <1>5, <1>11, <3>5, <3>6, GoneNow
  <2>3. QED
    BY <2>1, <2>2
<1>13. ASSUME NEW j \in DOMAIN fn.out, j # k, Gone(j) PROVE Gone(j)'
  <2>1. PICK e : e = fn.out[j].dst /\ e # STACK
    BY <1>7, <1>13
  <2>2. \A w \in Wide, h \in 1 .. 2 : Part(e, w, h) => regs'[w][h] = regs[w][h]
    BY <1>1, <1>5, <1>6, <1>8, <1>10, <1>13, <2>1, DestsApart
  <2>3. QED
    BY ONLY <1>1, <1>11, <1>13, <2>1, <2>2, GoneStays
<1>14. ASSUME NEW n \in DOMAIN ks, n # i, ~moves[n].done
       PROVE  InPlace(From(ks[n]))' \/ OutLost(ks[n])'
  <2>1. PICK j, p, a : /\ j = ks[n] /\ p = From(j) /\ a = SrcLoc(j) /\ j \in DOMAIN fn.out
                       /\ p \in DOMAIN fn.params /\ a = fn.params[p].act
    BY <1>1, <1>3, <1>14, SizesAgree
  <2>2. CASE OutLost(j)
    BY <1>1, <2>1, <2>2, SameOuts
  <2>3. CASE ~OutLost(j)
    <3>1. Holds(a, EntryValue(p))
      BY <1>1, <1>2, <1>14, <2>1, <2>3 DEF BeingMoved, InPlace
    <3>2. ~pregs_alias(d, a)
      BY <1>4, <1>5, <1>6, <1>14, <2>1, <2>3
    <3>3. PICK v : v = EntryValue(p) /\ v = EntryValue(p)'
      BY <1>1, SameOuts
    <3>4. Holds(a, v)'
      <4>1. CASE a \in Reg
        <5>1. \A w \in Wide, h \in 1 .. 2 : Part(a, w, h) => regs'[w][h] = regs[w][h]
          BY <1>8, <1>10, <3>2, <4>1, PartsAlias
        <5>2. QED
          BY ONLY <3>1, <3>3, <4>1, <5>1, PartsStay
      <4>2. CASE a \in Spilled
        BY <1>1, <3>1, <3>3, <4>2 DEF Holds
      <4>3. QED
        BY <1>1, <2>1, <4>1, <4>2, ParamIs
    <3>5. QED
      <4>1. fn'.params[From(ks[n])'].act = a /\ From(ks[n])' = p
        BY <1>11, <2>1, SameOuts
      <4>2. QED
        BY <3>3, <3>4, <4>1 DEF InPlace
  <2>4. QED
    BY <2>2, <2>3
<1>15. Results' = ks /\ \A j : SrcLoc(j)' = SrcLoc(j)
  BY <1>1, <1>2, SameOuts
<1>16. BeingMoved'
  <2>1. fn'.exit = "ret" /\ ~UsesStack(fn)'
    BY <1>1, SameOuts DEF BeingMoved
  <2>2. /\ DOMAIN moves' = DOMAIN ks
        /\ \A n \in DOMAIN ks : /\ moves'[n].dst_reg = moves[n].dst_reg /\ moves'[n].src = moves[n].src
                                /\ n # i => moves'[n].done = moves[n].done
        /\ moves'[i].done
    <3>1. PICK ms : ms = moves /\ ms \in Seq(RetMove)
      BY DEF KeptInv, RegsKept, ReturnMove
    <3>2. i \in DOMAIN ms
      BY <1>4, <3>1
    <3>3. PICK x, y : x = ms[i] /\ x \in RetMove /\ y = [x EXCEPT !.done = TRUE]
      BY ONLY <3>1, <3>2, ElementsIn
    <3>4. y.dst_reg = x.dst_reg /\ y.src = x.src /\ y.done
      BY <3>3 DEF RetMove
    <3>5. moves' = [moves EXCEPT ![i] = y]
      BY <1>9, <3>1, <3>3
    <3>6. QED
      BY <1>4, <3>1, <3>3, <3>4, <3>5
  <2>3. \A n \in DOMAIN ks : moves'[n].dst_reg = fn'.out[ks[n]].dst /\ moves'[n].src = SrcLoc(ks[n])'
    BY <1>1, <1>2, <1>15, <2>2 DEF BeingMoved
  <2>4. ASSUME NEW n \in DOMAIN ks
        PROVE  IF moves'[n].done THEN Gone(ks[n])' ELSE InPlace(From(ks[n]))' \/ OutLost(ks[n])'
    <3>1. CASE n = i
      BY <1>5, <1>12, <2>2, <3>1
    <3>2. CASE n # i /\ moves[n].done
      <4>1. ks[n] # k /\ ks[n] \in DOMAIN fn.out
        BY <1>3, <1>4, <1>5, <2>4, <3>2
      <4>2. Gone(ks[n])
        BY <1>1, <1>2, <2>4, <3>2 DEF BeingMoved
      <4>3. QED
        BY <1>13, <2>2, <2>4, <3>2, <4>1, <4>2
    <3>3. CASE n # i /\ ~moves[n].done
      BY <1>14, <2>2, <2>4, <3>3
    <3>4. QED
      BY <3>1, <3>2, <3>3
  <2>5. \A j \in DOMAIN fn.out : SrcLoc(j) = fn.out[j].dst => Gone(j)'
    BY <1>1, <1>3, <1>4, <1>5, <1>13 DEF BeingMoved
  <2>6. \A j \in DOMAIN fn'.out : SrcLoc(j)' = fn'.out[j].dst => Gone(j)'
    BY <1>11, <1>15, <2>5
  <2>7. \A n \in DOMAIN Results' :
          IF moves'[n].done THEN Gone(Results[n])' ELSE InPlace(From(Results[n]))' \/ OutLost(Results[n])'
    <3>1. TAKE n \in DOMAIN Results'
    <3>2. PICK j : j = ks[n] /\ j = Results'[n] /\ n \in DOMAIN ks
      BY <1>15
    <3>3. IF moves'[n].done THEN Gone(j)' ELSE InPlace(From(j))' \/ OutLost(j)'
      <4>1. IF moves'[n].done THEN Gone(ks[n])' ELSE InPlace(From(ks[n]))' \/ OutLost(ks[n])'
        BY <2>4, <3>2
      <4>2. QED
        BY <3>2, <4>1
    <3>4. QED
      BY <3>2, <3>3 DEF Gone, Dest, InPlace, From, OutLost, ParamLost, FramePointerMoved, Exchanged, OverAX
  <2>8. QED
    BY <1>15, <2>1, <2>2, <2>3, <2>6, <2>7 DEF BeingMoved
<1>17. QED
  BY <1>1, <1>16 DEF ValuesInv, Moving

-----------------------------------------------------------------------------
(* Near tail calls. *)

\* What a parameter has is a pair of bytes.
LEMMA ValuePairs ==
    \A p : TwoBytes(EntryValue(p))
<1>1. \A a, b : TwoBytes(<<a, b>>)
  BY DEF TwoBytes
<1>2. \A r : TwoBytes(EntryWord(r))
  BY <1>1 DEF EntryWord, CallerBP
<1>3. QED
  BY <1>1, <1>2 DEF EntryValue

\* The target is a word parameter.
LEMMA TargetParam ==
    ASSUME \E F \in Fns : fn \in F, fn.exit = "ntail"
    PROVE  /\ fn.tgt \in DOMAIN fn.params /\ TargetLoc = fn.params[fn.tgt].act
           /\ fn.tgt # 0 /\ ~IsByte(TargetLoc) /\ STACK \notin Outs(fn)
           /\ TargetLoc \in Wide \cup SpilledWords
           /\ TargetLoc \in Spilled => fn.frame
           /\ SafeTarget => TargetLoc \in Wide
<1>1. /\ fn.tgt \in DOMAIN fn.params /\ fn.tgt # 0 /\ ~IsByte(fn.params[fn.tgt].act)
      /\ STACK \notin Outs(fn)
  BY FnsAssumption
<1>2. TargetLoc = fn.params[fn.tgt].act
  BY DEF TargetLoc
<1>3. TargetLoc \in Reg \cup Spilled /\ (TargetLoc \in Spilled => fn.frame)
  BY ONLY <1>1, <1>2, ParamIs, \E F \in Fns : fn \in F
<1>4. TargetLoc \in Wide \cup SpilledWords
  BY <1>1, <1>2, <1>3, Kinds DEF IsByte, Spilled
<1>5. SafeTarget => TargetLoc \in Wide
  <2>1. SafeTarget => TargetLoc \in WordRegs
    BY DEF SafeTarget, ntailcall_target_reg_is_safe
  <2>2. SpilledWords \cap WordRegs = {}
    BY Kinds DEF Spilled
  <2>3. QED
    BY <1>4, <2>1, <2>2
<1>6. QED
  BY <1>1, <1>2, <1>3, <1>4, <1>5

\* The target is pushed, or stays in its register.
LEMMA ValuesTarget ==
    ASSUME FrameInv, WordsInv, ValuesInv, StartTail
    PROVE  ValuesInv'
<1>1. /\ \E F \in Fns : fn \in F
      /\ Machine /\ (fn.frame => regs["BP"] = FrameBP) /\ fn.exit = "ntail"
      /\ UNCHANGED <<regs, mem, fn>> /\ pc' = "ntailargs"
      /\ \A p \in DOMAIN fn.params : Stays(p)
      /\ \A r \in Wide : TwoBytes(regs[r])
      /\ \A h \in SpilledWords : TwoBytes(mem[h])
  BY DEF FrameInv, FrameBegins, StartTail, frameVars, ValuesInv, WordsInv
<1>2. PICK t, a : /\ t = fn.tgt /\ a = TargetLoc /\ t \in DOMAIN fn.params /\ a = fn.params[t].act
                  /\ ~IsByte(a) /\ a \in Wide \cup SpilledWords
                  /\ (a \in Spilled => fn.frame) /\ (SafeTarget => a \in Wide)
  BY <1>1, TargetParam
<1>3. SpilledWords \cap Wide = {} /\ SpilledWords \subseteq Spilled /\ Wide \cap Spilled = {}
  BY Kinds DEF Spilled
<1>4. PICK v : v = EntryValue(t) /\ TwoBytes(v)
  BY ValuePairs
<1>5. InPlace(t) => IF a \in Wide THEN regs[a] = v ELSE mem[a] = v
  BY <1>1, <1>2, <1>3, <1>4 DEF InPlace, Holds, TwoBytes
<1>6. rins_push_vreg_temp(regs, a) = IF a \in Wide THEN regs[a] ELSE mem[a]
  BY <1>1, <1>2, <1>3, Kinds DEF rins_push_vreg_temp, Word
<1>7. Targeted(IF a \in Wide THEN regs[a] ELSE mem[a])
  BY <1>1, <1>2, <1>4, <1>5 DEF Targeted, Stays
<1>8. IF SafeTarget THEN Targeted(regs[a]) ELSE Targeted(stack'[1])
  <2>1. CASE SafeTarget
    BY <1>2, <1>7, <2>1
  <2>2. CASE ~SafeTarget
    <3>1. stack' = <<rins_push_vreg_temp(regs, a)>> \o stack /\ Sequence(stack)
      BY <1>1, <1>2, <2>2 DEF StartTail, SafeTarget, Machine
    <3>2. stack'[1] = rins_push_vreg_temp(regs, a)
      BY <3>1 DEF Sequence
    <3>3. QED
      BY <1>6, <1>7, <2>2, <3>2
  <2>3. QED
    BY <2>1, <2>2
<1>9. TargetIn(regs, stack)'
  BY <1>1, <1>2, <1>8, SameOuts DEF TargetIn
<1>10. \A p \in DOMAIN fn'.params : Stays(p)'
  BY <1>1, NothingMoves
<1>11. QED
  BY <1>1, <1>9, <1>10 DEF ValuesInv, Moving

\* The moves of the arguments start from where the parameters are.
LEMMA ValuesTailMoves ==
    ASSUME FrameInv, ValuesInv, TailMoves
    PROVE  ValuesInv'
<1>1. /\ \E F \in Fns : fn \in F
      /\ \A p \in DOMAIN fn.params : Stays(p)
      /\ TargetIn(regs, stack) /\ fn' = fn
  BY DEF FrameInv, FrameBegins, TailMoves, frameVars, ValuesInv
<1>2. PICK b : b = base'
  OBVIOUS
<1>3. pc' = "moves" /\ b.regs = regs /\ b.stack = stack /\ b.mem = mem
  BY <1>2 DEF TailMoves, StartMoves
<1>4. TargetIn(base.regs, base.stack)'
  <2>1. TargetIn(b.regs, b.stack)
    BY <1>1, <1>3
  <2>2. QED
    BY <1>1, <1>2, <2>1, SameOuts DEF TargetIn
<1>5. ASSUME NEW p \in DOMAIN fn.params
      PROVE  Value(EntryValue(p), fn.params[p].act)' \/ ParamLost(p)'
  <2>1. PICK a, v : a = fn.params[p].act /\ v = EntryValue(p) /\ v = EntryValue(p)'
    BY <1>1, SameOuts
  <2>2. CASE ParamLost(p)
    BY <1>1, <2>2, SameOuts
  <2>3. CASE InPlace(p)
    <3>1. Holds(a, v) /\ a \in Reg \cup Spilled
      BY <1>1, <1>5, <2>1, <2>3, ParamIs DEF InPlace
    <3>2. v[1] = Before(a, 1)' /\ (~IsByte(a) => v[2] = Before(a, 2)')
      <4>1. CASE a \in ByteRegs
        <5>1. a \notin Spilled /\ a \notin Wide /\ IsByte(a)
          BY <4>1, Kinds DEF IsByte
        <5>2. QED
          BY <1>2, <1>3, <3>1, <4>1, <5>1 DEF Holds, Before, Byte
      <4>2. CASE a \in Wide
        <5>1. a \notin Spilled /\ a \notin ByteRegs
          BY <4>2, Kinds
        <5>2. QED
          BY <1>2, <1>3, <3>1, <4>2, <5>1 DEF Holds, Before
      <4>3. CASE a \in Spilled
        <5>1. a \notin Wide /\ a \notin ByteRegs /\ a \notin Remats
          BY <4>3, Kinds
        <5>2. QED
          BY <1>2, <1>3, <3>1, <4>3, <5>1 DEF Holds, Before
      <4>4. QED
        BY <3>1, <4>1, <4>2, <4>3, Kinds
    <3>3. QED
      BY <1>1, <2>1, <3>2 DEF Value
  <2>4. QED
    BY <1>1, <2>2, <2>3 DEF Stays
<1>6. QED
  BY <1>1, <1>3, <1>4, <1>5 DEF ValuesInv

\* They are made, here and at a call.
LEMMA ValuesMoves ==
    ASSUME FrameInv, ValuesInv, SiteMoves, UNCHANGED frameVars
    PROVE  ValuesInv'
<1>1. /\ pc \in {"moves", "pops"} /\ pc' \in {"moves", "pops", "placed"}
      /\ UNCHANGED <<base, site, fn>>
  BY DEF SiteMoves, MoveStep, EmitMove, SaveMove, StartPops, PopSaved, EndPops, siteVars, frameVars
<1>2. Moving' => Moving
  BY <1>1 DEF Moving
<1>3. TargetIn(base.regs, base.stack)' <=> TargetIn(base.regs, base.stack)
  BY <1>1, SameOuts DEF TargetIn
<1>4. \A p : /\ ParamLost(p)' <=> ParamLost(p)
             /\ Value(EntryValue(p), fn.params[p].act)' <=> Value(EntryValue(p), fn.params[p].act)
  BY <1>1, SameOuts DEF Value, Before
<1>5. QED
  BY <1>1, <1>2, <1>3, <1>4 DEF ValuesInv

\* The register chosen for the target holds no argument and is not popped.
LEMMA ChosenRegister ==
    ASSUME NEW f, f.saves \in Seq(Wide), ~NoStableRegister(f), NEW r, r = choose_ntailcall_target_reg(f)
    PROVE  r \in WordRegs /\ r \notin collect_register_arg_parents(f) /\ r \notin ToSet(f.saves)
<1>1. PICK temps : temps = <<"DI", "SI", "BX", "DX", "CX", "AX">>
  OBVIOUS
<1>2. PICK ok : ok = {k \in DOMAIN temps :
                        /\ temps[k] \notin collect_register_arg_parents(f)
                        /\ \A j \in DOMAIN f.saves : ~pregs_alias(f.saves[j], temps[k])}
  OBVIOUS
<1>3. r = IF ok = {} THEN "AX" ELSE temps[Lowest(ok)]
  BY <1>1, <1>2 DEF choose_ntailcall_target_reg
<1>4. /\ ok \subseteq 1 .. 6
      /\ \A k \in 1 .. 6 : temps[k] \in {"DI", "SI", "BX", "DX", "CX", "AX"}
      /\ \A q \in {"DI", "SI", "BX", "DX", "CX", "AX"} : \E k \in 1 .. 6 : temps[k] = q
      /\ DOMAIN temps = 1 .. 6
  <2>1. /\ DOMAIN temps = 1 .. 6 /\ temps[1] = "DI" /\ temps[2] = "SI" /\ temps[3] = "BX" /\ temps[4] = "DX"
        /\ temps[5] = "CX" /\ temps[6] = "AX"
    BY <1>1
  <2>2. QED
    BY <1>2, <2>1
<1>5. \A q \in {"DI", "SI", "BX", "DX", "CX", "AX"} : q \in Wide /\ q \in WordRegs /\ q \in Reg
  BY Kinds DEF Wide, WordRegs
<1>6. ok # {}
  <2>1. PICK q \in {"DI", "SI", "BX", "DX", "CX", "AX"} :
           q \notin collect_register_arg_parents(f) \cup ToSet(f.saves)
    BY DEF NoStableRegister
  <2>2. PICK k \in 1 .. 6 : temps[k] = q
    BY <1>4, <2>1
  <2>3. ASSUME NEW j \in DOMAIN f.saves PROVE ~pregs_alias(f.saves[j], q)
    <3>1. f.saves[j] \in Wide /\ f.saves[j] \in ToSet(f.saves)
      BY <2>3, ElementsIn DEF ToSet
    <3>2. f.saves[j] # q
      BY <2>1, <3>1
    <3>3. QED
      BY <1>5, <2>1, <3>1, <3>2, Sharing, Kinds
  <2>4. k \in ok
    BY <1>2, <1>4, <2>1, <2>2, <2>3
  <2>5. QED
    BY <2>4
<1>7. PICK k \in ok : r = temps[k]
  <2>1. ok \subseteq Nat
    BY <1>4
  <2>2. Lowest(ok) \in ok
    BY ONLY <1>6, <2>1, LowestIs
  <2>3. QED
    BY <1>3, <1>6, <2>2
<1>8. r \in {"DI", "SI", "BX", "DX", "CX", "AX"} /\ r \notin collect_register_arg_parents(f)
  BY <1>2, <1>4, <1>7
<1>9. r \notin ToSet(f.saves)
  <2>1. SUFFICES ASSUME NEW j \in DOMAIN f.saves, f.saves[j] = r PROVE FALSE
    BY DEF ToSet
  <2>2. ~pregs_alias(f.saves[j], r)
    BY <1>2, <1>7, <2>1
  <2>3. QED
    BY <1>5, <1>8, <2>1, <2>2, Sharing
<1>10. QED
  BY <1>5, <1>8, <1>9

\* The arguments have arrived, and the target is taken from the stack.
LEMMA ValuesPopTarget ==
    ASSUME FrameInv, KeptInv, ValuesInv, PopTarget
    PROVE  ValuesInv'
<1>1. /\ \E F \in Fns : fn \in F
      /\ pc = "placed" /\ fn.exit = "ntail" /\ call = TailCallArgs
      /\ fn' = fn /\ mem' = mem /\ pc' = "epilogue"
      /\ TargetIn(base.regs, base.stack)
      /\ \A p \in DOMAIN fn.params : Value(EntryValue(p), fn.params[p].act) \/ ParamLost(p)
  BY DEF KeptInv, FunctionAt, LaidOut, RegsKept, Moving, PopTarget, frameVars, ValuesInv
<1>2. /\ RegFile(regs) /\ stack = base.stack
      /\ \A r \in Wide \ {PushReg(call[a].dst) : a \in DOMAIN call} : regs[r] = base.regs[r]
  BY <1>1, NoneLeft, Untouched DEF DataOK, OthersUntouched
<1>3. /\ DOMAIN call = DOMAIN fn.out
      /\ \A k \in DOMAIN fn.out : call[k].src = SrcLoc(k) /\ call[k].dst = fn.out[k].dst
  BY <1>1 DEF TailCallArgs
<1>4. /\ fn.tgt # 0 /\ TargetLoc = fn.params[fn.tgt].act /\ STACK \notin Outs(fn)
      /\ (SafeTarget => TargetLoc \in Wide)
  BY <1>1, TargetParam
<1>5. fn.saves \in Seq(Wide)
  BY <1>1, FnsAssumption
<1>6. PICK r : r = choose_ntailcall_target_reg(fn) /\ r \in Wide
  BY TargetRegister
<1>7. ~SafeTarget => \A q \in Wide : q # r => regs'[q] = regs[q]
  <2>1. SUFFICES ASSUME ~SafeTarget PROVE \A q \in Wide : q # r => regs'[q] = regs[q]
    OBVIOUS
  <2>2. regs' = Put16(regs, r, Head(stack))
    BY <1>6, <2>1 DEF PopTarget, SafeTarget
  <2>3. QED
    BY <1>2, <1>6, <2>2, PutEffect
<1>8. SafeTarget => regs' = regs
  BY DEF PopTarget, SafeTarget
<1>9. ASSUME NEW k \in DOMAIN fn.out PROVE Gone(k)'
  <2>1. CASE OutLost(k)
    BY <1>1, <2>1, SameOuts DEF Gone
  <2>2. CASE ~OutLost(k)
    <3>1. PICK p, s, d, v : /\ p = From(k) /\ s = SrcLoc(k) /\ d = fn.out[k].dst /\ v = EntryValue(p)
                            /\ p \in DOMAIN fn.params /\ s = fn.params[p].act
                            /\ d \in Reg /\ d # STACK /\ (d \in ByteRegs) = IsByte(s)
                            /\ d \in Outs(fn)
      BY <1>1, <1>4, <1>9, SizesAgree, OutIs
    <3>2. ~ParamLost(p) /\ ~(Halves("AX") \subseteq Outs(fn)) /\ ~NoStableRegister(fn)
      BY <1>1, <2>2, <3>1 DEF OutLost, From
    <3>3. Value(v, s)
      BY <1>1, <3>1, <3>2
    <3>4. ~BothHalvesOfAX
      <4>1. {call[a].dst : a \in DOMAIN call} = Outs(fn)
        BY <1>3 DEF Outs
      <4>2. Halves("AX") = {"AL", "AH"}
        BY DEF Halves, preg_alias_lo, preg_alias_hi
      <4>3. QED
        BY <3>2, <4>1, <4>2 DEF BothHalvesOfAX
    <3>5. Mismatched(call[k]) \/ Arrived(call[k])
      BY <1>1, <1>3, <3>4, PlacedNow DEF ArgumentsPlaced
    <3>6. call[k].src = s /\ call[k].dst = d
      BY <1>3, <3>1
    <3>7. ~Mismatched(call[k])
      <4>1. \A b \in ByteRegs : PushReg(b) \in WordRegs
        BY Kinds
      <4>2. WordRegs \cap ByteRegs = {} /\ WordRegs \cap SpilledBytes = {}
        BY Kinds
      <4>3. QED
        BY <3>1, <3>6, <4>1, <4>2, Kinds DEF Mismatched, IsByte
    <3>8. Byte(regs, d) = v[1] /\ (d \in Wide => regs[d][1] = v[1] /\ regs[d][2] = v[2])
      <4>1. Byte(regs, d) = v[1]
        BY <3>3, <3>5, <3>6, <3>7 DEF Arrived, Value
      <4>2. d \in Wide => ~IsByte(s) /\ Byte(regs, d) = regs[d][1]
        BY <3>1, Kinds DEF Byte, Word
      <4>3. QED
        BY <3>3, <3>5, <3>6, <3>7, <4>1, <4>2 DEF Arrived, Value
    <3>9. ~SafeTarget => PushReg(d) # r
      <4>1. PushReg(d) \in collect_register_arg_parents(fn)
        BY <3>1 DEF collect_register_arg_parents
      <4>2. r \notin collect_register_arg_parents(fn)
        BY <1>5, <1>6, <3>2, ChosenRegister
      <4>3. QED
        BY <4>1, <4>2
    <3>10. regs'[PushReg(d)] = regs[PushReg(d)]
      BY <1>7, <1>8, <3>1, <3>9, Kinds
    <3>11. Byte(regs', d) = v[1] /\ (d \in Wide => regs'[d][1] = v[1] /\ regs'[d][2] = v[2])
      <4>1. d \in Wide => PushReg(d) = d
        BY Kinds
      <4>2. Byte(regs', d) = Byte(regs, d)
        <5>1. CASE d \in ByteRegs
          BY <3>10, <5>1 DEF Byte
        <5>2. CASE d \in Wide
          BY <3>10, <4>1, <5>2, Kinds DEF Byte, Word
        <5>3. QED
          BY <3>1, <5>1, <5>2, Kinds
      <4>3. QED
        BY <3>8, <3>10, <4>1, <4>2
    <3>12. fn' = fn /\ v = EntryValue(From(k)) /\ d = fn.out[k].dst
      BY <1>1, <3>1
    <3>13. QED
      BY ONLY <1>1, <1>9, <3>1, <3>11, <3>12, GoneNow
  <2>3. QED
    BY <2>1, <2>2
<1>10. Targeted(regs'[JumpReg])
  <2>1. CASE SafeTarget
    <3>1. TargetLoc \notin collect_register_arg_parents(fn)
      BY <2>1 DEF SafeTarget, ntailcall_target_reg_is_safe
    <3>2. {PushReg(call[a].dst) : a \in DOMAIN call} \subseteq collect_register_arg_parents(fn)
      BY <1>3, <1>4 DEF collect_register_arg_parents, Outs
    <3>3. regs'[TargetLoc] = base.regs[TargetLoc]
      BY <1>2, <1>4, <1>8, <2>1, <3>1, <3>2
    <3>4. QED
      BY <1>1, <2>1, <3>3 DEF TargetIn, JumpReg
  <2>2. CASE ~SafeTarget
    <3>1. regs' = Put16(regs, r, Head(stack))
      BY <1>6, <2>2 DEF PopTarget, SafeTarget
    <3>2. regs'[r] = Head(stack)
      BY <1>2, <1>6, <3>1, PutEffect
    <3>3. Head(stack) = stack[1]
      OBVIOUS
    <3>4. QED
      BY <1>1, <1>2, <1>6, <2>2, <3>2, <3>3 DEF TargetIn, JumpReg
  <2>3. QED
    BY <2>1, <2>2
<1>11. JumpReg' = JumpReg
  BY <1>1, SameOuts
<1>12. Targeted(regs[JumpReg])'
  BY <1>1, <1>10, <1>11, SameOuts DEF Targeted
<1>13. \A k \in DOMAIN fn'.out : Gone(k)'
  BY <1>1, <1>9
<1>14. QED
  BY <1>1, <1>12, <1>13 DEF ValuesInv, Moving

-----------------------------------------------------------------------------
(* Leaving the function. *)

\* Only an interrupt handler saves registers of its own.
LEMMA NotHandled ==
    ASSUME NEW f, ~f.isr
    PROVE  ToSet(SaveOrder(isr_save(f))) = {}
<1>1. PICK general : general = <<"AX", "CX", "DX", "BX", "BP", "SI", "DI">>
  OBVIOUS
<1>2. general \in Seq(Wide)
  BY <1>1 DEF Wide, WordRegs
<1>3. {} \in SUBSET (1 .. Len(general))
  OBVIOUS
<1>4. PICK t : t = Picked(general, {}) /\ t \in Seq(Wide)
  BY ONLY <1>2, <1>3, PickedIs
<1>5. ToSet(t) = {}
  <2>1. ToSet(t) = {general[p] : p \in {}}
    BY ONLY <1>2, <1>3, <1>4, PickedSet
  <2>2. QED
    BY <2>1
<1>6. isr_save(f) = t
  <2>1. {k \in DOMAIN general : f.isr /\ (general[k] \in f.used \/ (f.frame /\ general[k] = "BP"))} = {}
    OBVIOUS
  <2>2. QED
    BY <1>1, <1>4, <2>1 DEF isr_save
<1>7. ~save_set_uses_pusha(t)
  <2>1. DOMAIN t = {}
    BY <1>5 DEF ToSet
  <2>2. {k \in DOMAIN t : preg_covered_by_pusha(t[k])} = {}
    BY <2>1
  <2>3. Cardinality({}) = 0
    BY FS_EmptySet
  <2>4. QED
    BY <2>2, <2>3 DEF save_set_uses_pusha
<1>8. QED
  BY <1>5, <1>6, <1>7 DEF SaveOrder

\* The register of the target is not popped.
LEMMA JumpRegStays ==
    ASSUME \E F \in Fns : fn \in F, fn.exit = "ntail", NEW r, r = JumpReg
    PROVE  /\ r \in Wide /\ r # "DS" /\ ~(r = "BP" /\ fn.frame)
           /\ r \in ToSet(fn.saves) => NoStableRegister(fn)
<1>1. fn.saves \in Seq(Wide)
  BY FnsAssumption
<1>2. "DS" \notin WordRegs
  BY DEF WordRegs
<1>3. CASE SafeTarget
  <2>1. r = TargetLoc /\ r \in WordRegs /\ ~(fn.frame /\ r = "BP")
        /\ \A k \in DOMAIN fn.saves : ~pregs_alias(fn.saves[k], r)
    BY <1>3 DEF JumpReg, SafeTarget, ntailcall_target_reg_is_safe
  <2>2. r \in Wide
    BY <1>3, <2>1, TargetParam
  <2>3. pregs_alias(r, r)
    <3>1. r \in Reg
      BY <2>2, Kinds
    <3>2. QED
      BY <3>1, Sharing
  <2>4. r \notin ToSet(fn.saves)
    BY <2>1, <2>3 DEF ToSet
  <2>5. QED
    BY <1>2, <2>1, <2>2, <2>4
<1>4. CASE ~SafeTarget
  <2>1. r = choose_ntailcall_target_reg(fn)
    BY <1>4 DEF JumpReg
  <2>2. r \in Wide /\ r # "BP"
    BY ONLY <2>1, TargetRegister
  <2>3. r # "DS"
    <3>1. PICK temps, ok :
             /\ temps = <<"DI", "SI", "BX", "DX", "CX", "AX">>
             /\ ok = {k \in DOMAIN temps :
                        /\ temps[k] \notin collect_register_arg_parents(fn)
                        /\ \A j \in DOMAIN fn.saves : ~pregs_alias(fn.saves[j], temps[k])}
      OBVIOUS
    <3>2. r = IF ok = {} THEN "AX" ELSE temps[Lowest(ok)]
      BY <2>1, <3>1 DEF choose_ntailcall_target_reg
    <3>3. ok \subseteq 1 .. 6 /\ \A k \in 1 .. 6 : temps[k] # "DS"
      BY <3>1
    <3>4. ok # {} => Lowest(ok) \in ok
      <4>1. ok \subseteq Nat
        BY <3>3
      <4>2. QED
        BY ONLY <4>1, LowestIs
    <3>5. QED
      BY <3>2, <3>3, <3>4
  <2>4. ~NoStableRegister(fn) => r \notin ToSet(fn.saves)
    BY <1>1, <2>1, ChosenRegister
  <2>5. QED
    BY <2>2, <2>3, <2>4
<1>5. QED
  BY <1>3, <1>4

\* The epilogue leaves the values where they are, and jumps to the target.
LEMMA ExitsEpilogue ==
    ASSUME FrameInv, KeptInv, ValuesInv, emit_epilogue
    PROVE  ValuesInv' /\ ExitsRight'
<1>1. /\ \E F \in Fns : fn \in F
      /\ fn' = fn /\ mem' = mem /\ pc' = "exit"
      /\ \A k \in DOMAIN fn.out : Gone(k)
      /\ fn.tgt # 0 => Targeted(regs[JumpReg]) \/ FramePointerMoved \/ NoStableRegister(fn)
      /\ fn.exit = "ntail" <=> fn.tgt # 0
  BY FnsAssumption DEF KeptInv, FunctionAt, Within, emit_epilogue, frameVars, ValuesInv
<1>2. ASSUME ~FramePointerMoved, NEW r \in Wide, r \notin ToSet(SaveOrder(isr_save(fn))) \cup ToSet(fn.saves),
             ~(r = "BP" /\ fn.frame), ~(r = "DS" /\ ds_explicit_save(fn))
      PROVE  regs'[r] = regs[r]
  BY <1>2, Unwound
<1>3. ASSUME NEW k \in DOMAIN fn.out PROVE Gone(k)'
  <2>1. PICK d : d = fn.out[k].dst /\ d \in Reg \cup {STACK} /\ d \in Outs(fn)
    BY <1>1, <1>3, OutIs
  <2>2. ~fn.isr
    BY <1>1, <1>3, HandlerIs
  <2>3. ASSUME ~OutLost(k), d # STACK PROVE regs'[PushReg(d)] = regs[PushReg(d)]
    <3>1. PICK r : r = PushReg(d) /\ r \in Wide
      BY <2>1, <2>3, Kinds
    <3>2. ~FramePointerMoved /\ r \notin ToSet(fn.saves) /\ ~(d = "DS" /\ ds_explicit_save(fn))
      BY <2>1, <2>3, <3>1 DEF OutLost
    <3>3. r \notin ToSet(SaveOrder(isr_save(fn)))
      BY <2>2, NotHandled
    <3>4. d \in ByteRegs => r # "BP" /\ r # "DS"
      <4>1. "DS" \notin SplitWords
        BY DEF SplitWords
      <4>2. QED
        BY <3>1, <4>1, Kinds
    <3>5. d \notin ByteRegs => r = d
      BY <3>1 DEF PushReg
    <3>6. ~(r = "BP" /\ fn.frame)
      BY <2>1, <3>2, <3>4, <3>5 DEF FramePointerMoved
    <3>7. ~(r = "DS" /\ ds_explicit_save(fn))
      BY <3>2, <3>4, <3>5
    <3>8. QED
      BY <1>2, <3>1, <3>2, <3>3, <3>6, <3>7
  <2>4. \/ OutLost(k)
        \/ d = STACK /\ mem'[SlotOf(k)] = mem[SlotOf(k)]
        \/ d # STACK /\ \A w \in Wide, h \in 1 .. 2 : Part(d, w, h) => regs'[w][h] = regs[w][h]
    BY <1>1, <2>3 DEF Part
  <2>5. Gone(k) /\ fn' = fn
    BY <1>1, <1>3
  <2>6. QED
    BY ONLY <1>1, <1>3, <2>1, <2>4, <2>5, GoneStays
<1>4. ValuesLeave'
  <2>1. \A k \in DOMAIN fn'.out : Gone(k)'
    BY <1>1, <1>3
  <2>2. QED
    BY <2>1 DEF ValuesLeave, Gone, Dest, From
<1>5. JumpReaches'
  <2>1. SUFFICES ASSUME fn.tgt # 0
                 PROVE  \/ reached'[1] = EntryValue(fn.tgt)
                        \/ ParamLost(fn.tgt) \/ FramePointerMoved \/ NoStableRegister(fn)
    <3>1. fn'.tgt = fn.tgt /\ EntryValue(fn.tgt)' = EntryValue(fn.tgt) /\ (ParamLost(fn.tgt)' <=> ParamLost(fn.tgt))
          /\ (FramePointerMoved' <=> FramePointerMoved) /\ (NoStableRegister(fn)' <=> NoStableRegister(fn))
      BY <1>1, SameOuts
    <3>2. QED
      BY <2>1, <3>1 DEF JumpReaches
  <2>2. reached' = <<regs'[JumpReg]>>
    BY <2>1 DEF emit_epilogue, JumpReg, SafeTarget
  <2>3. PICK r : r = JumpReg
    OBVIOUS
  <2>4. /\ r \in Wide /\ r # "DS" /\ ~(r = "BP" /\ fn.frame)
        /\ r \in ToSet(fn.saves) => NoStableRegister(fn)
    BY <1>1, <2>1, <2>3, JumpRegStays
  <2>5. ~fn.isr
    BY <1>1, <2>1, HandlerIs
  <2>6. FramePointerMoved \/ NoStableRegister(fn) \/ regs'[r] = regs[r]
    BY <1>2, <2>4, <2>5, NotHandled
  <2>7. reached'[1] = regs'[r]
    BY <2>2, <2>3
  <2>8. QED
    BY <1>1, <2>1, <2>3, <2>6, <2>7 DEF Targeted
<1>6. QED
  BY <1>1, <1>4, <1>5 DEF ExitsRight, ValuesInv, Moving

-----------------------------------------------------------------------------
(* The invariant, action by action. *)

\* The words a function starts with are pairs of bytes.
LEMMA WordsFirst ==
    ASSUME Init
    PROVE  WordsInv /\ ValuesInv /\ ExitsRight
<1>1. pc \in {"saves", "prologue"}
  BY DEF Init, CallInit, FrameInit
<1>2. ValuesInv /\ ExitsRight
  BY <1>1 DEF ValuesInv, Moving, ExitsRight, ValuesLeave, JumpReaches
<1>3. \A a, b : TwoBytes(<<a, b>>)
  BY DEF TwoBytes
<1>4. PICK bp : InitMachine(bp) /\ (pc = "prologue" => TwoBytes(bp))
  <2>1. TwoBytes(EntryWord("BP"))
    BY <1>3 DEF EntryWord, CallerBP
  <2>2. CASE CallInit
    BY <2>2 DEF CallInit
  <2>3. CASE FrameInit
    BY <2>1, <2>3 DEF FrameInit
  <2>4. QED
    BY <2>2, <2>3 DEF Init
<1>5. ASSUME pc = "prologue" PROVE \A r \in Wide : TwoBytes(regs[r])
  <2>1. regs = [[r \in Wide |-> <<Orig(r, 1), Orig(r, 2)>>] EXCEPT !["BP"] = bp]
    BY <1>4 DEF InitMachine
  <2>2. \A r \in Wide : regs[r] = IF r = "BP" THEN bp ELSE <<Orig(r, 1), Orig(r, 2)>>
    BY <2>1
  <2>3. QED
    BY <1>3, <1>4, <1>5, <2>2
<1>6. \A h \in SpilledWords : TwoBytes(mem[h])
  <2>1. mem = [h \in Spilled \cup {"temp"} |-> <<Orig(h, 1), Orig(h, 2)>>]
    BY <1>4 DEF InitMachine
  <2>2. \A h \in SpilledWords : mem[h] = <<Orig(h, 1), Orig(h, 2)>>
    BY <2>1 DEF Spilled
  <2>3. QED
    BY <1>3, <2>2
<1>7. QED
  BY <1>1, <1>2, <1>5, <1>6 DEF WordsInv

\* The prologue loads BP and DS with words.
LEMMA WordsPrologue ==
    ASSUME FrameInv, WordsInv, Prologue
    PROVE  WordsInv'
<1>1. /\ \A r \in Wide : TwoBytes(regs[r])
      /\ \A h \in SpilledWords : TwoBytes(mem[h])
      /\ mem' = mem /\ RegFile(regs)
  BY DEF WordsInv, Prologue, FrameInv, FrameBegins, Machine
<1>2. TwoBytes(FrameBP) /\ TwoBytes(PolicyDS)
  BY DEF TwoBytes, FrameBP, PolicyDS
<1>3. PICK inner : /\ inner = IF fn.frame THEN [regs EXCEPT !["BP"] = FrameBP] ELSE regs
                   /\ regs' = IF fn.ds THEN [inner EXCEPT !["DS"] = PolicyDS] ELSE inner
  BY DEF Prologue
<1>4. DOMAIN inner = Wide /\ \A r \in Wide : TwoBytes(inner[r])
  BY <1>1, <1>2, <1>3 DEF RegFile
<1>5. \A r \in Wide : TwoBytes(regs'[r])
  BY <1>2, <1>3, <1>4
<1>6. QED
  BY <1>1, <1>5 DEF WordsInv, TwoBytes

\* A parameter arrives as a word.
LEMMA WordsMove ==
    ASSUME FrameInv, WordsInv, EntryMove
    PROVE  WordsInv'
<1>1. /\ \E F \in Fns : fn \in F
      /\ Machine /\ ri \in Nat \ {0} /\ (fn.frame => AtBP = CallerBP)
      /\ \A r \in Wide : TwoBytes(regs[r])
      /\ \A h \in SpilledWords : TwoBytes(mem[h])
  BY DEF FrameInv, FrameBegins, EntryMove, WordsInv
<1>2. PICK e, a, w : /\ e = fn.params[ri].exp /\ a = fn.params[ri].act /\ w = EntryWordOf(e)
  OBVIOUS
<1>3. /\ ri \in DOMAIN fn.params
      /\ \A r \in Wide : r # a => regs'[r] = regs[r]
      /\ \A h \in Spilled : h # a => mem'[h] = mem[h]
      /\ EntryCopies(e, a) => regs'[a] = w
      /\ ~EntryCopies(e, a) => regs' = regs
  BY <1>1, <1>2, EntryMoved
<1>4. e \in Reg \cup {STACK} /\ (e = STACK => a \in SpilledWords)
  BY ONLY <1>1, <1>2, <1>3, ParamIs
<1>5. e # STACK => TwoBytes(w)
  <2>1. CASE InFrameBP(e)
    BY <1>1, <1>2, <2>1 DEF EntryWordOf, InFrameBP, CallerBP, TwoBytes
  <2>2. CASE ~InFrameBP(e) /\ e \in ByteRegs
    <3>1. w = <<Byte(regs, e), Junk>>
      BY <1>2, <2>2 DEF EntryWordOf, ReadPlace
    <3>2. QED
      BY <3>1 DEF TwoBytes
  <2>3. CASE ~InFrameBP(e) /\ e \notin ByteRegs /\ e # STACK
    <3>1. w = regs[e] /\ e \in Wide
      BY <1>2, <1>4, <2>3, Kinds DEF EntryWordOf, ReadPlace
    <3>2. QED
      BY <1>1, <3>1
  <2>4. QED
    BY <2>1, <2>2, <2>3
<1>6. EntryCopies(e, a) => e # STACK
  <2>1. a \in SpilledWords => a \notin WordRegs /\ a \notin SegRegs
    BY Kinds DEF Spilled
  <2>2. QED
    BY <1>4, <2>1 DEF EntryCopies
<1>7. \A r \in Wide : TwoBytes(regs'[r])
  BY <1>1, <1>3, <1>5, <1>6
<1>8. \A h \in SpilledWords : TwoBytes(mem'[h])
  <2>1. ASSUME NEW h \in SpilledWords PROVE TwoBytes(mem'[h])
    <3>1. h \in Spilled /\ h \notin SpilledBytes
      BY <2>1, SourcesAssumption DEF Spilled
    <3>2. CASE h # a
      BY <1>1, <1>3, <2>1, <3>1, <3>2
    <3>3. CASE h = a /\ e = STACK
      <4>1. mem' = mem
        BY <1>2, <3>3 DEF EntryMove
      <4>2. QED
        BY <1>1, <2>1, <4>1
    <3>4. CASE h = a /\ e # STACK
      <4>1. mem' = Store(regs, mem, a, w)
        BY <1>2, <3>1, <3>4 DEF EntryMove, EntryWordOf
      <4>2. mem' = mem \/ mem' = [mem EXCEPT ![a] = w]
        BY <3>1, <3>4, <4>1 DEF Store
      <4>3. DOMAIN mem = Spilled \cup {"temp"}
        BY <1>1 DEF Machine
      <4>4. mem'[h] \in {mem[h], w}
        BY <3>1, <3>4, <4>2, <4>3
      <4>5. QED
        BY <1>1, <1>5, <2>1, <3>4, <4>4
    <3>5. QED
      BY <3>2, <3>3, <3>4
  <2>2. QED
    BY <2>1
<1>9. QED
  BY <1>7, <1>8 DEF WordsInv, TwoBytes

\* Nothing happens to them when nothing happens.
LEMMA ValuesIdle ==
    ASSUME WordsInv, ValuesInv, ExitsRight, UNCHANGED fvars
    PROVE  WordsInv' /\ ValuesInv' /\ ExitsRight'
<1>1. UNCHANGED <<pc, regs, mem, stack, reached, site, fn, mi, moves, base>>
  BY DEF fvars, vars, siteVars, frameVars, moveVars
<1>2. WordsInv'
  BY <1>1 DEF WordsInv, TwoBytes
<1>3. \A w, r : Holds(r, w)' <=> Holds(r, w)
  BY <1>1 DEF Holds, Byte, Word
<1>4. \A p : EntryValue(p)' = EntryValue(p) /\ (ParamLost(p)' <=> ParamLost(p))
  BY <1>1, SameOuts
<1>5. \A p : /\ InPlace(p)' <=> InPlace(p)
             /\ Stays(p)' <=> Stays(p)
  BY <1>1, <1>3, <1>4 DEF InPlace, Stays
<1>6. \A k : /\ From(k)' = From(k) /\ SrcLoc(k)' = SrcLoc(k) /\ Dest(k)' = Dest(k)
             /\ OutLost(k)' <=> OutLost(k)
  BY <1>1, SameOuts
<1>7. \A k : Gone(k)' <=> Gone(k)
  BY <1>3, <1>4, <1>6 DEF Gone
<1>8. \A k : InPlace(From(k))' <=> InPlace(From(k))
  BY <1>5, <1>6 DEF InPlace
<1>9. \A w, k : Carries(w, From(k))' <=> Carries(w, From(k))
  BY <1>1, <1>6, SameOuts DEF Carries
<1>10. OnTheirWay' <=> OnTheirWay
  BY <1>1, <1>6, <1>7, <1>9, SameOuts DEF OnTheirWay
<1>11. BeingMoved' <=> BeingMoved
  BY <1>1, <1>6, <1>7, <1>8, SameOuts DEF BeingMoved
<1>12. /\ TargetIn(regs, stack)' <=> TargetIn(regs, stack)
       /\ TargetIn(base.regs, base.stack)' <=> TargetIn(base.regs, base.stack)
       /\ Targeted(regs[JumpReg])' <=> Targeted(regs[JumpReg])
       /\ (FramePointerMoved' <=> FramePointerMoved) /\ (NoStableRegister(fn)' <=> NoStableRegister(fn))
  BY <1>1, SameOuts DEF TargetIn, Targeted
<1>13. \A p : Value(EntryValue(p), fn.params[p].act)' <=> Value(EntryValue(p), fn.params[p].act)
  BY <1>1, <1>4 DEF Value, Before
<1>14. Moving' <=> Moving
  BY <1>1 DEF Moving
<1>15. ValuesInv'
  BY <1>1, <1>4, <1>5, <1>7, <1>10, <1>11, <1>12, <1>13, <1>14 DEF ValuesInv
<1>16. ExitsRight'
  BY <1>1, <1>3, <1>4, <1>6, <1>12 DEF ExitsRight, ValuesLeave, JumpReaches, Dest, From
<1>17. QED
  BY <1>2, <1>15, <1>16

\* Every step keeps the values on their way.
LEMMA ValuesStep ==
    ASSUME FrameInv, KeptInv, ParamsInv, WordsInv, ValuesInv, ExitsRight, [Next]_fvars
    PROVE  WordsInv' /\ ValuesInv' /\ ExitsRight'
<1>1. CASE Prologue \/ EntryMove \/ EndParams
  <2>1. pc' \in {"params", "body"}
    BY <1>1 DEF Prologue, EntryMove, EndParams
  <2>2. ValuesInv' /\ ExitsRight'
    BY <2>1 DEF ValuesInv, Moving, ExitsRight, ValuesLeave, JumpReaches
  <2>3. EndParams => WordsInv'
    BY DEF EndParams, WordsInv, TwoBytes
  <2>4. QED
    BY <1>1, <2>2, <2>3, WordsPrologue, WordsMove
<1>2. CASE Body
  <2>1. pc' \in {"ret", "tail", "ntail"}
    <3>1. (\E F \in Fns : fn \in F) /\ pc' = fn.exit
      BY <1>2 DEF FrameInv, FrameBegins, Body
    <3>2. QED
      BY <3>1, FnsAssumption
  <2>2. QED
    BY <1>2, <2>1, ValuesBody DEF ExitsRight, ValuesLeave, JumpReaches
<1>3. CASE StackReturn \/ TailArgs \/ PopOut \/ EndOut \/ PlanReturn \/ ReturnMove \/ EndReturn
           \/ StartTail \/ TailMoves \/ PopTarget
  <2>1. pc' \in {"outs", "epilogue", "retmoves", "ntailargs", "moves"}
    BY <1>3 DEF StackReturn, TailArgs, PushOut, PopOut, EndOut, PlanReturn, ReturnMove, EndReturn,
                StartTail, TailMoves, StartMoves, PopTarget
  <2>2. WordsInv' /\ ExitsRight'
    BY <2>1 DEF WordsInv, ExitsRight, ValuesLeave, JumpReaches
  <2>3. ValuesInv'
    BY <1>3, ValuesPush, ValuesPop, ValuesEnd, ValuesPlan, ValuesReturnMove, ValuesTarget,
       ValuesTailMoves, ValuesPopTarget
  <2>4. QED
    BY <2>2, <2>3
<1>4. CASE emit_epilogue
  <2>1. pc' = "exit"
    BY <1>4 DEF emit_epilogue
  <2>2. QED
    BY <1>4, <2>1, ExitsEpilogue DEF WordsInv
<1>5. CASE SiteMoves /\ UNCHANGED frameVars
  <2>1. pc' \in {"moves", "pops", "placed"}
    BY <1>5 DEF SiteMoves, MoveStep, EmitMove, SaveMove, StartPops, PopSaved, EndPops
  <2>2. ValuesInv'
    BY <1>5, ValuesMoves
  <2>3. QED
    BY <2>1, <2>2 DEF WordsInv, ExitsRight, ValuesLeave, JumpReaches
<1>6. CASE MoveArgs
  <2>1. pc' = "moves" /\ pc = "args" /\ site' = site
    BY <1>6 DEF MoveArgs, StartMoves, siteVars
  <2>2. \E F \in Sites : site \in F
    BY <2>1 DEF FrameInv, CallBegins
  <2>3. site # NoSite
    BY <2>2, SitesAssumption DEF NoSite
  <2>4. ~Moving'
    BY <2>1, <2>3 DEF Moving, NoSite
  <2>5. QED
    BY <2>1, <2>4 DEF WordsInv, ValuesInv, ExitsRight, ValuesLeave, JumpReaches
<1>7. CASE emit_call_saves \/ PushArea \/ EmitCall \/ CaptureResult \/ EndCapture \/ DropArea
           \/ emit_call_restores \/ ReloadResult \/ EndCall
  <2>1. pc' \in {"area", "args", "capture", "cleanup", "restore", "reload", "end"}
    BY <1>7 DEF emit_call_saves, PushArea, EmitCall, CaptureResult, EndCapture, DropArea,
                emit_call_restores, ReloadResult, EndCall
  <2>2. QED
    BY <2>1 DEF WordsInv, ValuesInv, Moving, ExitsRight, ValuesLeave, JumpReaches
<1>8. CASE UNCHANGED fvars
  BY <1>8, ValuesIdle
<1>9. QED
  BY <1>1, <1>2, <1>3, <1>4, <1>5, <1>6, <1>7, <1>8 DEF Next, SiteStep, CallNext, FrameStep

\* Whatever way a function is left, its results, or the arguments of its tail call, are
\* where the caller or the next function expects them, and a near tail call jumps to the
\* target it was given, save for the values OutLost names (bind.c, the RETVAL, TAILCALL
\* and NTAILCALL parts of insert_fixup_moves, emit_epilogue).
THEOREM ExitsAreRight == Spec => []ExitsRight
<1> DEFINE Inv == FrameInv /\ KeptInv /\ ContractKept /\ ParamsInv /\ WordsInv /\ ValuesInv /\ ExitsRight
<1>1. Init => Inv
  BY InitHolds, KeptFirst, ParamsFirst, WordsFirst
<1>2. Inv /\ [Next]_fvars => Inv'
  BY InvStep, KeptStep, ParamsStep, ValuesStep
<1>3. Inv => ExitsRight
  OBVIOUS
<1> HIDE DEF Inv
<1>4. QED
  BY <1>1, <1>2, <1>3, PTL DEF Spec
=============================================================================
