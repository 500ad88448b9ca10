------------------------------- MODULE Prefer -------------------------------
(***************************************************************************)
(* The registers parameters are passed in.  propagate_preferences() takes  *)
(* the functions in the order of topo_sort(), gives each its parameter     *)
(* registers from what its own values prefer, and hands these on to the    *)
(* vregs its callers pass; so a wish travels up the call graph.            *)
(***************************************************************************)
EXTENDS Clobbers, Pregs

CONSTANT Vreg

(***************************************************************************)
(* What the functions declare.  params[f] are its parameters in order, by  *)
(* vreg and width;        pins[f] the registers .param and .prefer name;   *)
(* movs[f] its register moves <<dst, src>>; segs[f] the vregs of type seg. *)
(* edges are the calls in order, with the vregs passed and received;       *)
(* rets[c] the result registers of a function or extern, NONE on the       *)
(* stack; takes[e] the parameter registers of an extern; pwords and rwords *)
(* the stack words of parameters and results, 0 for those in registers.    *)
(***************************************************************************)
Param == [v : Vreg, byte : BOOLEAN]
Edge == [caller : Fn, callee : Fn \cup Ext, args : Seq(Vreg), rets : Seq(Vreg)]
AbiType ==
    [params : [Fn -> Seq(Param)], pins : [Fn -> [Vreg -> Preg \cup {NONE}]],
     movs : [Fn -> Seq(Vreg \X Vreg)], segs : [Fn -> SUBSET Vreg],
     edges : Seq(Edge), rets : [Fn \cup Ext -> Seq(Preg \cup {NONE})],
     takes : [Ext -> Seq(Preg \cup {NONE})], far : SUBSET (Fn \cup Ext),
     pwords : [Fn \cup Ext -> Seq(0 .. 1)], rwords : [Fn \cup Ext -> Seq(0 .. 2)]]

VARIABLES
    abi,
    ti,           \* index in topo_order
    step,         \* "externs", "honour", "moves", "free", "tell", "settle", "resolved"
    prefer,       \* vregs[].prefer of every function
    is_seg,       \* vregs[].is_seg
    param_regs,   \* fn_assigns[].param_regs
    param_stack_offsets, return_stack_offsets,
    needs_frame,  \* the functions with a stack parameter or result
    favoured,     \* the parameters that got a register something preferred
    abi_errors

stacking == <<param_stack_offsets, return_stack_offsets, needs_frame>>
preferVars == <<abi, step, ti, prefer, is_seg, param_regs, stacking, favoured, abi_errors>>

PreferInit ==
    /\ ti = 1 /\ step = "externs"
    /\ prefer = abi.pins /\ is_seg = abi.segs
    /\ param_regs = [f \in Fn |-> [p \in DOMAIN abi.params[f] |-> NONE]]
    /\ param_stack_offsets = [c \in Fn \cup Ext |-> << >>]
    /\ return_stack_offsets = [c \in Fn \cup Ext |-> << >>]
    /\ needs_frame = {}
    /\ favoured = [f \in Fn |-> {}]
    /\ abi_errors = 0

(***************************************************************************)
(* A loop: what a has become after the steps 1 .. n.  Step k makes         *)
(* next(x, k) of x; S is the set the values are in.                        *)
(***************************************************************************)
Iterated(nxt, a, n) ==
    LET upto[k \in 0 .. n] == IF k = 0 THEN a ELSE nxt[<<k, upto[k - 1]>>]
    IN  upto[n]
Loop(next(_, _), S, a, n) == Iterated([y \in (1 .. n) \X S |-> next(y[2], y[1])], a, n)

Wishes == [Vreg -> Preg \cup {NONE}]     \* of one function
Grants(f) == [DOMAIN abi.params[f] -> Preg \cup {NONE}]

\* propagate_preferences() follows topo_sort().
Resolving(s) == pc = "rest" /\ i = NF + 1 /\ step = s
This == topo_order[ti]
Params(f) == DOMAIN abi.params[f]
InRegister(f) == {p \in Params(f) : abi.pwords[f][p] = 0}

\* Offsets from BP of what lies on the stack, words after words; 0 otherwise.
WordsBefore(words, k) == FoldLeft(LAMBDA n, w : n + w, 0, SubSeq(words, 1, k - 1))
StackOffsets(c, words) ==
    [k \in DOMAIN words |->
        IF words[k] = 0 THEN 0
        ELSE (IF c \in abi.far THEN 6 ELSE 4) + 2 * WordsBefore(words, k)]
LayOut(cs) ==
    /\ param_stack_offsets' = [c \in Fn \cup Ext |->
           IF c \in cs THEN StackOffsets(c, abi.pwords[c]) ELSE param_stack_offsets[c]]
    /\ return_stack_offsets' = [c \in Fn \cup Ext |->
           IF c \in cs THEN StackOffsets(c, abi.rwords[c]) ELSE return_stack_offsets[c]]
    /\ needs_frame' = needs_frame \cup
           {f \in cs \cap Fn : \E k \in DOMAIN (abi.pwords[f] \o abi.rwords[f]) :
                                 (abi.pwords[f] \o abi.rwords[f])[k] > 0}

-----------------------------------------------------------------------------
(* Wishes handed to callers. *)

\* The vregs an edge hands over, with the register each should be in.
Handed(e, takes, gives) ==
    [k \in 1 .. Len(takes) |-> IF k <= Len(e.args) THEN <<e.args[k], takes[k]>>
                               ELSE <<0, NONE>>]
    \o [k \in 1 .. Len(gives) |-> IF k <= Len(e.rets) THEN <<e.rets[k], gives[k]>>
                                  ELSE <<0, NONE>>]

\* A vreg takes the first wish, and keeps its own.
Wish(pref, w) ==
    IF w[2] \in {NONE, "SP"} \/ pref[w[1]] # NONE THEN pref
    ELSE [pref EXCEPT ![w[1]] = w[2]]

Tell(all, e, takes, gives) ==
    LET ws == Handed(e, takes, gives)
    IN  [all EXCEPT ![e.caller] = Loop(LAMBDA pref, k : Wish(pref, ws[k]), Wishes, @, Len(ws))]

TellCallers(callees, takes, gives) ==
    LET told(all, k) ==
            LET e == abi.edges[k] IN
            IF e.callee \in callees THEN Tell(all, e, takes[e.callee], gives[e.callee]) ELSE all
    IN  prefer' = Loop(told, [Fn -> Wishes], prefer, Len(abi.edges))

\* Extern registers are fixed.
PropagateExterns ==
    /\ Resolving("externs")
    /\ TellCallers(Ext, abi.takes, abi.rets)
    /\ LayOut(Ext)
    /\ step' = "honour"
    /\ UNCHANGED <<abi, ti, is_seg, param_regs, favoured, abi_errors>>

-----------------------------------------------------------------------------
(* One function, in topological order. *)

\* reg_used[]: a word takes its halves with it, a byte not its word.
Used(regs) ==
    (UNION {IF regs[p] \in SplitWords THEN {regs[p]} \cup Halves(regs[p]) ELSE {regs[p]} :
              p \in DOMAIN regs}) \ {NONE}

Grant(regs, p, r) ==
    IF r = NONE \/ r \in Used(regs) \/ regs[p] # NONE THEN regs
    ELSE [regs EXCEPT ![p] = r]

Assign(regs) ==
    /\ param_regs' = [param_regs EXCEPT ![This] = regs]
    /\ favoured' = [favoured EXCEPT ![This] = {p \in Params(This) : regs[p] # NONE}]

\* Parameters whose vreg prefers a register get it, the first that asks.
HonourPreferences ==
    /\ Resolving("honour") /\ ti <= Len(topo_order)
    /\ LET ask(regs, p) ==
               IF p \notin InRegister(This) THEN regs
               ELSE Grant(regs, p, prefer[This][abi.params[This][p].v])
       IN  Assign(Loop(ask, Grants(This), param_regs[This], Len(abi.params[This])))
    /\ LayOut({This})
    /\ step' = "moves"
    /\ UNCHANGED <<abi, ti, prefer, is_seg, abi_errors>>

\* A parameter that is moved to a vreg with a preference gets that register.
FollowMoves ==
    /\ Resolving("moves")
    /\ LET follow(m, regs, p) ==
               IF p \in InRegister(This) /\ abi.params[This][p].v = m[2]
               THEN Grant(regs, p, prefer[This][m[1]]) ELSE regs
           move(regs, k) ==
               Loop(LAMBDA rs, p : follow(abi.movs[This][k], rs, p),
                    Grants(This), regs, Len(abi.params[This]))
       IN  Assign(Loop(move, Grants(This), param_regs[This], Len(abi.movs[This])))
    /\ step' = "free"
    /\ UNCHANGED <<abi, ti, prefer, is_seg, stacking, abi_errors>>

word_order == <<"AX", "BX", "CX", "DX", "SI", "DI", "BP">>
byte_order == <<"AL", "BL", "CL", "DL", "AH", "BH", "CH", "DH">>

\* Faulty variant: halves in use do not count.
alias_conflict_none(r, used) == FALSE
alias_conflict(r, used) ==
    \/ r \in SplitWords /\ Halves(r) \cap used # {}
    \/ r \in ByteRegs /\ preg_alias_parent[r] \in used

FirstFree(order, used) ==
    LET free == {k \in DOMAIN order :
                    order[k] \notin used /\ ~alias_conflict(order[k], used)}
    IN  IF free = {} THEN NONE ELSE order[CHOOSE k \in free : \A l \in free : k <= l]

\* The others take what is left; one that finds nothing is an error.
TakeFree ==
    /\ Resolving("free")
    /\ LET take(regs, p) ==
               IF p \notin InRegister(This) \/ regs[p] # NONE THEN regs
               ELSE [regs EXCEPT ![p] = FirstFree(
                        IF abi.params[This][p].byte THEN byte_order ELSE word_order, Used(regs))]
           regs == Loop(take, Grants(This), param_regs[This], Len(abi.params[This]))
       IN  /\ param_regs' = [param_regs EXCEPT ![This] = regs]
           /\ abi_errors' = abi_errors
                  + Cardinality({p \in InRegister(This) : regs[p] = NONE})
    /\ step' = "tell"
    /\ UNCHANGED <<abi, ti, prefer, is_seg, stacking, favoured>>

\* The seg type travels with the wish.
SegTold(segs, e, a) ==
    IF /\ a \in Params(e.callee) /\ param_regs[e.callee][a] # NONE
       /\ abi.params[e.callee][a].v \in segs[e.callee]
    THEN [segs EXCEPT ![e.caller] = @ \cup {e.args[a]}] ELSE segs
SegsTold(callee) ==
    LET told(segs, k) ==
            LET e == abi.edges[k] IN
            IF e.callee = callee
            THEN Loop(LAMBDA s, a : SegTold(s, e, a), [Fn -> SUBSET Vreg], segs, Len(e.args))
            ELSE segs
    IN  Loop(told, [Fn -> SUBSET Vreg], is_seg, Len(abi.edges))

Propagate ==
    /\ Resolving("tell")
    /\ TellCallers({This}, param_regs, abi.rets)
    /\ is_seg' = SegsTold(This)
    /\ ti' = ti + 1 /\ step' = "honour"
    /\ UNCHANGED <<abi, param_regs, stacking, favoured, abi_errors>>

\* In the end parameters prefer the registers they arrive in.
Settle ==
    /\ Resolving("honour") /\ ti > Len(topo_order)
    /\ prefer' = [f \in Fn |-> [v \in Vreg |->
           LET here == {p \in InRegister(f) :
                          abi.params[f][p].v = v /\ param_regs[f][p] \notin {NONE, "SP"}}
           IN  IF here = {} THEN prefer[f][v]
               ELSE param_regs[f][CHOOSE p \in here : \A q \in here : q <= p]]]
    /\ step' = "resolved"
    /\ UNCHANGED <<abi, ti, is_seg, param_regs, stacking, favoured, abi_errors>>

PreferStep ==
    /\ \/ PropagateExterns \/ HonourPreferences \/ FollowMoves \/ TakeFree
       \/ Propagate \/ Settle
    /\ UNCHANGED vars

-----------------------------------------------------------------------------
(* Properties. *)

PreferTypeOK ==
    /\ abi \in AbiType
    /\ ti \in 1 .. NF + 1
    /\ prefer \in [Fn -> [Vreg -> Preg \cup {NONE}]]
    /\ is_seg \in [Fn -> SUBSET Vreg]
    /\ \A f \in Fn : DOMAIN param_regs[f] = Params(f) /\ favoured[f] \subseteq Params(f)
    /\ needs_frame \subseteq Fn /\ abi_errors \in Nat

\* No two parameters of a function arrive in one register, and a parameter
\* that merely took a free register shares no half with another.
ParamsApart ==
    \A f \in Fn : \A p, q \in InRegister(f) :
        p # q /\ pregs_alias(param_regs[f][p], param_regs[f][q]) =>
            /\ {p, q} \subseteq favoured[f]
            /\ param_regs[f][p] # param_regs[f][q]

\* "A can place the value in SI from the start.  No intermediate moves"
\* (SPEC.md, Parameter passing): a parameter that is only passed on to a
\* function that reaches no recursion arrives where that function takes it,
\* unless another parameter arrives there.
PassedOn(f, p) ==
    LET v == abi.params[f][p].v IN
    UNION {LET e == abi.edges[k] IN
           {<<k, a>> : a \in {b \in DOMAIN e.args : e.args[b] = v}
                              \cup {b \in DOMAIN e.rets : e.rets[b] = v}} :
               k \in {k \in DOMAIN abi.edges : abi.edges[k].caller = f}}
NoMoves ==
    step = "resolved" =>
        \A f \in Grounded : \A p \in InRegister(f) : \A ka \in PassedOn(f, p) :
            LET e == abi.edges[ka[1]]
                v == abi.params[f][p].v
                theirs == param_regs[e.callee][ka[2]]
            IN  (/\ PassedOn(f, p) = {ka} /\ e.callee \in Fn
                 /\ ka[2] \in DOMAIN e.args \cap InRegister(e.callee)
                 /\ ka[2] \notin DOMAIN e.rets
                 /\ abi.pins[f][v] = NONE /\ theirs \notin {NONE, "SP"}) =>
                \/ param_regs[f][p] = theirs
                \/ \E q \in Params(f) : q # p /\ pregs_alias(param_regs[f][q], theirs)

\* What ends up in a seg parameter, through any number of calls, is a seg value
\* all along, where the parameter arrives in a register.
SegsKnown ==
    step = "resolved" =>
        \A k \in DOMAIN abi.edges : LET e == abi.edges[k] IN
            e.callee \in Fn /\ e.caller \in Grounded =>
                \A a \in DOMAIN e.args \cap InRegister(e.callee) :
                    /\ abi.params[e.callee][a].v \in is_seg[e.callee]
                    /\ param_regs[e.callee][a] # NONE
                    => e.args[a] \in is_seg[e.caller]

\* What a function wants of a parameter reaches the callers, any number of calls
\* up, before their own parameters are placed.
WishesTravel == NoMoves /\ SegsKnown
=============================================================================
