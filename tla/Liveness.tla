------------------------------ MODULE Liveness ------------------------------
(***************************************************************************)
(* Liveness and interference in the binder (bind.c): build_cfg() splits a  *)
(* function into basic blocks, compute_cfg_liveness() iterates a backward  *)
(* data flow over them, compute_liveness() derives a range of positions    *)
(* for each vreg, and build_igraph() records which vregs may not share a   *)
(* register.  The register allocator (Alloc) starts from the result.       *)
(***************************************************************************)
EXTENDS Integers, FiniteSets, SequencesExt

CONSTANTS Vreg,       \* virtual registers
          Label,
          Functions   \* functions the binder may be given, in families; those
                      \* with planned are followed past the analysis

NoVreg == -1

(***************************************************************************)
(* An instruction.  The kinds stand for: "copy" a MOV of a vreg; "op" an   *)
(* instruction that defines dst; "store" STORE, STOREMEM and STOREFIELD,   *)
(* and "port" OUT, OUTB, BINS and STOS, which read dst; "mcall" a call     *)
(* with the results dst and rets; "branch" JZ, CJMP and LOOP; "exit" RET,  *)
(* TAILCALL, NTAILCALL and GOTO_FN; "barrier" ASM, FAR_LIT, FRAME_ENTER    *)
(* and FRAME_LEAVE.  srcs are the vregs read: src1 except of LEA, src2,    *)
(* further arguments, the results of RETVAL.                               *)
(***************************************************************************)
Op == {"copy", "op", "store", "port", "mcall", "label", "branch", "jmp", "exit",
       "retval", "barrier"}

Insn == [op : Op, dst : Vreg \cup {NoVreg}, srcs : SUBSET Vreg,
         rets : Seq(Vreg), name : Label \cup {"none"}]

ASSUME FunctionsAssumption ==
    /\ Vreg \subseteq Nat
    /\ \A F \in Functions : \A f \in F :
        /\ DOMAIN f = {"insns", "params", "planned"}
        /\ f.insns \in Seq(Insn) /\ f.insns # << >>
        /\ f.params \subseteq Vreg /\ f.planned \in BOOLEAN
        /\ \A k \in DOMAIN f.insns :
              f.insns[k].op \in {"branch", "jmp"} =>
                 \E l \in DOMAIN f.insns : /\ f.insns[l].op = "label"
                                           /\ f.insns[l].name = f.insns[k].name

VARIABLES
    fn,                  \* the function at hand
    blocks,              \* its basic blocks
    pc,                  \* "flow", "ranges", "igraph", "done"
    b,                   \* block index, 0 after the last block of a sweep
    changed, max_iter,   \* loop condition of the data flow
    live_in, live_out,   \* blocks[].live_in, blocks[].live_out
    def_pos, last_use, use_count, in_loop,   \* vregs[]; positions count from 1
    igraph               \* the vregs each vreg interferes with

vars == <<fn, blocks, pc, b, changed, max_iter, live_in, live_out,
          def_pos, last_use, use_count, in_loop, igraph>>

insns == fn.insns
Pos   == DOMAIN insns

-----------------------------------------------------------------------------
(* Instructions. *)

insn_defines_dst(ins) == ins.dst # NoVreg /\ ins.op \notin {"store", "port"}
insn_reads_dst(ins)   == ins.dst # NoVreg /\ ~insn_defines_dst(ins)

Defs(ins) ==
    (IF insn_defines_dst(ins) THEN {ins.dst} ELSE {}) \cup
    (IF ins.op = "mcall" THEN ToSet(ins.rets) ELSE {})

Uses(ins) == ins.srcs \cup (IF insn_reads_dst(ins) THEN {ins.dst} ELSE {})

-----------------------------------------------------------------------------
(* build_cfg(), compute_block_def_use(). *)

Leaders ==
    {1} \cup {i \in Pos : insns[i].op = "label"}
        \cup {i \in Pos : i > 1 /\ insns[i - 1].op \in {"branch", "jmp", "exit"}}

\* Where the blocks start: bb->start of each.
Starts ==
    LET leaders == Leaders
    IN  [k \in 1 .. Cardinality(leaders) |->
            CHOOSE i \in leaders : Cardinality({j \in leaders : j <= i}) = k]

\* The blocks that follow block k in a function whose blocks start at st.
\* A label is looked up in the first block that starts with it.
SuccsOf(st, k, last) ==
    LET term   == insns[last]
        next   == {k + 1} \cap DOMAIN st
        at     == {l \in DOMAIN st : insns[st[l]].op = "label" /\
                                     insns[st[l]].name = term.name}
        target == {l \in at : \A j \in at : l <= j}
    IN  CASE term.op = "branch" -> next \cup target
          [] term.op = "jmp"    -> target
          [] term.op = "exit"   -> {}
          [] OTHER              -> next

\* What the instructions from..to define, and read before they define it.
BlockDefs(from, to) == UNION {Defs(insns[i]) : i \in from .. to}

BlockUses(from, to) ==
    UNION {Uses(insns[i]) \ BlockDefs(from, i - 1) : i \in from .. to}

\* bblock_t; end is exclusive.
BlockOf(st, k) ==
    LET end == IF k = Len(st) THEN Len(insns) + 1 ELSE st[k + 1]
    IN  [start |-> st[k], end |-> end, succs |-> SuccsOf(st, k, end - 1),
         defs |-> BlockDefs(st[k], end - 1), uses |-> BlockUses(st[k], end - 1)]

\* build_cfg()
Blocks ==
    LET st == Starts IN [k \in DOMAIN st |-> BlockOf(st, k)]

NBlocks  == Len(blocks)
Block    == DOMAIN blocks
Preds(k) == {p \in Block : k \in blocks[p].succs}

-----------------------------------------------------------------------------
(* compute_cfg_liveness(). *)

\* Faulty variant: two sweeps.
MaxIter_two == 2

MaxIter == NBlocks * 4 + 10

Init ==
    /\ \E F \in Functions : fn \in F
    /\ blocks = Blocks
    /\ pc = "flow" /\ b = NBlocks /\ changed = FALSE /\ max_iter = MaxIter - 1
    /\ live_in = [k \in Block |-> IF k = 1 THEN fn.params ELSE {}]
    /\ live_out = [k \in Block |-> {}]
    /\ def_pos = [v \in Vreg |-> -1] /\ last_use = [v \in Vreg |-> -1]
    /\ use_count = [v \in Vreg |-> 0]
    /\ in_loop = [v \in Vreg |-> FALSE]
    /\ igraph = [v \in Vreg |-> {}]

FlowBlock ==
    /\ pc = "flow" /\ b > 0
    /\ LET out == UNION {live_in[s] : s \in blocks[b].succs}
           in  == blocks[b].uses \cup (out \ blocks[b].defs) \cup
                  (IF b = 1 THEN fn.params ELSE {})
       IN  /\ live_out' = [live_out EXCEPT ![b] = out]
           /\ live_in' = [live_in EXCEPT ![b] = in]
           /\ changed' = (changed \/ in # live_in[b] \/ out # live_out[b])
    /\ b' = b - 1
    /\ UNCHANGED <<fn, blocks, pc, max_iter, def_pos, last_use, use_count, in_loop, igraph>>

NextSweep ==
    /\ pc = "flow" /\ b = 0 /\ changed /\ max_iter > 0
    /\ b' = NBlocks /\ changed' = FALSE /\ max_iter' = max_iter - 1
    /\ UNCHANGED <<fn, blocks, pc, live_in, live_out, def_pos, last_use, use_count, in_loop, igraph>>

EndFlow ==
    /\ pc = "flow" /\ b = 0 /\ (~changed \/ max_iter = 0)
    /\ pc' = "ranges"
    /\ UNCHANGED <<fn, blocks, b, changed, max_iter, live_in, live_out,
                   def_pos, last_use, use_count, in_loop, igraph>>

-----------------------------------------------------------------------------
(* compute_liveness(). *)

\* The largest and the smallest position in S, or -1.
Latest(S)   == IF S = {} THEN -1 ELSE Max(S)
Earliest(S) == IF S = {} THEN -1 ELSE Min(S)

DefPos(v) ==
    IF v \in fn.params THEN -1
    ELSE Earliest({i \in Pos : v \in Defs(insns[i])})

\* Reading dst counts for the stores, not for the port instructions.
RangeUses(ins) == ins.srcs \cup (IF ins.op = "store" THEN {ins.dst} ELSE {})

\* Faulty variant: only the positions that mention the vreg.
LivePositions_local(v) == {i \in Pos : v \in RangeUses(insns[i])}

LivePositions(v) ==
    {blocks[k].end - 1 : k \in {l \in Block : v \in live_out[l]}} \cup
    {blocks[k].start : k \in {l \in Block : v \in live_in[l]}} \cup
    {i \in Pos : v \in RangeUses(insns[i])}

LastUse(v) ==
    LET use == Latest(LivePositions(v))
    IN  IF use < 0 THEN DefPos(v) ELSE use

\* Instructions that read v, and those that name it as a result again; an
\* instruction counts once however many of its operands v is.
UseCount(v) ==
    Cardinality({i \in Pos : v \in insns[i].srcs}) +
    Cardinality({i \in Pos : /\ DefPos(v) >= 0 /\ DefPos(v) < i
                             /\ insns[i].dst = v \/ v \in ToSet(insns[i].rets)})

\* Live in a block some later (or the same) block jumps back to.
InLoop(v) ==
    \E k \in Block : /\ \E p \in Preds(k) : p >= k
                     /\ v \in live_in[k] \cup live_out[k]

ComputeLiveness ==
    /\ pc = "ranges"
    /\ def_pos' = [v \in Vreg |-> DefPos(v)]
    /\ last_use' = [v \in Vreg |-> LastUse(v)]
    /\ use_count' = [v \in Vreg |-> UseCount(v)]
    /\ in_loop' = [v \in Vreg |-> InLoop(v)]
    /\ pc' = "igraph" /\ b' = 1
    /\ UNCHANGED <<fn, blocks, changed, max_iter, live_in, live_out, igraph>>

-----------------------------------------------------------------------------
(* build_igraph(). *)

Edges(d, L) == {{d, v} : v \in L \ {d}}
AllPairs(L) == UNION {Edges(d, L) : d \in L}

\* Faulty variant: the sources of every instruction die before it defines.
LiveAtDef_after(ins, live) == live

\* The live set a definition is compared with: the sources belong to it, but
\* not that of a copy, so that the two may share a register.
LiveAtDef(ins, live) == IF ins.op = "copy" THEN live ELSE live \cup Uses(ins)

\* The results of an instruction in order; each leaves the live set.
Results(ins) ==
    (IF insn_defines_dst(ins) THEN <<ins.dst>> ELSE << >>) \o
    (IF ins.op = "mcall" THEN ins.rets ELSE << >>)

ResultEdges(ins, live) ==
    LET rs == Results(ins)
    IN  UNION {Edges(rs[j], live \ {rs[l] : l \in 1 .. j - 1}) :
                  j \in DOMAIN rs}

\* walk[i]: the live set above instruction i of block k, and the edges found
\* from the end of the block up to it.
Walk(k) ==
    LET walk[i \in blocks[k].start .. blocks[k].end] ==
            IF i = blocks[k].end THEN [live |-> live_out[k], edges |-> {}]
            ELSE LET below == walk[i + 1]
                     at    == LiveAtDef(insns[i], below.live)
                 IN  [live  |-> (at \ Defs(insns[i])) \cup
                                (IF insns[i].op = "copy" THEN insns[i].srcs
                                                         ELSE {}),
                      edges |-> below.edges \cup ResultEdges(insns[i], at)]
    IN  walk[blocks[k].start]

InterfereBlock ==
    /\ pc = "igraph" /\ b <= NBlocks
    /\ LET top == Walk(b)
           new == top.edges \cup AllPairs(top.live)
       IN  igraph' = [v \in Vreg |->
                        igraph[v] \cup {w \in Vreg \ {v} : {v, w} \in new}]
    /\ b' = b + 1
    /\ UNCHANGED <<fn, blocks, pc, changed, max_iter, live_in, live_out,
                   def_pos, last_use, use_count, in_loop>>

EndIgraph ==
    /\ pc = "igraph" /\ b > NBlocks
    /\ pc' = "done"
    /\ UNCHANGED <<fn, blocks, b, changed, max_iter, live_in, live_out,
                   def_pos, last_use, use_count, in_loop, igraph>>

Done == pc = "done" /\ UNCHANGED vars

Next ==
    \/ FlowBlock \/ NextSweep \/ EndFlow
    \/ ComputeLiveness
    \/ InterfereBlock \/ EndIgraph
    \/ Done

Spec == Init /\ [][Next]_vars

-----------------------------------------------------------------------------
(* Reference: liveness of single instructions, by paths. *)

\* The instructions that may follow i.
Follows(i) ==
    LET ins  == insns[i]
        next == {i + 1} \cap Pos
        at   == {j \in Pos : insns[j].op = "label" /\ insns[j].name = ins.name}
        to   == {j \in at : \A l \in at : j <= l}
    IN  CASE ins.op = "branch" -> next \cup to
          [] ins.op = "jmp"    -> to
          [] ins.op = "exit"   -> {}
          [] OTHER             -> next

\* The instructions from which a path that does not define v leads to one in
\* S, taking a step at a time.
Above(v, S) ==
    LET steps[n \in 0 .. Len(insns)] ==
            IF n = 0 THEN S
            ELSE LET near == steps[n - 1]
                 IN  near \cup {i \in Pos : /\ v \notin Defs(insns[i])
                                            /\ Follows(i) \cap near # {}}
    IN  steps[Len(insns)]

\* The instructions before which v is live: from there some path reads v and
\* defines it nowhere before the read.
LiveAbove(v) == Above(v, {i \in Pos : v \in Uses(insns[i])})

\* The same when the parameters count as read at the entry of the function.
LiveBefore(v) ==
    Above(v, LiveAbove(v) \cup (IF v \in fn.params THEN {1} ELSE {}))

LiveAfter(v) == {i \in Pos : Follows(i) \cap LiveAbove(v) # {}}

-----------------------------------------------------------------------------
(* Properties. *)

\* The variables have their types, and b is a block or just outside.
TypeOK ==
    /\ pc \in {"flow", "ranges", "igraph", "done", "pairs", "singles", "run", "left"}
    /\ b \in 0 .. NBlocks \/ (pc \notin {"flow", "ranges"} /\ b = NBlocks + 1)
    /\ changed \in BOOLEAN /\ max_iter \in 0 .. MaxIter
    /\ live_in \in [Block -> SUBSET Vreg] /\ live_out \in [Block -> SUBSET Vreg]
    /\ def_pos \in [Vreg -> Pos \cup {-1}] /\ last_use \in [Vreg -> Pos \cup {-1}]
    /\ use_count \in [Vreg -> Nat] /\ in_loop \in [Vreg -> BOOLEAN]
    /\ igraph \in [Vreg -> SUBSET Vreg]

\* When the iteration ends, before its "safety bound" of sweeps cuts it off
\* (compute_cfg_liveness), a vreg is live at the edges of a block exactly when
\* some path from there reads it first, parameters being kept at the entry.
LivenessExact ==
    pc = "ranges" =>
        /\ ~changed
        /\ \A v \in Vreg : LET live == LiveBefore(v) IN
              \A k \in Block :
                 /\ v \in live_in[k] <=> blocks[k].start \in live
                 /\ v \in live_out[k] <=> Follows(blocks[k].end - 1) \cap live # {}

(***************************************************************************)
(* "Two vregs that are simultaneously live at any instruction point get an *)
(* edge" (BINDER.md, build_igraph): what an instruction defines, even if   *)
(* nobody reads it, interferes with every other vreg live after it, unless *)
(* it is a copy of that vreg, and parameters in use with each other.  Of   *)
(* two results of one call both have to be live.                           *)
(***************************************************************************)
InterferenceComplete ==
    pc = "done" =>
        /\ \A v \in Vreg : \A i \in LiveAfter(v) :
              \A d \in Defs(insns[i]) \ {v} :
                 \/ d \in igraph[v] /\ v \in igraph[d]
                 \/ insns[i].op = "copy" /\ insns[i].srcs = {v}
                 \/ v \in Defs(insns[i]) /\ i \notin LiveAfter(d)
        /\ \A p, q \in {v \in fn.params : 1 \in LiveAbove(v)} :
              p = q \/ q \in igraph[p]

\* "A vreg's last use is the latest instruction where it's still live"
\* (compute_liveness): no vreg is read after its range, which later passes
\* take for free; vregs that a port or string instruction reads as its dst
\* are left out, as the code does not count that read.
LastUseCovers ==
    pc = "done" =>
        \A v \in Vreg :
           \/ \E i \in Pos : insns[i].op = "port" /\ insns[i].dst = v
           \/ \A i \in LiveAbove(v) : i <= last_use[v]
=============================================================================
