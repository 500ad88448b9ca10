-------------------------------- MODULE Place --------------------------------
(***************************************************************************)
(* Where the binder puts functions and data.  main() walks the modules     *)
(* twice, each module once and used modules where their .use stands:       *)
(* place_module() decides emit_seg of every function and data block, by    *)
(* which later code tells near from far; emit_module() writes the          *)
(* assembly, with org, seg and endorg for at() and end at.  asm is what    *)
(* the assembler makes of those directives.                                *)
(***************************************************************************)
EXTENDS Integers, Sequences, SequencesExt, FiniteSets

CONSTANTS Mod,      \* modules
          Seg,      \* segments of at()
          Ref       \* functions, data blocks and globals

UNKNOWN == -1       \* no segment yet
Kinds == {"fn", "data", "glob", "at", "endat", "use"}

\* An entry of emit_order[]: seg is that of its at(), ref the object declared or
\* the module used.
Declares == {"fn", "data", "glob"}
Item ==
    {it \in [kind : Kinds, seg : Seg \cup {UNKNOWN}, ref : Ref \cup Mod \cup {0}] :
        /\ it.kind \in Declares => it.ref \in Ref
        /\ it.kind = "use" => it.ref \in Mod
        /\ it.kind = "at" => it.seg # UNKNOWN}

\* record_emit() is called once for every object read.
DeclaredOnce(items) ==
    \A m, n \in Mod : \A j \in DOMAIN items[m], k \in DOMAIN items[n] :
        /\ {items[m][j].kind, items[n][k].kind} \subseteq Declares
        /\ items[m][j].ref = items[n][k].ref
        => m = n /\ j = k
Layout == {l \in [items : [Mod -> Seq(Item)], root : Mod] : DeclaredOnce(l.items)}

ASSUME PlaceAssumption == Seg \subseteq Nat /\ IsFiniteSet(Mod)

VARIABLES
    layout,       \* what the modules declare, in order
    stage,        \* what main() is doing
    walk,         \* the calls of place_module() or emit_module() under way
    entries,      \* where the assembler was when each of them began
    seen,         \* placed_modules[], done_modules[]
    current_seg, seg_stack,
    emit_seg,     \* of functions and data blocks
    bind_errors,
    asm           \* the assembler: position, segment, org stack, label segments

placing == <<walk, entries, seen, current_seg, seg_stack>>
placeVars == <<layout, stage, placing, emit_seg, bind_errors, asm>>

Top == Last(walk)
Items == layout.items[Top.mod]
Cur == Items[Top.ei]
At(kinds) == walk # << >> /\ Top.ei <= Len(Items) /\ Cur.kind \in kinds
HasAt == Cur.seg # UNKNOWN
Advance ==
    /\ walk' = [walk EXCEPT ![Len(walk)].ei = @ + 1]
    /\ UNCHANGED entries
Enter(m) ==
    /\ walk' = Append(walk, [mod |-> m, ei |-> 1, depth |-> Len(seg_stack)])
    /\ entries' = Append(entries, asm)
    /\ seen' = seen \cup {m}

\* A walk starts at the last module given to the binder.
Begin ==
    /\ walk' = <<[mod |-> layout.root, ei |-> 1, depth |-> 0]>>
    /\ entries' = <<asm>>
    /\ seen' = {layout.root}
    /\ current_seg' = UNKNOWN /\ seg_stack' = << >>

PlaceInit ==
    /\ stage = "place"
    /\ asm = [base |-> 0, seg |-> 0, stack |-> << >>, labels |-> << >>]
    /\ walk = <<[mod |-> layout.root, ei |-> 1, depth |-> 0]>>
    /\ entries = <<asm>>
    /\ seen = {layout.root}
    /\ current_seg = UNKNOWN /\ seg_stack = << >>
    /\ emit_seg = [r \in Ref |-> UNKNOWN]
    /\ bind_errors = 0

-----------------------------------------------------------------------------
(* The segment stack; at_depth is its height. *)

PushSeg(s) ==
    /\ seg_stack' = Append(seg_stack, current_seg)
    /\ current_seg' = s

\* Drops all but n entries.
PopTo(n) ==
    /\ current_seg' = IF Len(seg_stack) > n THEN seg_stack[n + 1] ELSE current_seg
    /\ seg_stack' = IF Len(seg_stack) > n THEN SubSeq(seg_stack, 1, n) ELSE seg_stack

PopSeg == PopTo(IF seg_stack = << >> THEN 0 ELSE Len(seg_stack) - 1)

\* What the assembler does with the directives.
Org(a, s) ==
    [a EXCEPT !.stack = Append(@, [base |-> a.base, seg |-> a.seg]),
              !.base = s, !.seg = s]
Endorgs(a, n) ==
    LET left == IF n > Len(a.stack) THEN 0 ELSE Len(a.stack) - n IN
    IF left = Len(a.stack) THEN a
    ELSE [a EXCEPT !.base = a.stack[left + 1].base, !.seg = a.stack[left + 1].seg,
                   !.stack = SubSeq(@, 1, left)]
Label(a, r) == [a EXCEPT !.labels = Append(@, <<r, a.seg>>)]

-----------------------------------------------------------------------------
(* place_module(), place_item(). *)

SegOfFn == IF HasAt THEN Cur.seg ELSE current_seg

PlaceFn ==
    /\ stage = "place" /\ At({"fn"})
    /\ emit_seg' = [emit_seg EXCEPT ![Cur.ref] = SegOfFn]
    /\ Advance
    /\ UNCHANGED <<layout, stage, seen, current_seg, seg_stack, bind_errors, asm>>

\* Faulty variant: a data block's own at() does not open a block here.
PlaceData_noblock ==
    /\ stage = "place" /\ At({"data"})
    /\ IF HasAt \/ current_seg # UNKNOWN
       THEN /\ emit_seg' = [emit_seg EXCEPT ![Cur.ref] = SegOfFn]
            /\ UNCHANGED bind_errors
       ELSE bind_errors' = bind_errors + 1 /\ UNCHANGED emit_seg
    /\ Advance
    /\ UNCHANGED <<layout, stage, seen, current_seg, seg_stack, asm>>

PlaceData ==
    /\ stage = "place" /\ At({"data"})
    /\ IF HasAt THEN PushSeg(Cur.seg) ELSE UNCHANGED <<current_seg, seg_stack>>
    /\ IF HasAt \/ current_seg # UNKNOWN
       THEN /\ emit_seg' = [emit_seg EXCEPT ![Cur.ref] = SegOfFn]
            /\ UNCHANGED bind_errors
       ELSE bind_errors' = bind_errors + 1 /\ UNCHANGED emit_seg
    /\ Advance
    /\ UNCHANGED <<layout, stage, seen, asm>>

PlaceGlobal ==
    /\ stage = "place" /\ At({"glob"})
    /\ IF HasAt THEN PushSeg(Cur.seg) ELSE UNCHANGED <<current_seg, seg_stack>>
    /\ Advance
    /\ UNCHANGED <<layout, stage, seen, emit_seg, bind_errors, asm>>

PlaceAt ==
    /\ stage = "place" /\ At({"at", "endat"})
    /\ IF Cur.kind = "at" THEN PushSeg(Cur.seg) ELSE PopSeg
    /\ Advance
    /\ UNCHANGED <<layout, stage, seen, emit_seg, bind_errors, asm>>

\* Both walks expand a .use the same way, the first time.
\* Faulty variant: at every .use.
Use_again ==
    /\ At({"use"})
    /\ Enter(Cur.ref) /\ Len(walk) <= Cardinality(Mod)
    /\ UNCHANGED <<layout, stage, current_seg, seg_stack, emit_seg, bind_errors, asm>>

Use ==
    /\ At({"use"})
    /\ IF Cur.ref \in seen
       THEN Advance /\ UNCHANGED seen
       ELSE Enter(Cur.ref)
    /\ UNCHANGED <<layout, stage, current_seg, seg_stack, emit_seg, bind_errors, asm>>

\* The used module's end: its open blocks are closed.
EndOfUse == Len(walk) > 1 /\ Top.ei > Len(Items)
Return ==
    /\ walk' = [Front(walk) EXCEPT ![Len(walk) - 1].ei = @ + 1]
    /\ entries' = Front(entries)

PlaceReturn ==
    /\ stage = "place" /\ EndOfUse
    /\ PopTo(Top.depth)
    /\ Return
    /\ UNCHANGED <<layout, stage, seen, emit_seg, bind_errors, asm>>

-----------------------------------------------------------------------------
(* emit_module(), emit_item(). *)

EmitFn ==
    /\ stage = "emit" /\ At({"fn"})
    /\ emit_seg' = [emit_seg EXCEPT ![Cur.ref] = SegOfFn]
    /\ asm' = Label(IF HasAt THEN Org(asm, Cur.seg) ELSE asm, Cur.ref)
    /\ Advance
    /\ UNCHANGED <<layout, stage, seen, current_seg, seg_stack, bind_errors>>

EmitData ==
    /\ stage = "emit" /\ At({"data"})
    /\ IF HasAt THEN PushSeg(Cur.seg) ELSE UNCHANGED <<current_seg, seg_stack>>
    /\ asm' = Label(IF HasAt THEN Org(asm, Cur.seg)
                    ELSE [asm EXCEPT !.seg = emit_seg[Cur.ref]], Cur.ref)
    /\ Advance
    /\ UNCHANGED <<layout, stage, seen, emit_seg, bind_errors>>

EmitGlobal ==
    /\ stage = "emit" /\ At({"glob"})
    /\ IF HasAt THEN PushSeg(Cur.seg) ELSE UNCHANGED <<current_seg, seg_stack>>
    /\ asm' = Label(IF HasAt THEN Org(asm, Cur.seg) ELSE asm, Cur.ref)
    /\ Advance
    /\ UNCHANGED <<layout, stage, seen, emit_seg, bind_errors>>

EmitAt ==
    /\ stage = "emit" /\ At({"at", "endat"})
    /\ IF Cur.kind = "at"
       THEN PushSeg(Cur.seg) /\ asm' = Org(asm, Cur.seg)
       ELSE PopSeg /\ asm' = Endorgs(asm, 1)
    /\ Advance
    /\ UNCHANGED <<layout, stage, seen, emit_seg, bind_errors>>

\* Faulty variant: one block is closed, however many are open.
EmitReturn_one ==
    /\ stage = "emit" /\ EndOfUse
    /\ PopTo(Top.depth)
    /\ asm' = IF Len(seg_stack) > Top.depth THEN Endorgs(asm, 1) ELSE asm
    /\ Return
    /\ UNCHANGED <<layout, stage, seen, emit_seg, bind_errors>>
\* Faulty variant: the blocks are closed in the output only.
EmitReturn_text ==
    /\ stage = "emit" /\ EndOfUse
    /\ asm' = IF Len(seg_stack) > Top.depth
              THEN Endorgs(asm, Len(seg_stack) - Top.depth) ELSE asm
    /\ Return
    /\ UNCHANGED <<layout, stage, seen, current_seg, seg_stack, emit_seg, bind_errors>>

EmitReturn ==
    /\ stage = "emit" /\ EndOfUse
    /\ PopTo(Top.depth)
    /\ asm' = IF Len(seg_stack) > Top.depth
              THEN Endorgs(asm, Len(seg_stack) - Top.depth) ELSE asm
    /\ Return
    /\ UNCHANGED <<layout, stage, seen, emit_seg, bind_errors>>

\* The root module's end leaves its blocks open.
EndOfWalk == Len(walk) = 1 /\ Top.ei > Len(Items)

PlaceStep == PlaceFn \/ PlaceData \/ PlaceGlobal \/ PlaceAt \/ PlaceReturn
EmitStep == EmitFn \/ EmitData \/ EmitGlobal \/ EmitAt \/ EmitReturn
PlaceNext == PlaceStep \/ EmitStep \/ Use

-----------------------------------------------------------------------------
(* Properties. *)

PlaceTypeOK ==
    /\ layout \in Layout
    /\ Len(entries) = Len(walk)
    /\ \A k \in DOMAIN walk :
          walk[k].mod \in seen /\ walk[k].ei \in 1 .. Len(layout.items[walk[k].mod]) + 1
    /\ \A j, k \in DOMAIN walk : walk[j].mod = walk[k].mod => j = k
    /\ current_seg \in Seg \cup {UNKNOWN}
    /\ seg_stack \in Seq(Seg \cup {UNKNOWN})
    /\ emit_seg \in [Ref -> Seg \cup {UNKNOWN}]
    /\ bind_errors \in Nat

\* Emission finds the segment placement decided: what was called near or far,
\* or reached through CS, before the callee was emitted stays right.
WalksAgree == [][\A r \in Ref : emit_seg'[r] # emit_seg[r] => stage = "place"]_placeVars

\* A function's own at() opens a block in the output that neither walk counts,
\* and an end at too many closes one of the using module's.
Opened(s, n) ==
    Cardinality({k \in 1 .. n : s[k].kind \in {"at", "data", "glob"} /\ s[k].seg # UNKNOWN})
Closed(s, n) == Cardinality({k \in 1 .. n : s[k].kind = "endat"})
Tame ==
    \A m \in Mod : LET s == layout.items[m] IN
        \A k \in DOMAIN s :
            /\ s[k].kind = "fn" => s[k].seg = UNKNOWN
            /\ Closed(s, k) <= Opened(s, k)

\* The assembler defines every label in the segment the binder took it to be in.
SegmentsBelieved ==
    Tame => \A k \in DOMAIN asm.labels :
        LET r == asm.labels[k][1] IN
        emit_seg[r] # UNKNOWN => asm.labels[k][2] = emit_seg[r]

\* "A used module cannot move the parent's output position" (SPEC.md, Module
\* isolation).
ModulesIsolated ==
    [][stage = "emit" /\ EndOfUse /\ Tame =>
          [asm' EXCEPT !.labels = << >>] = [Last(entries) EXCEPT !.labels = << >>]]_placeVars

\* The modules a build reaches are written once each, however the uses run.
ReachableIn[n \in Nat] ==
    IF n = 0 THEN {layout.root}
    ELSE ReachableIn[n - 1] \cup
         {it.ref : it \in {x \in UNION {ToSet(layout.items[m]) : m \in ReachableIn[n - 1]} :
                              x.kind = "use"}}
Declared == {it.ref : it \in {x \in UNION {ToSet(layout.items[m]) :
                                m \in ReachableIn[Cardinality(Mod)]} :
                                x.kind \in Declares}}
WrittenOnce ==
    /\ \A j, k \in DOMAIN asm.labels : asm.labels[j][1] = asm.labels[k][1] => j = k
    /\ stage = "done" => {asm.labels[k][1] : k \in DOMAIN asm.labels} = Declared
=============================================================================
