------------------------------ MODULE AsmProofs ------------------------------
(***************************************************************************)
(* Proofs about the passes of the assembler, for sources of any length,    *)
(* any number of labels, re-runs and bytes of output.                      *)
(*                                                                         *)
(* Why the re-runs work is a comparison of two runs over the same source.  *)
(* The labels a run has not reached yet are what is left of the run before *)
(* it, so the invariant says that a run before it exists: a layout of the  *)
(* whole source, line by line, in which no line is longer than it is now   *)
(* and which the current run has so far overtaken at no line.              *)
(***************************************************************************)
EXTENDS Asm, ProofFacts

-----------------------------------------------------------------------------
(* Types. *)

\* What a line emits is a number of bytes.
LEMMA LengthType ==
    ASSUME TypeOK, line <= Len(prog)
    PROVE  Cur \in Line /\ line \in 1 .. Len(prog) /\ Length \in Nat
<1>1. line \in 1 .. Len(prog) /\ prog \in Seq(Line)
  BY DEF TypeOK
<1>2. Cur \in Line
  BY <1>1 DEF Cur
<1>3. Cur.op \in Ops /\ Cur.n \in Nat
  BY <1>2 DEF Line
<1>4. BranchLength \in Nat /\ \A x : DispLength(x) \in Nat /\ ImmLength(x) \in Nat
  BY DEF BranchLength, DispLength, ImmLength
<1>5. Length \in Nat
  BY <1>3, <1>4 DEF Length, Ops
<1>6. QED
  BY <1>1, <1>2, <1>5

\* The org lines above a line.
Above(n) == {j \in 1 .. n - 1 : prog[j].op = "org"}

\* They are counted one by one.
LEMMA OrgsCounted ==
    ASSUME NEW k \in Nat, k >= 1
    PROVE  /\ Cardinality(Above(k)) \in Nat
           /\ Cardinality(Above(k + 1)) =
                 Cardinality(Above(k)) + (IF prog[k].op = "org" THEN 1 ELSE 0)
<1>1. IsFiniteSet(Above(k)) /\ Cardinality(Above(k)) \in Nat
  <2>1. IsFiniteSet(1 .. k - 1) /\ Above(k) \subseteq 1 .. k - 1
    BY FS_Interval DEF Above
  <2>2. QED
    BY <2>1, FS_Subset, FS_CardinalityType
<1>2. k \notin Above(k)
  BY DEF Above
<1>3. Above(k + 1) = IF prog[k].op = "org" THEN Above(k) \cup {k} ELSE Above(k)
  BY DEF Above
<1>4. Cardinality(Above(k) \cup {k}) = Cardinality(Above(k)) + 1
  BY <1>1, <1>2, FS_AddElement
<1>5. QED
  BY <1>1, <1>3, <1>4

\* Every program starts well formed.
LEMMA TypeInit == Init => TypeOK
<1> SUFFICES ASSUME Init PROVE TypeOK
  OBVIOUS
<1>1. prog \in Seq(Line) /\ Len(prog) \in Nat
  BY ProgramsAssumption DEF Init
<1>2. {k \in 1 .. line - 1 : prog[k].op = "org"} = {} /\ Len(org_stack) = 0
  BY DEF Init, Start
<1>3. Cardinality({k \in 1 .. line - 1 : prog[k].op = "org"}) = 0
  BY <1>2, FS_EmptySet
<1>4. /\ line \in 1 .. Len(prog) + 1 /\ org_stack \in Seq([org_base : Nat, out_pos : Nat, seg_base : Nat])
      /\ out_pos \in Nat /\ org_base \in Nat /\ seg_base \in Nat
  BY <1>1 DEF Init, Start
<1>5. DOMAIN labels = {}
  BY DEF Init
<1>6. /\ status = "run" /\ pass = 1 /\ iter \in 0 .. MAX_RERUNS /\ relaxed_lines = {}
      /\ jcc_relaxed \in BOOLEAN /\ errors = 0
  <2>1. jcc_relaxed = FALSE
    BY DEF Init
  <2>2. jcc_relaxed \in BOOLEAN
    BY <2>1
  <2>3. QED
    BY <2>2, BoundsAssumption DEF Init
<1>7. QED
  BY <1>1, <1>2, <1>3, <1>4, <1>5, <1>6 DEF TypeOK

\* A label gets an address and a segment.
LEMMA LabelType ==
    ASSUME TypeOK, DefineLabel
    PROVE  /\ DOMAIN labels' \subseteq Label /\ errors' \in Nat
           /\ \A l \in DOMAIN labels' : labels'[l] \in [value : Nat, segment : Nat]
<1>1. Cur \in Line /\ line <= Len(prog)
  BY LengthType DEF DefineLabel, At
<1>2. Cur.lab \in Label /\ Cur.n \in Nat /\ Here \in Nat /\ seg_base \in Nat /\ errors \in Nat
  BY <1>1 DEF Line, Here, TypeOK
<1>3. CASE UNCHANGED labels /\ errors' = errors + 1
  BY <1>2, <1>3 DEF TypeOK
<1>4. CASE /\ UNCHANGED errors
           /\ labels' =
                 [l \in DOMAIN labels \cup {Cur.lab} |->
                    IF l # Cur.lab THEN labels[l]
                    ELSE [value |-> IF Cur.op = "equ" THEN Cur.n ELSE Here,
                          segment |-> seg_base]]
  <2>1. DOMAIN labels' = DOMAIN labels \cup {Cur.lab}
    BY <1>4
  <2>2. \A l \in DOMAIN labels' : l # Cur.lab => labels'[l] = labels[l]
    BY <1>4
  <2>3. labels'[Cur.lab] \in [value : Nat, segment : Nat]
    BY <1>2, <1>4
  <2>4. QED
    BY <1>2, <1>4, <2>1, <2>2, <2>3 DEF TypeOK
<1>5. QED
  BY <1>3, <1>4 DEF DefineLabel

\* Lines are processed one after the other.
LineStep ==
    DefineLabel \/ Bytes \/ Branch \/ Loop \/ Reference \/ Org \/ EndOrg \/ Seg

\* What all lines have in common.
LEMMA StepBasics ==
    ASSUME TypeOK, LineStep
    PROVE  /\ status = "run" /\ line <= Len(prog) /\ line' = line + 1
           /\ UNCHANGED <<prog, pass, iter, status>>
BY DEF LineStep, DefineLabel, Bytes, Branch, Loop, Reference, Org, EndOrg, Seg,
       At, NextLine, control

\* The place where the next line goes.
LEMMA PlaceType ==
    ASSUME TypeOK, LineStep
    PROVE  /\ out_pos' \in Nat /\ org_base' \in Nat /\ seg_base' \in Nat
           /\ org_stack' \in Seq([org_base : Nat, out_pos : Nat, seg_base : Nat])
           /\ Len(org_stack') <= Len(org_stack) + (IF Cur.op = "org" THEN 1 ELSE 0)
<1>1. /\ Cur \in Line /\ Cur.n \in Nat /\ Length \in Nat
      /\ out_pos \in Nat /\ org_base \in Nat /\ seg_base \in Nat
  BY StepBasics, LengthType DEF Line, TypeOK
<1> DEFINE Saved == [org_base : Nat, out_pos : Nat, seg_base : Nat]
<1>2. org_stack \in Seq(Saved) /\ Len(org_stack) \in Nat
  BY DEF TypeOK
<1>3. CASE UNCHANGED place /\ out_pos' \in {out_pos, out_pos + Length}
  BY <1>1, <1>2, <1>3 DEF place
<1>4. CASE Org
  <2>1. PICK r : r = [org_base |-> org_base, out_pos |-> out_pos, seg_base |-> seg_base]
    OBVIOUS
  <2>2. r \in Saved
    BY <1>1, <2>1
  <2>3. org_stack' = Append(org_stack, r) /\ Cur.op = "org"
    BY <1>4, <2>1 DEF Org, At
  <2> HIDE DEF Saved
  <2>4. org_stack' \in Seq(Saved) /\ Len(org_stack') = Len(org_stack) + 1
    BY <1>2, <2>2, <2>3
  <2>5. org_base' \in Nat /\ out_pos' \in Nat /\ seg_base' \in Nat
    BY <1>1, <1>4 DEF Org
  <2>6. QED
    BY <1>2, <2>3, <2>4, <2>5 DEF Saved
<1>5. CASE EndOrg /\ org_stack # << >>
  <2>1. PICK r : r = org_stack[Len(org_stack)]
    OBVIOUS
  <2>2. r \in Saved /\ Len(org_stack) > 0
    <3>1. Len(org_stack) # 0
      BY <1>2, <1>5
    <3>2. Len(org_stack) \in 1 .. Len(org_stack)
      BY <1>2, <3>1
    <3> HIDE DEF Saved
    <3>3. QED
      BY <1>2, <2>1, <3>2
  <2>3. org_base' \in Nat /\ out_pos' \in Nat /\ seg_base' \in Nat
    BY <1>5, <2>1, <2>2 DEF EndOrg
  <2>4. org_stack' = Front(org_stack)
    BY <1>5 DEF EndOrg, Front
  <2> HIDE DEF Saved
  <2>5. Front(org_stack) \in Seq(Saved) /\ Len(Front(org_stack)) = Len(org_stack) - 1
    BY ONLY <1>2, <2>2, FrontOf
  <2>6. Len(org_stack') <= Len(org_stack)
    BY <1>2, <2>4, <2>5
  <2>7. Cur.op # "org"
    BY <1>5 DEF EndOrg, At
  <2>8. QED
    BY <2>3, <2>4, <2>5, <2>6, <2>7 DEF Saved
<1>6. CASE EndOrg /\ org_stack = << >>
  BY <1>3, <1>6 DEF EndOrg
<1>7. CASE Seg
  BY <1>1, <1>2, <1>7 DEF Seg
<1>8. QED
  BY <1>3, <1>4, <1>5, <1>6, <1>7
     DEF LineStep, DefineLabel, Bytes, Branch, Loop, Reference, Emit

\* Every step of the assembler keeps its state well formed.
LEMMA TypeNext == TypeOK /\ [Next]_vars => TypeOK'
<1> SUFFICES ASSUME TypeOK, [Next]_vars PROVE TypeOK'
  OBVIOUS
<1>1. CASE LineStep
  <2>1. /\ line <= Len(prog) /\ line' = line + 1 /\ UNCHANGED <<prog, pass, iter, status>>
        /\ line \in Nat /\ line >= 1 /\ line \in 1 .. Len(prog) /\ Len(prog) \in Nat
    BY <1>1, StepBasics DEF TypeOK
  <2>2. /\ DOMAIN labels' \subseteq Label /\ errors' \in Nat
        /\ \A l \in DOMAIN labels' : labels'[l] \in [value : Nat, segment : Nat]
    <3>1. CASE DefineLabel
      BY <3>1, LabelType
    <3>2. CASE ~DefineLabel
      <4>1. UNCHANGED labels
        BY ONLY <1>1, <3>2 DEF LineStep, Bytes, Branch, Loop, Reference, Org, EndOrg, Seg
      <4>2. errors' \in Nat
        <5>1. errors \in Nat /\ Undefined(Cur.lab) \in Nat
          BY DEF TypeOK, Undefined
        <5>2. CASE Branch \/ Loop \/ Reference
          <6>1. \/ errors' = errors + Undefined(Cur.lab)
                \/ errors' = errors + Undefined(Cur.lab) + (IF InRange(Rel8) THEN 0 ELSE 1)
            BY ONLY <5>2 DEF Branch, Loop, Reference
          <6>2. QED
            BY ONLY <5>1, <6>1
        <5>3. CASE Bytes \/ Org \/ EndOrg \/ Seg
          BY ONLY <5>1, <5>3 DEF Bytes, Org, EndOrg, Seg
        <5>4. QED
          BY ONLY <1>1, <3>2, <5>2, <5>3 DEF LineStep
      <4>3. QED
        BY <4>1, <4>2 DEF TypeOK
    <3>3. QED
      BY <3>1, <3>2
  <2>3. relaxed_lines' \subseteq 1 .. Len(prog') /\ jcc_relaxed' \in BOOLEAN
    <3>1. relaxed_lines' \subseteq relaxed_lines \cup {line}
      BY <1>1 DEF LineStep, DefineLabel, Bytes, Branch, Loop, Reference, Org, EndOrg, Seg
    <3>2. jcc_relaxed' \in BOOLEAN
      BY <1>1 DEF LineStep, DefineLabel, Bytes, Branch, Loop, Reference, Org, EndOrg, Seg, TypeOK
    <3>3. QED
      BY <2>1, <3>1, <3>2 DEF TypeOK
  <2>4. /\ out_pos' \in Nat /\ org_base' \in Nat /\ seg_base' \in Nat
        /\ org_stack' \in Seq([org_base : Nat, out_pos : Nat, seg_base : Nat])
        /\ Len(org_stack') <= Len(org_stack) + (IF Cur.op = "org" THEN 1 ELSE 0)
    BY <1>1, PlaceType
  <2>5. Len(org_stack') <= Cardinality({k \in 1 .. line' - 1 : prog'[k].op = "org"})
    <3>1. PICK a, c : a = Cardinality(Above(line)) /\ c = Cardinality(Above(line + 1))
      OBVIOUS
    <3>2. a \in Nat /\ c = a + (IF prog[line].op = "org" THEN 1 ELSE 0)
      BY <2>1, <3>1, OrgsCounted
    <3>3. Len(org_stack) <= a
      BY <3>1 DEF TypeOK, Above
    <3>4. Len(org_stack') \in Nat /\ Len(org_stack) \in Nat
      BY <2>4 DEF TypeOK
    <3>5. Len(org_stack') <= c
      BY <2>4, <3>2, <3>3, <3>4 DEF Cur
    <3>6. {k \in 1 .. line' - 1 : prog'[k].op = "org"} = Above(line + 1)
      BY <2>1 DEF Above
    <3>7. QED
      BY <3>1, <3>5, <3>6
  <2>6. line' \in 1 .. Len(prog') + 1
    BY <2>1
  <2>7. QED
    BY <2>1, <2>2, <2>3, <2>4, <2>5, <2>6 DEF TypeOK
<1>2. CASE Rerun \/ StartPass2
  <2>1. /\ line' = 1 /\ org_stack' = << >> /\ out_pos' = 0 /\ org_base' = 0 /\ seg_base' = 0
        /\ UNCHANGED <<prog, labels, relaxed_lines, status>>
    BY <1>2 DEF Rerun, StartPass2, Restart
  <2>2. {k \in 1 .. line' - 1 : prog'[k].op = "org"} = {} /\ Len(org_stack') = 0
    BY <2>1
  <2>3. Cardinality({k \in 1 .. line' - 1 : prog'[k].op = "org"}) = 0
    BY <2>2, FS_EmptySet
  <2>4. line' \in 1 .. Len(prog') + 1
    BY <2>1 DEF TypeOK
  <2>5. iter' \in 0 .. MAX_RERUNS
    BY <1>2, BoundsAssumption DEF Rerun, StartPass2, TypeOK
  <2>6. pass' \in {1, 2} /\ jcc_relaxed' \in BOOLEAN /\ errors' \in Nat
    <3>1. pass' \in {1, 2} /\ errors' \in Nat
      BY <1>2 DEF Rerun, StartPass2, TypeOK
    <3>2. jcc_relaxed' = FALSE \/ jcc_relaxed' = jcc_relaxed
      BY <1>2 DEF Rerun, StartPass2
    <3>3. QED
      BY <3>1, <3>2 DEF TypeOK
  <2>7. QED
    BY <2>1, <2>2, <2>3, <2>4, <2>5, <2>6 DEF TypeOK
<1>3. CASE Overflow \/ Finish
  BY <1>3 DEF Overflow, Finish, control, place, TypeOK
<1>4. CASE UNCHANGED vars
  BY <1>4 DEF vars, TypeOK
<1>5. QED
  BY <1>1, <1>2, <1>3, <1>4 DEF Next, Done, LineStep

\* The assembler's globals stay well formed over all runs, and the org stack holds
\* no more than the org lines of the current run.
THEOREM TypeCorrect == Spec => []TypeOK
BY TypeInit, TypeNext, PTL DEF Spec

-----------------------------------------------------------------------------
(* Where a line goes. *)

Saved == [org_base : Nat, out_pos : Nat, seg_base : Nat]
Spot  == [org_base : Nat, out_pos : Nat, seg_base : Nat, org_stack : Seq(Saved)]
TopSpot == [org_base |-> 0, out_pos |-> 0, seg_base |-> 0, org_stack |-> << >>]
HereSpot ==
    [org_base |-> org_base, out_pos |-> out_pos, seg_base |-> seg_base,
     org_stack |-> org_stack]

\* Where the line after line k of the source p goes when k is at s and emits len bytes.
Advance(p, k, s, len) ==
    IF p[k].op = "org"
    THEN [org_base |-> p[k].n, out_pos |-> 0, seg_base |-> s.seg_base,
          org_stack |-> Append(s.org_stack, [org_base |-> s.org_base, out_pos |-> s.out_pos,
                                             seg_base |-> s.seg_base])]
    ELSE IF p[k].op = "endorg"
    THEN IF s.org_stack = << >> THEN s
         ELSE [org_base |-> Last(s.org_stack).org_base, out_pos |-> Last(s.org_stack).out_pos,
               seg_base |-> Last(s.org_stack).seg_base, org_stack |-> Front(s.org_stack)]
    ELSE IF p[k].op = "seg"
    THEN [org_base |-> s.org_base, out_pos |-> s.out_pos, seg_base |-> p[k].n,
          org_stack |-> s.org_stack]
    ELSE [org_base |-> s.org_base, out_pos |-> s.out_pos + len, seg_base |-> s.seg_base,
          org_stack |-> s.org_stack]

\* s and t are the same place but for code before them that is no longer in s than in t.
BelowSaved(x, y) ==
    x.org_base = y.org_base /\ x.seg_base = y.seg_base /\ x.out_pos <= y.out_pos
Below(s, t) ==
    /\ BelowSaved(s, t) /\ Len(s.org_stack) = Len(t.org_stack)
    /\ \A k \in 1 .. Len(s.org_stack) : BelowSaved(s.org_stack[k], t.org_stack[k])

\* A line placed somewhere leaves a place behind it, with a saved address for each
\* org still open.
LEMMA AdvanceType ==
    ASSUME NEW p \in Seq(Line), NEW k \in 1 .. Len(p), NEW s \in Spot, NEW len \in Nat
    PROVE  Advance(p, k, s, len) \in Spot
<1>1. p[k] \in Line /\ p[k].n \in Nat
  <2>1. p[k] \in Line
    OBVIOUS
  <2>2. QED
    BY <2>1 DEF Line
<1>2. /\ s.org_base \in Nat /\ s.out_pos \in Nat /\ s.seg_base \in Nat
      /\ s.org_stack \in Seq(Saved) /\ Len(s.org_stack) \in Nat
  BY DEF Spot
<1>3. CASE p[k].op = "org"
  <2>1. PICK x : x = [org_base |-> s.org_base, out_pos |-> s.out_pos, seg_base |-> s.seg_base]
    OBVIOUS
  <2>2. x \in Saved
    BY <1>2, <2>1 DEF Saved
  <2>3. Append(s.org_stack, x) \in Seq(Saved)
    BY <1>2, <2>2
  <2>4. QED
    BY <1>1, <1>2, <1>3, <2>1, <2>3 DEF Advance, Spot
<1>4. CASE p[k].op = "endorg" /\ s.org_stack # << >>
  <2>1. Len(s.org_stack) > 0
    BY <1>2, <1>4
  <2>2. Front(s.org_stack) \in Seq(Saved) /\ Last(s.org_stack) \in Saved
    BY ONLY <1>2, <2>1, FrontOf
  <2>3. PICK x \in Saved, f \in Seq(Saved) : x = Last(s.org_stack) /\ f = Front(s.org_stack)
    BY <2>2
  <2>4. x.org_base \in Nat /\ x.out_pos \in Nat /\ x.seg_base \in Nat
    BY DEF Saved
  <2>5. QED
    BY <1>4, <2>3, <2>4 DEF Advance, Spot
<1>5. CASE p[k].op = "endorg" /\ s.org_stack = << >>
  BY <1>5 DEF Advance
<1>6. CASE p[k].op \notin {"org", "endorg"}
  BY <1>1, <1>2, <1>6 DEF Advance, Spot
<1>7. QED
  BY <1>3, <1>4, <1>5, <1>6

\* A line that is placed no higher is left no higher.
LEMMA AdvanceBelow ==
    ASSUME NEW p \in Seq(Line), NEW k \in 1 .. Len(p), NEW s \in Spot, NEW t \in Spot,
           NEW a \in Nat, NEW b \in Nat, a <= b, Below(s, t)
    PROVE  Below(Advance(p, k, s, a), Advance(p, k, t, b))
<1>1. /\ s.org_base \in Nat /\ s.out_pos \in Nat /\ s.seg_base \in Nat
      /\ t.org_base \in Nat /\ t.out_pos \in Nat /\ t.seg_base \in Nat
  BY DEF Spot
<1>2. /\ s.org_base = t.org_base /\ s.seg_base = t.seg_base /\ s.out_pos <= t.out_pos
  BY DEF Below, BelowSaved
<1>3. PICK u \in Seq(Saved), v \in Seq(Saved), n \in Nat :
          u = s.org_stack /\ v = t.org_stack /\ n = Len(u) /\ n = Len(v)
  BY DEF Below, Spot
<1>4. \A j \in 1 .. n : BelowSaved(u[j], v[j])
  BY <1>3 DEF Below
<1>5. CASE p[k].op = "org"
  <2>1. PICK x, y : /\ x = [org_base |-> s.org_base, out_pos |-> s.out_pos, seg_base |-> s.seg_base]
                    /\ y = [org_base |-> t.org_base, out_pos |-> t.out_pos, seg_base |-> t.seg_base]
    OBVIOUS
  <2>2. x \in Saved /\ y \in Saved /\ BelowSaved(x, y)
    BY <1>1, <1>2, <2>1 DEF Saved, BelowSaved
  <2>3. /\ Len(Append(u, x)) = n + 1 /\ Len(Append(v, y)) = n + 1
        /\ Append(u, x)[n + 1] = x /\ Append(v, y)[n + 1] = y
        /\ \A j \in 1 .. n : Append(u, x)[j] = u[j] /\ Append(v, y)[j] = v[j]
    <3>1. /\ Len(Append(u, x)) = Len(u) + 1 /\ Append(u, x)[Len(u) + 1] = x
          /\ \A j \in 1 .. Len(u) : Append(u, x)[j] = u[j]
      BY ONLY <2>2, AppendProperties, u \in Seq(Saved)
    <3>2. /\ Len(Append(v, y)) = Len(v) + 1 /\ Append(v, y)[Len(v) + 1] = y
          /\ \A j \in 1 .. Len(v) : Append(v, y)[j] = v[j]
      BY ONLY <2>2, AppendProperties, v \in Seq(Saved)
    <3>3. QED
      BY <1>3, <3>1, <3>2
  <2>4. \A j \in 1 .. n + 1 : j \in 1 .. n \/ j = n + 1
    OBVIOUS
  <2>5. \A j \in 1 .. n + 1 : BelowSaved(Append(u, x)[j], Append(v, y)[j])
    BY <1>4, <2>2, <2>3, <2>4
  <2>6. PICK c, d : c = Append(u, x) /\ d = Append(v, y)
    OBVIOUS
  <2>7. /\ Advance(p, k, s, a) = [org_base |-> p[k].n, out_pos |-> 0, seg_base |-> s.seg_base,
                                  org_stack |-> c]
        /\ Advance(p, k, t, b) = [org_base |-> p[k].n, out_pos |-> 0, seg_base |-> t.seg_base,
                                  org_stack |-> d]
    BY <1>3, <1>5, <2>1, <2>6 DEF Advance
  <2>8. Len(c) = n + 1 /\ Len(d) = n + 1 /\ \A j \in 1 .. n + 1 : BelowSaved(c[j], d[j])
    BY <2>3, <2>5, <2>6
  <2>9. QED
    BY <1>2, <2>7, <2>8 DEF Below, BelowSaved
<1>6. CASE p[k].op = "endorg" /\ n > 0
  <2>1. /\ Len(Front(u)) = n - 1 /\ Len(Front(v)) = n - 1
        /\ \A j \in 1 .. n - 1 : Front(u)[j] = u[j] /\ Front(v)[j] = v[j]
        /\ Last(u) = u[n] /\ Last(v) = v[n]
    <3>1. Len(u) > 0 /\ Len(v) > 0
      BY <1>3, <1>6
    <3>2. /\ Len(Front(u)) = Len(u) - 1 /\ Last(u) = u[Len(u)]
          /\ \A j \in 1 .. Len(u) - 1 : Front(u)[j] = u[j]
      BY ONLY <3>1, FrontOf, u \in Seq(Saved)
    <3>3. /\ Len(Front(v)) = Len(v) - 1 /\ Last(v) = v[Len(v)]
          /\ \A j \in 1 .. Len(v) - 1 : Front(v)[j] = v[j]
      BY ONLY <3>1, FrontOf, v \in Seq(Saved)
    <3>4. QED
      BY <1>3, <3>2, <3>3
  <2>2. PICK c, d, x, y : c = Front(u) /\ d = Front(v) /\ x = Last(u) /\ y = Last(v)
    OBVIOUS
  <2>3. n \in 1 .. n /\ \A j \in 1 .. n - 1 : j \in 1 .. n
    BY <1>6
  <2>4. BelowSaved(x, y) /\ \A j \in 1 .. n - 1 : BelowSaved(c[j], d[j])
    BY <1>4, <2>1, <2>2, <2>3
  <2>5. u # << >> /\ v # << >>
    <3>1. Len(u) # 0 /\ Len(v) # 0
      BY <1>3, <1>6
    <3>2. Len(<< >>) = 0
      OBVIOUS
    <3>3. QED
      BY ONLY <3>1, <3>2
  <2>6. /\ Advance(p, k, s, a) = [org_base |-> x.org_base, out_pos |-> x.out_pos,
                                  seg_base |-> x.seg_base, org_stack |-> c]
        /\ Advance(p, k, t, b) = [org_base |-> y.org_base, out_pos |-> y.out_pos,
                                  seg_base |-> y.seg_base, org_stack |-> d]
    BY <1>3, <1>6, <2>2, <2>5 DEF Advance
  <2>7. Len(c) = n - 1 /\ Len(d) = n - 1
    BY <2>1, <2>2
  <2>8. QED
    BY <2>4, <2>6, <2>7 DEF Below, BelowSaved
<1>7. CASE p[k].op = "endorg" /\ n = 0
  <2>1. u = << >> /\ v = << >>
    BY <1>3, <1>7, EmptySeq
  <2>2. QED
    BY <1>3, <1>7, <2>1 DEF Advance
<1>8. CASE p[k].op \notin {"org", "endorg"}
  <2>1. s.out_pos + a <= t.out_pos + b
    BY <1>1, <1>2
  <2>2. PICK x, y : /\ x \in {s.out_pos, s.out_pos + a} /\ Advance(p, k, s, a).out_pos = x
                    /\ y \in {t.out_pos, t.out_pos + b} /\ Advance(p, k, t, b).out_pos = y
                    /\ x <= y
    BY <1>2, <1>8, <2>1 DEF Advance
  <2>3. /\ Advance(p, k, s, a).org_base = s.org_base /\ Advance(p, k, t, b).org_base = t.org_base
        /\ Advance(p, k, s, a).org_stack = u /\ Advance(p, k, t, b).org_stack = v
        /\ Advance(p, k, s, a).seg_base = Advance(p, k, t, b).seg_base
    BY <1>2, <1>3, <1>8 DEF Advance
  <2>4. QED
    BY <1>2, <1>3, <1>4, <2>2, <2>3 DEF Below, BelowSaved
<1>9. QED
  BY <1>5, <1>6, <1>7, <1>8

-----------------------------------------------------------------------------
(* How long a line is, as far as the labels and branches known now say. *)

Size(k) ==
    LET target == lookup_label(prog[k].lab)
    IN  CASE prog[k].op \in {"jcc", "jmp"} ->
                IF k \notin relaxed_lines THEN 2 ELSE IF prog[k].op = "jmp" THEN 3 ELSE 5
          [] prog[k].op = "loop"  -> 2
          [] prog[k].op = "call"  -> 3
          [] prog[k].op = "far"   -> 5
          [] prog[k].op = "mem"   -> 2 + DispLength(target)
          [] prog[k].op = "alu"   -> 2 + ImmLength(target)
          [] prog[k].op = "bytes" -> prog[k].n
          [] OTHER                -> 0

\* Labels move up and no relaxed branch becomes short again.
Up ==
    /\ \A l \in DOMAIN labels : l \in DOMAIN labels' /\ labels[l].value <= labels'[l].value
    /\ relaxed_lines \subseteq relaxed_lines' /\ UNCHANGED prog

\* What a label is taken to be while its address is not known yet is an address, too.
LEMMA LabelNat ==
    ASSUME TypeOK, NEW l
    PROVE  lookup_label(l) \in Nat
BY DEF TypeOK, lookup_label, find_label

\* Every line has a length.
LEMMA SizeType ==
    ASSUME TypeOK, NEW k \in 1 .. Len(prog)
    PROVE  prog[k] \in Line /\ Size(k) \in Nat
<1>1. prog[k] \in Line
  BY DEF TypeOK
<1>2. prog[k].op \in Ops /\ prog[k].n \in Nat
  BY <1>1 DEF Line
<1>3. \A x : DispLength(x) \in {0, 1, 2} /\ ImmLength(x) \in {1, 2}
  BY DEF DispLength, ImmLength
<1>4. Size(k) \in Nat
  BY <1>2, <1>3 DEF Size, Ops
<1>5. QED
  BY <1>1, <1>4

SizesNat == \A k \in 1 .. Len(prog) : Size(k) \in Nat
\* All lines have lengths.
LEMMA SizeNat == TypeOK => SizesNat
BY SizeType DEF SizesNat

\* A displacement or immediate is encoded in no fewer bytes when it grows.
LEMMA EncodingGrows ==
    ASSUME NEW a \in Nat, NEW b \in Nat, a <= b
    PROVE  DispLength(a) <= DispLength(b) /\ ImmLength(a) <= ImmLength(b)
BY DEF DispLength, ImmLength, InRange

\* Then no line becomes shorter.
LEMMA SizeGrows ==
    ASSUME TypeOK, TypeOK', Up, NEW k \in 1 .. Len(prog)
    PROVE  Size(k) <= Size(k)'
<1>1. PICK x : x = prog[k] /\ x = prog'[k]
  BY DEF Up
<1>2. x.op \in Ops /\ x.n \in Nat
  BY <1>1, SizeType DEF Line
<1>3. PICK a \in Nat, c \in Nat : a = lookup_label(x.lab) /\ c = lookup_label(x.lab)'
  <2>1. lookup_label(x.lab)' \in Nat
    BY DEF TypeOK, lookup_label, find_label
  <2>2. QED
    BY <2>1, LabelNat
<1>4. a <= c
  <2>1. CASE x.lab \in DOMAIN labels
    <3>1. x.lab \in DOMAIN labels' /\ labels[x.lab].value <= labels'[x.lab].value
      BY <2>1 DEF Up
    <3>2. a = labels[x.lab].value /\ c = labels'[x.lab].value
      BY ONLY <1>3, <2>1, <3>1 DEF lookup_label, find_label
    <3>3. QED
      BY ONLY <3>1, <3>2
  <2>2. CASE x.lab \notin DOMAIN labels
    <3>1. a = 0
      BY ONLY <1>3, <2>2 DEF lookup_label, find_label
    <3>2. QED
      BY ONLY <3>1, c \in Nat
  <2>3. QED
    BY <2>1, <2>2
<1>5. DispLength(a) <= DispLength(c) /\ ImmLength(a) <= ImmLength(c)
  BY <1>4, EncodingGrows
<1>6. \A y : DispLength(y) \in {0, 1, 2} /\ ImmLength(y) \in {1, 2}
  BY DEF DispLength, ImmLength
<1>7. CASE x.op \in {"jcc", "jmp"}
  BY <1>1, <1>7 DEF Up, Size
<1>8. CASE x.op = "mem"
  <2>1. Size(k) = 2 + DispLength(a) /\ Size(k)' = 2 + DispLength(c)
    BY <1>1, <1>3, <1>8 DEF Size
  <2>2. QED
    BY <1>5, <1>6, <2>1
<1>9. CASE x.op = "alu"
  <2>1. Size(k) = 2 + ImmLength(a) /\ Size(k)' = 2 + ImmLength(c)
    BY <1>1, <1>3, <1>9 DEF Size
  <2>2. QED
    BY <1>5, <1>6, <2>1
<1>10. CASE x.op \notin {"jcc", "jmp", "mem", "alu"}
  <2>1. Size(k)' = Size(k)
    BY <1>1, <1>10 DEF Size
  <2>2. QED
    BY <2>1, SizeType
<1>11. QED
  BY <1>7, <1>8, <1>9, <1>10

\* A step places the next line behind the one it processes, which is as long as what
\* is known after the step says, and relaxes no other branch.
LEMMA StepAdvances ==
    ASSUME TypeOK, LineStep, NEW n, n = line
    PROVE  /\ HereSpot' = Advance(prog, line, HereSpot, Size(n)')
           /\ relaxed_lines' = relaxed_lines \cup
                 (IF Cur.op \in {"jcc", "jmp"} /\ Relaxes THEN {line} ELSE {})
           /\ jcc_relaxed' = (jcc_relaxed \/ relaxed_lines' # relaxed_lines)
           /\ (\A k : Size(k)' = Size(k)) \/ relaxed_lines' # relaxed_lines \/ DefineLabel
<1>1. /\ n = line /\ line \in 1 .. Len(prog) /\ Cur = prog[line] /\ Cur.op \in Ops /\ UNCHANGED prog
  BY StepBasics, LengthType DEF Cur, Line
<1>2. CASE Branch
  <2>1. /\ Cur.op \in {"jcc", "jmp"} /\ out_pos' = out_pos + Length /\ UNCHANGED <<place, labels>>
        /\ relaxed_lines' = relaxed_lines \cup (IF Relaxes THEN {line} ELSE {})
        /\ jcc_relaxed' = (jcc_relaxed \/ Relaxes)
    BY <1>2 DEF Branch, At, Emit
  <2>2. Relaxes <=> relaxed_lines' # relaxed_lines
    BY <2>1 DEF Relaxes
  <2>3. Long <=> line \in relaxed_lines'
    BY <2>1 DEF Long
  <2>4. Length = Size(n)'
    BY <1>1, <2>1, <2>3 DEF Length, BranchLength, Size
  <2>5. HereSpot' = Advance(prog, line, HereSpot, Size(n)')
    BY <1>1, <2>1, <2>4 DEF HereSpot, Advance, place
  <2>6. jcc_relaxed' = (jcc_relaxed \/ relaxed_lines' # relaxed_lines)
    BY <2>1, <2>2
  <2>7. (\A k : Size(k)' = Size(k)) \/ relaxed_lines' # relaxed_lines
    BY <1>1, <2>1 DEF Size, lookup_label, find_label
  <2>8. QED
    BY <2>1, <2>5, <2>6, <2>7
<1>3. CASE ~Branch
  <2>1. /\ Cur.op \notin {"jcc", "jmp"} /\ UNCHANGED <<relaxed_lines, jcc_relaxed>>
    BY <1>3 DEF LineStep, DefineLabel, Bytes, Loop, Reference, Org, EndOrg, Seg, At
  <2>2. (\A k : Size(k)' = Size(k)) \/ DefineLabel
    <3>1. UNCHANGED labels \/ DefineLabel
      BY <1>3 DEF LineStep, Bytes, Loop, Reference, Org, EndOrg, Seg
    <3>2. QED
      BY <1>1, <2>1, <3>1 DEF Size, lookup_label, find_label
  <2>3. HereSpot' = Advance(prog, line, HereSpot, Size(n)')
    <3>1. CASE DefineLabel
      <4>1. Size(n)' = 0 /\ out_pos' = out_pos + 0 /\ UNCHANGED place /\ Cur.op \in {"label", "equ"}
        BY <1>1, <3>1 DEF Size, DefineLabel, At, TypeOK
      <4>2. QED
        BY <1>1, <4>1 DEF HereSpot, Advance, place
    <3>2. CASE Bytes \/ Loop \/ Reference
      <4>1. /\ Cur.op \in {"bytes", "loop", "call", "far", "mem", "alu"}
            /\ out_pos' = out_pos + Length /\ UNCHANGED <<place, labels>>
        BY <3>2 DEF Bytes, Loop, Reference, At, Emit
      <4>2. Length = Size(n)'
        BY <1>1, <2>1, <4>1 DEF Length, Size, lookup_label, find_label
      <4>3. QED
        BY <1>1, <4>1, <4>2 DEF HereSpot, Advance, place
    <3>3. CASE Org
      BY <1>1, <3>3 DEF Org, At, HereSpot, Advance
    <3>4. CASE EndOrg
      BY <1>1, <3>4 DEF EndOrg, At, HereSpot, Advance, place, Last, Front
    <3>5. CASE Seg
      BY <1>1, <3>5 DEF Seg, At, HereSpot, Advance
    <3>6. QED
      BY <1>3, <3>1, <3>2, <3>3, <3>4, <3>5 DEF LineStep
  <2>4. jcc_relaxed' = (jcc_relaxed \/ relaxed_lines' # relaxed_lines)
    <3>1. jcc_relaxed' = jcc_relaxed /\ jcc_relaxed \in BOOLEAN /\ relaxed_lines' = relaxed_lines
      BY <2>1 DEF TypeOK
    <3>2. QED
      BY <3>1
  <2>5. relaxed_lines' = relaxed_lines \cup
                 (IF Cur.op \in {"jcc", "jmp"} /\ Relaxes THEN {line} ELSE {})
    BY <2>1
  <2>6. QED
    BY <1>1, <2>2, <2>3, <2>4, <2>5
<1>4. QED
  BY <1>2, <1>3

-----------------------------------------------------------------------------
(* Two runs side by side. *)

Trace == [1 .. Len(prog) + 1 -> Spot]

\* tr is a run up to line n: no line was longer than it is now; and one in which every
\* line was as long as it is now.
Ran(tr, n) ==
    /\ tr \in Trace /\ tr[1] = TopSpot
    /\ \A k \in 1 .. Len(prog) :
          k < n => \E len \in Nat : len <= Size(k) /\ tr[k + 1] = Advance(prog, k, tr[k], len)
Exact(tr, n) ==
    \A k \in 1 .. Len(prog) : k < n => tr[k + 1] = Advance(prog, k, tr[k], Size(k))

Defs == Lines({"label", "equ"})
\* What line k defines its label to be when it is at s.
DefOf(k, s) ==
    [value |-> IF prog[k].op = "equ" THEN prog[k].n ELSE s.org_base + s.out_pos,
     segment |-> s.seg_base]
Defined(k, tr) ==
    prog[k].lab \in DOMAIN labels /\ labels[prog[k].lab] = DefOf(k, tr[k])

\* In the first run the labels further down are not known yet.
First == pass = 1 /\ iter = 0
Fixed == Lines({"mem", "alu"}) = {}

\* A branch that stays short although its label is where it is.
StaysShort(k, s) ==
    \/ InRange(lookup_label(prog[k].lab) - (s.org_base + s.out_pos + 2))
    \/ prog[k].op = "jcc" /\ prog[k].lab \notin DOMAIN labels

CurRun(cur) ==
    /\ Ran(cur, line) /\ cur[line] = HereSpot
    /\ \A j \in Defs : j < line => Defined(j, cur)
    /\ Fixed => Exact(cur, line)

RunBefore(cur, prev) ==
    /\ Ran(prev, Len(prog) + 1)
    /\ \A k \in 1 .. line : Below(prev[k], cur[k])
    /\ \A j \in Defs : j >= line => Defined(j, prev)
    /\ Fixed /\ ~jcc_relaxed => Exact(prev, Len(prog) + 1)
    /\ Settled => /\ \A k \in 1 .. line : cur[k] = prev[k]
                  /\ \A k \in Lines({"jcc", "jmp"}) \ relaxed_lines :
                        k < line \/ pass = 2 => StaysShort(k, prev[k])

RunsInv ==
    /\ iter > 0 \/ jcc_relaxed => relaxed_lines # {}
    /\ UniqueLabels =>
          /\ First => \A j \in Defs : j >= line => prog[j].lab \notin DOMAIN labels
          /\ \E cur \in Trace : /\ CurRun(cur)
                                /\ First \/ \E prev \in Trace : RunBefore(cur, prev)

\* Before the first run there is no run to compare with.
LEMMA RunsInit == Init => RunsInv
<1> SUFFICES ASSUME Init PROVE RunsInv
  OBVIOUS
<1>1. TypeOK /\ prog \in Seq(Line) /\ Len(prog) \in Nat
  BY TypeInit DEF TypeOK
<1>2. TopSpot \in Spot /\ HereSpot = TopSpot
  <2>1. << >> \in Seq(Saved)
    OBVIOUS
  <2>2. QED
    BY <2>1 DEF TopSpot, Spot, HereSpot, Init, Start
<1> DEFINE cur == [k \in 1 .. Len(prog) + 1 |-> TopSpot]
<1>3. cur \in Trace /\ cur[1] = TopSpot
  BY <1>1, <1>2 DEF Trace
<1>4. line = 1 /\ \A k \in 1 .. Len(prog) : ~(k < line)
  BY <1>1 DEF Init, Start
<1>5. CurRun(cur)
  BY <1>2, <1>3, <1>4 DEF CurRun, Ran, Exact, Defs, Lines
<1>6. First /\ jcc_relaxed = FALSE /\ iter = 0 /\ DOMAIN labels = {}
  BY DEF Init, First
<1>7. QED
  BY <1>3, <1>5, <1>6 DEF RunsInv

\* What one line does to the labels.
LEMMA StepLabels ==
    ASSUME TypeOK, RunsInv, UniqueLabels, LineStep,
           NEW cur \in Trace, CurRun(cur),
           First \/ \E prev \in Trace : RunBefore(cur, prev)
    PROVE  /\ \A l \in DOMAIN labels :
                 l \in DOMAIN labels' /\ labels[l].value <= labels'[l].value
           /\ \A j \in Defs : j # line =>
                 /\ prog[j].lab \in DOMAIN labels' <=> prog[j].lab \in DOMAIN labels
                 /\ prog[j].lab \in DOMAIN labels => labels'[prog[j].lab] = labels[prog[j].lab]
           /\ line \in Defs => /\ prog[line].lab \in DOMAIN labels'
                               /\ labels'[prog[line].lab] = DefOf(line, HereSpot)
           /\ \A l : l \in DOMAIN labels' =>
                 (l \in DOMAIN labels /\ labels'[l] = labels[l]) \/ (line \in Defs /\ l = prog[line].lab)
<1>1. /\ line \in 1 .. Len(prog) /\ Cur = prog[line] /\ UNCHANGED prog
  BY StepBasics, LengthType DEF Cur
<1>2. /\ First /\ line \in Defs => prog[line].lab \notin DOMAIN labels
      /\ iter > 0 => relaxed_lines # {}
  <2>1. line >= line
    BY <1>1
  <2>2. First => \A j \in Defs : j >= line => prog[j].lab \notin DOMAIN labels
    BY DEF RunsInv
  <2>3. iter > 0 => relaxed_lines # {}
    BY DEF RunsInv
  <2>4. QED
    BY <2>1, <2>2, <2>3
<1>3. CASE ~DefineLabel
  <2>1. UNCHANGED labels
    BY <1>3 DEF LineStep, Bytes, Branch, Loop, Reference, Org, EndOrg, Seg
  <2>2. line \notin Defs
    BY <1>1, <1>3 DEF LineStep, Bytes, Branch, Loop, Reference, Org, EndOrg, Seg, At, Defs, Lines
  <2>3. \A l \in DOMAIN labels : labels[l].value \in Nat
    BY DEF TypeOK
  <2>4. QED
    BY <2>1, <2>2, <2>3
<1>4. CASE DefineLabel
  <2>1. line \in Defs
    BY <1>1, <1>4 DEF DefineLabel, At, Defs, Lines
  <2>2. \A j \in Defs : j # line => prog[j].lab # prog[line].lab
    BY <2>1 DEF UniqueLabels, Defs
  <2>3. ~(find_label(Cur.lab) /\ pass = 1 /\ relaxed_lines = {})
    <3>1. CASE First
      BY <1>1, <1>2, <2>1, <3>1 DEF find_label
    <3>2. CASE pass = 1 /\ iter # 0
      <4>1. iter \in Nat
        BY BoundsAssumption DEF TypeOK
      <4>2. QED
        BY <1>2, <3>2, <4>1
    <3>3. QED
      BY <3>1, <3>2 DEF First
  <2>4. DOMAIN labels' = DOMAIN labels \cup {prog[line].lab}
    BY <1>1, <1>4, <2>3 DEF DefineLabel
  <2>5. \A l \in DOMAIN labels : l # prog[line].lab => labels'[l] = labels[l]
    BY <1>1, <1>4, <2>3 DEF DefineLabel
  <2>6. labels'[prog[line].lab] = DefOf(line, HereSpot)
    BY <1>1, <1>4, <2>3 DEF DefineLabel, DefOf, HereSpot, Here
  <2>7. \A l \in DOMAIN labels : labels[l].value \in Nat
    BY DEF TypeOK
  <2>8. ASSUME prog[line].lab \in DOMAIN labels
        PROVE  labels[prog[line].lab].value <= labels'[prog[line].lab].value
    <3>1. ~First
      BY <1>2, <2>1, <2>8
    <3>2. PICK prev \in Trace : RunBefore(cur, prev)
      BY <3>1
    <3>3. /\ labels[prog[line].lab] = DefOf(line, prev[line]) /\ Below(prev[line], cur[line])
          /\ cur[line] = HereSpot
      BY <1>1, <2>1, <3>2 DEF RunBefore, CurRun, Defined
    <3>4. prev[line] \in Spot /\ HereSpot \in Spot /\ prog[line].n \in Nat
      <4>1. line \in 1 .. Len(prog) + 1
        BY <1>1
      <4>2. prev[line] \in Spot /\ cur[line] \in Spot
        BY <4>1, <3>2 DEF Trace
      <4>3. QED
        BY <1>1, <3>3, <4>2, SizeType DEF Line
    <3>5. /\ prev[line].org_base = HereSpot.org_base /\ prev[line].out_pos <= HereSpot.out_pos
          /\ prev[line].out_pos \in Nat /\ HereSpot.out_pos \in Nat /\ HereSpot.org_base \in Nat
      BY <3>3, <3>4 DEF Below, BelowSaved, Spot
    <3>6. DefOf(line, prev[line]).value <= DefOf(line, HereSpot).value
      BY <3>4, <3>5 DEF DefOf
    <3>7. QED
      BY <2>6, <3>3, <3>6
  <2>9. QED
    BY <2>1, <2>2, <2>4, <2>5, <2>6, <2>7, <2>8
<1>5. QED
  BY <1>3, <1>4

\* A line moves no label down and shortens no relaxed jump.
LEMMA StepUp ==
    ASSUME TypeOK, RunsInv, UniqueLabels, LineStep
    PROVE  Up
<1>1. PICK cur \in Trace : CurRun(cur) /\ (First \/ \E prev \in Trace : RunBefore(cur, prev))
  BY DEF RunsInv
<1>2. \A l \in DOMAIN labels : l \in DOMAIN labels' /\ labels[l].value <= labels'[l].value
  BY <1>1, StepLabels
<1>3. relaxed_lines \subseteq relaxed_lines' /\ UNCHANGED prog
  BY StepAdvances, StepBasics
<1>4. QED
  BY <1>2, <1>3 DEF Up

\* The current run goes on.
LEMMA StepCurRun ==
    ASSUME TypeOK, TypeOK', RunsInv, UniqueLabels, LineStep,
           NEW cur \in Trace, CurRun(cur),
           First \/ \E prev \in Trace : RunBefore(cur, prev),
           NEW new, new = [cur EXCEPT ![line + 1] = HereSpot']
    PROVE  new \in Trace' /\ CurRun(new)'
<1>1. PICK n : n = line
  OBVIOUS
<1>2. /\ n = line /\ n \in 1 .. Len(prog) /\ n \in Nat /\ n + 1 \in 1 .. Len(prog) + 1 /\ line' = n + 1
      /\ UNCHANGED prog /\ prog \in Seq(Line) /\ Len(prog) \in Nat
  <2>1. prog \in Seq(Line) /\ Len(prog) \in Nat
    BY DEF TypeOK
  <2>2. n \in 1 .. Len(prog) /\ line' = n + 1 /\ UNCHANGED prog
    BY <1>1, StepBasics, LengthType
  <2>3. QED
    BY <1>1, <2>1, <2>2
<1>3. /\ HereSpot' = Advance(prog, n, HereSpot, Size(n)') /\ cur[n] = HereSpot /\ cur[n] \in Spot
      /\ \A k \in 1 .. Len(prog) : cur[k] \in Spot
  <2>1. HereSpot' = Advance(prog, n, HereSpot, Size(n)')
    BY <1>2, StepAdvances
  <2>2. cur[n] = HereSpot
    BY <1>2 DEF CurRun
  <2>3. \A k \in 1 .. Len(prog) : cur[k] \in Spot
    BY <1>2 DEF Trace
  <2>4. QED
    BY <1>2, <2>1, <2>2, <2>3
<1>4. \A k \in 1 .. Len(prog) : Size(k) <= Size(k)' /\ Size(k) \in Nat /\ Size(k)' \in Nat
  <2>1. \A k \in 1 .. Len(prog') : Size(k)' \in Nat
    <3>1. TypeOK' => SizesNat'
      BY SizeNat, PTL
    <3>2. QED
      BY <3>1 DEF SizesNat
  <2>2. \A k \in 1 .. Len(prog) : Size(k) <= Size(k)'
    BY SizeGrows, StepUp
  <2>3. QED
    BY <1>2, <2>1, <2>2, SizeType
<1>5. HereSpot' \in Spot
  BY <1>2, <1>3, <1>4, AdvanceType
<1>6. /\ new \in Trace /\ new \in Trace' /\ new[n + 1] = HereSpot'
      /\ \A k \in 1 .. Len(prog) + 1 : k # n + 1 => new[k] = cur[k]
  BY <1>2, <1>5 DEF Trace
<1>7. \A k \in 1 .. Len(prog) : k < n + 1 => k = n \/ (k < n /\ new[k + 1] = cur[k + 1] /\ new[k] = cur[k])
  BY <1>2, <1>6
<1>8. new[n] = cur[n]
  BY <1>2, <1>6
<1>9. Ran(new, line)'
  <2>1. new[1] = TopSpot
    <3>1. cur[1] = TopSpot /\ 1 # n + 1 /\ 1 \in 1 .. Len(prog) + 1
      BY <1>2 DEF CurRun, Ran
    <3>2. QED
      BY <1>6, <3>1
  <2>2. ASSUME NEW k \in 1 .. Len(prog), k < n
        PROVE  \E len \in Nat : len <= Size(k)' /\ cur[k + 1] = Advance(prog, k, cur[k], len)
    <3>1. PICK len \in Nat : len <= Size(k) /\ cur[k + 1] = Advance(prog, k, cur[k], len)
      BY <1>2, <2>2 DEF CurRun, Ran
    <3>2. len <= Size(k)'
      BY <1>4, <3>1
    <3>3. QED
      BY <3>1, <3>2
  <2>3. new[n + 1] = Advance(prog, n, new[n], Size(n)') /\ Size(n)' \in Nat /\ Size(n)' <= Size(n)'
    BY <1>2, <1>3, <1>4, <1>6, <1>8
  <2>4. ASSUME NEW k \in 1 .. Len(prog), k < n + 1
        PROVE  \E len \in Nat : len <= Size(k)' /\ new[k + 1] = Advance(prog, k, new[k], len)
    BY <1>7, <2>2, <2>3, <2>4
  <2>5. QED
    BY <1>2, <1>6, <2>1, <2>4 DEF Ran
<1>10. \A j \in Defs' : j < line' => Defined(j, new)'
  <2>1. Defs' = Defs /\ Defs \subseteq 1 .. Len(prog)
    BY <1>2 DEF Defs, Lines
  <2>2. ASSUME NEW j \in Defs, j < n PROVE Defined(j, new)'
    <3>1. Defined(j, cur) /\ j # line /\ new[j] = cur[j]
      BY <1>2, <1>7, <2>1, <2>2 DEF CurRun
    <3>2. /\ prog[j].lab \in DOMAIN labels' /\ labels'[prog[j].lab] = labels[prog[j].lab]
      BY <3>1, StepLabels DEF Defined
    <3>3. QED
      BY <1>2, <3>1, <3>2 DEF Defined, DefOf
  <2>3. ASSUME n \in Defs PROVE Defined(n, new)'
    <3>1. /\ prog[n].lab \in DOMAIN labels' /\ labels'[prog[n].lab] = DefOf(n, new[n])
      BY <1>2, <1>3, <1>8, <2>3, StepLabels
    <3>2. QED
      BY <1>2, <3>1 DEF Defined, DefOf
  <2>4. \A j \in Defs : j < n + 1 => j < n \/ j = n
    BY <1>2, <2>1
  <2>5. QED
    BY <1>2, <2>1, <2>2, <2>3, <2>4
<1>11. Fixed' => Exact(new, line)'
  <2> SUFFICES ASSUME Fixed' PROVE Exact(new, line)'
    OBVIOUS
  <2>1. Fixed /\ Exact(cur, n)
    BY <1>2 DEF Fixed, Lines, CurRun
  <2>2. ASSUME NEW k \in 1 .. Len(prog), k < n PROVE Size(k)' = Size(k)
    <3>1. prog[k].op \notin {"mem", "alu"} /\ prog'[k] = prog[k]
      BY <1>2, <2>1 DEF Fixed, Lines
    <3>2. k \in relaxed_lines' <=> k \in relaxed_lines
      BY <1>2, <2>2, StepAdvances
    <3>3. QED
      BY <3>1, <3>2 DEF Size
  <2>3. ASSUME NEW k \in 1 .. Len(prog), k < n + 1
        PROVE  new[k + 1] = Advance(prog, k, new[k], Size(k)')
    <3>1. CASE k < n
      BY <1>7, <2>1, <2>2, <2>3, <3>1 DEF Exact
    <3>2. CASE k = n
      BY <1>3, <1>6, <1>8, <3>2
    <3>3. QED
      BY <1>7, <2>3, <3>1, <3>2
  <2>4. QED
    BY <1>2, <2>3 DEF Exact
<1>12. QED
  BY <1>2, <1>6, <1>9, <1>10, <1>11 DEF CurRun

\* Once a re-run has relaxed nothing, labels are given the addresses they have.
LEMMA SettledStep ==
    ASSUME TypeOK, RunsInv, LineStep, Settled'
    PROVE  /\ Settled /\ UniqueLabels /\ Fixed /\ ~First
           /\ relaxed_lines' = relaxed_lines
           /\ ~(Cur.op \in {"jcc", "jmp"} /\ Relaxes)
           /\ \A l : /\ l \in DOMAIN labels' <=> l \in DOMAIN labels
                     /\ l \in DOMAIN labels => labels'[l] = labels[l]
<1>1. UNCHANGED <<prog, pass, iter>> /\ line \in 1 .. Len(prog) /\ Cur = prog[line]
  BY StepBasics, LengthType DEF Cur
<1>2. /\ jcc_relaxed' = (jcc_relaxed \/ relaxed_lines' # relaxed_lines)
      /\ relaxed_lines' = relaxed_lines \cup
                 (IF Cur.op \in {"jcc", "jmp"} /\ Relaxes THEN {line} ELSE {})
  BY StepAdvances
<1>3. iter > 0 /\ ~jcc_relaxed' /\ UniqueLabels /\ Fixed
  BY <1>1 DEF Settled, UniqueLabels, Lines, Fixed
<1>4. ~jcc_relaxed /\ relaxed_lines' = relaxed_lines
  BY <1>2, <1>3
<1>5. Settled
  BY <1>1, <1>3, <1>4 DEF Settled, Fixed
<1>6. ~First
  BY <1>3 DEF First
<1>7. ~(Cur.op \in {"jcc", "jmp"} /\ Relaxes)
  BY <1>1, <1>2, <1>4 DEF Relaxes
<1>8. PICK cur \in Trace : CurRun(cur) /\ \E prev \in Trace : RunBefore(cur, prev)
  BY <1>3, <1>6 DEF RunsInv
<1>9. PICK prev \in Trace : RunBefore(cur, prev)
  BY <1>8
<1>10. /\ line \in Defs => /\ prog[line].lab \in DOMAIN labels'
                           /\ labels'[prog[line].lab] = DefOf(line, HereSpot)
       /\ \A l : l \in DOMAIN labels' =>
             (l \in DOMAIN labels /\ labels'[l] = labels[l]) \/ (line \in Defs /\ l = prog[line].lab)
       /\ \A l \in DOMAIN labels : l \in DOMAIN labels'
  BY <1>3, <1>8, StepLabels
<1>11. line \in Defs => /\ prog[line].lab \in DOMAIN labels
                        /\ labels[prog[line].lab] = DefOf(line, HereSpot)
  <2>1. line \in 1 .. line /\ line >= line
    BY <1>1
  <2>2. cur[line] = HereSpot /\ cur[line] = prev[line]
    BY <1>5, <1>8, <1>9, <2>1 DEF CurRun, RunBefore
  <2>3. line \in Defs => Defined(line, prev)
    BY <1>9, <2>1 DEF RunBefore
  <2>4. QED
    BY <2>2, <2>3 DEF Defined
<1>12. QED
  BY <1>3, <1>4, <1>5, <1>6, <1>7, <1>10, <1>11

\* The current run stays above the run before it.
LEMMA StepRunBefore ==
    ASSUME TypeOK, TypeOK', RunsInv, UniqueLabels, LineStep,
           NEW cur \in Trace, CurRun(cur), NEW prev \in Trace, RunBefore(cur, prev),
           NEW new, new = [cur EXCEPT ![line + 1] = HereSpot']
    PROVE  prev \in Trace' /\ RunBefore(new, prev)'
<1>1. PICK n : n = line
  OBVIOUS
<1>2. /\ n = line /\ n \in 1 .. Len(prog) /\ n \in Nat /\ n + 1 \in 1 .. Len(prog) + 1 /\ line' = n + 1
      /\ UNCHANGED <<prog, pass>> /\ prog \in Seq(Line) /\ Len(prog) \in Nat
  <2>1. prog \in Seq(Line) /\ Len(prog) \in Nat
    BY DEF TypeOK
  <2>2. n \in 1 .. Len(prog) /\ line' = n + 1 /\ UNCHANGED <<prog, pass>>
    BY <1>1, StepBasics, LengthType
  <2>3. QED
    BY <1>1, <2>1, <2>2
<1>3. /\ HereSpot' = Advance(prog, n, HereSpot, Size(n)') /\ cur[n] = HereSpot
      /\ \A k \in 1 .. Len(prog) + 1 : cur[k] \in Spot /\ prev[k] \in Spot
  <2>1. HereSpot' = Advance(prog, n, HereSpot, Size(n)')
    BY <1>2, StepAdvances
  <2>2. cur[n] = HereSpot
    BY <1>2 DEF CurRun
  <2>3. \A k \in 1 .. Len(prog) + 1 : cur[k] \in Spot /\ prev[k] \in Spot
    BY DEF Trace
  <2>4. QED
    BY <1>2, <2>1, <2>2, <2>3
<1>4. \A k \in 1 .. Len(prog) : Size(k) <= Size(k)' /\ Size(k) \in Nat /\ Size(k)' \in Nat
  <2>1. TypeOK' => SizesNat'
    BY SizeNat, PTL
  <2>2. \A k \in 1 .. Len(prog) : Size(k) <= Size(k)'
    BY SizeGrows, StepUp
  <2>3. QED
    BY <1>2, <2>1, <2>2, SizeType DEF SizesNat
<1>5. /\ new[n + 1] = HereSpot' /\ \A k \in 1 .. Len(prog) + 1 : k # n + 1 => new[k] = cur[k]
      /\ prev \in Trace'
  BY <1>2 DEF Trace
<1>6. \A k \in 1 .. Len(prog) : \E len \in Nat : len <= Size(k) /\ prev[k + 1] = Advance(prog, k, prev[k], len)
  <2>1. \A k \in 1 .. Len(prog) : k < Len(prog) + 1
    BY <1>2
  <2>2. QED
    BY <2>1 DEF RunBefore, Ran
<1>7. Ran(prev, Len(prog) + 1)'
  <2>1. ASSUME NEW k \in 1 .. Len(prog)
        PROVE  \E len \in Nat : len <= Size(k)' /\ prev[k + 1] = Advance(prog, k, prev[k], len)
    <3>1. PICK len \in Nat : len <= Size(k) /\ prev[k + 1] = Advance(prog, k, prev[k], len)
      BY <1>6
    <3>2. len <= Size(k)'
      BY <1>4, <3>1
    <3>3. QED
      BY <3>1, <3>2
  <2>2. prev[1] = TopSpot
    BY DEF RunBefore, Ran
  <2>3. QED
    BY <1>2, <1>5, <2>1, <2>2 DEF Ran
<1>8. \A k \in 1 .. n + 1 : Below(prev[k], new[k])
  <2>1. ASSUME NEW k \in 1 .. n + 1, k # n + 1 PROVE Below(prev[k], new[k])
    <3>1. k \in 1 .. line /\ k \in 1 .. Len(prog) + 1
      BY <1>2, <2>1
    <3>2. Below(prev[k], cur[k])
      BY <3>1 DEF RunBefore
    <3>3. QED
      BY <1>5, <2>1, <3>1, <3>2
  <2>2. Below(prev[n + 1], new[n + 1])
    <3>1. PICK len \in Nat : len <= Size(n) /\ prev[n + 1] = Advance(prog, n, prev[n], len)
      BY <1>2, <1>6
    <3>2. len <= Size(n)' /\ Size(n)' \in Nat
      BY <1>2, <1>4, <3>1
    <3>3. n \in 1 .. line /\ n \in 1 .. Len(prog) + 1
      BY <1>2
    <3>4. Below(prev[n], cur[n]) /\ prev[n] \in Spot /\ cur[n] \in Spot
      BY <1>3, <3>3 DEF RunBefore
    <3>5. Below(Advance(prog, n, prev[n], len), Advance(prog, n, cur[n], Size(n)'))
      BY <1>2, <3>2, <3>4, AdvanceBelow
    <3>6. QED
      BY <1>3, <1>5, <3>1, <3>5
  <2>3. QED
    BY <2>1, <2>2
<1>9. \A j \in Defs : j >= n + 1 => Defined(j, prev)'
  <2> SUFFICES ASSUME NEW j \in Defs, j >= n + 1 PROVE Defined(j, prev)'
    OBVIOUS
  <2>1. j \in 1 .. Len(prog) /\ j # line /\ j >= line
    BY <1>2 DEF Defs, Lines
  <2>2. Defined(j, prev)
    BY <2>1 DEF RunBefore
  <2>3. prog[j].lab \in DOMAIN labels' /\ labels'[prog[j].lab] = labels[prog[j].lab]
    BY <2>1, <2>2, StepLabels DEF Defined
  <2>4. QED
    BY <1>2, <2>2, <2>3 DEF Defined, DefOf
<1>10. Fixed /\ ~jcc_relaxed' => \A k \in 1 .. Len(prog) : prev[k + 1] = Advance(prog, k, prev[k], Size(k)')
  <2> SUFFICES ASSUME Fixed, ~jcc_relaxed', NEW k \in 1 .. Len(prog)
               PROVE  prev[k + 1] = Advance(prog, k, prev[k], Size(k)')
    OBVIOUS
  <2>1. ~jcc_relaxed /\ relaxed_lines' = relaxed_lines
    BY StepAdvances
  <2>2. k < Len(prog) + 1
    BY <1>2
  <2>3. prev[k + 1] = Advance(prog, k, prev[k], Size(k))
    BY <2>1, <2>2 DEF RunBefore, Exact
  <2>4. Size(k)' = Size(k)
    <3>1. prog[k].op \notin {"mem", "alu"} /\ prog'[k] = prog[k]
      BY <1>2 DEF Fixed, Lines
    <3>2. QED
      BY <2>1, <3>1 DEF Size
  <2>5. QED
    BY <2>3, <2>4
<1>11. ASSUME Settled'
       PROVE  /\ \A k \in 1 .. n + 1 : new[k] = prev[k]
              /\ \A k \in Lines({"jcc", "jmp"}) \ relaxed_lines' :
                    k < n + 1 \/ pass = 2 => StaysShort(k, prev[k])'
  <2>1. /\ Settled /\ UniqueLabels /\ Fixed /\ ~First
        /\ relaxed_lines' = relaxed_lines
        /\ ~(Cur.op \in {"jcc", "jmp"} /\ Relaxes)
        /\ \A l : /\ l \in DOMAIN labels' <=> l \in DOMAIN labels
                  /\ l \in DOMAIN labels => labels'[l] = labels[l]
    BY <1>11, SettledStep
  <2>2. \A k \in 1 .. n : k # n + 1 /\ k \in 1 .. Len(prog) + 1 /\ cur[k] = prev[k]
    BY <1>2, <2>1 DEF RunBefore
  <2>3. \A k \in 1 .. n : new[k] = prev[k]
    BY <1>5, <2>2
  <2>4. new[n + 1] = prev[n + 1]
    <3>1. ~jcc_relaxed'
      BY <1>11 DEF Settled
    <3>2. prev[n + 1] = Advance(prog, n, prev[n], Size(n)')
      BY <1>2, <1>10, <2>1, <3>1
    <3>3. n \in 1 .. n
      BY <1>2
    <3>4. QED
      BY <1>3, <1>5, <2>2, <3>2, <3>3
  <2>5. \A k \in 1 .. n + 1 : new[k] = prev[k]
    <3>1. \A k \in 1 .. n + 1 : k \in 1 .. n \/ k = n + 1
      BY <1>2
    <3>2. QED
      BY <2>3, <2>4, <3>1
  <2>6. \A l : lookup_label(l)' = lookup_label(l)
    BY <2>1 DEF lookup_label, find_label
  <2>7. \A k \in 1 .. Len(prog) : StaysShort(k, prev[k]) => StaysShort(k, prev[k])'
    BY <1>2, <2>1, <2>6 DEF StaysShort
  <2>8. n \in Lines({"jcc", "jmp"}) \ relaxed_lines => StaysShort(n, prev[n])
    <3>1. prev[n] = HereSpot /\ Cur = prog[n]
      <4>1. n \in 1 .. n
        BY <1>2
      <4>2. QED
        BY <1>2, <1>3, <2>2, <4>1 DEF Cur
    <3>2. prev[n].org_base = org_base /\ prev[n].out_pos = out_pos
      BY <3>1 DEF HereSpot
    <3>3. n \in Lines({"jcc", "jmp"}) \ relaxed_lines => ~Relaxes /\ line \notin relaxed_lines
      BY <1>2, <2>1, <3>1 DEF Lines
    <3>4. QED
      BY <1>2, <3>1, <3>2, <3>3 DEF Relaxes, StaysShort, Rel8, Here, find_label
  <2>9. ASSUME NEW k \in Lines({"jcc", "jmp"}) \ relaxed_lines', k < n + 1 \/ pass = 2
        PROVE  StaysShort(k, prev[k])'
    <3>1. k \in 1 .. Len(prog) /\ k \in Lines({"jcc", "jmp"}) \ relaxed_lines
      BY <2>1, <2>9 DEF Lines
    <3>2. k = n \/ k < n \/ pass = 2
      BY <1>2, <2>9, <3>1
    <3>3. StaysShort(k, prev[k])
      BY <1>2, <2>1, <2>8, <3>1, <3>2 DEF RunBefore
    <3>4. QED
      BY <2>7, <3>1, <3>3
  <2>10. QED
    BY <2>5, <2>9
<1>12. QED
  <2>1. Defs' = Defs /\ Fixed' = Fixed /\ Lines({"jcc", "jmp"})' = Lines({"jcc", "jmp"})
    BY <1>2 DEF Defs, Lines, Fixed
  <2>2. Fixed' /\ ~jcc_relaxed' => Exact(prev, Len(prog) + 1)'
    BY <1>2, <1>10, <2>1 DEF Exact
  <2>3. QED
    BY <1>2, <1>5, <1>7, <1>8, <1>9, <1>11, <2>1, <2>2 DEF RunBefore

\* When a run ends it becomes the run before the next one.
LEMMA RestartRuns ==
    ASSUME TypeOK, RunsInv, Rerun \/ StartPass2
    PROVE  RunsInv'
<1>1. /\ line = Len(prog) + 1 /\ line' = 1 /\ Len(prog) \in Nat /\ UNCHANGED <<prog, labels, relaxed_lines>>
      /\ HereSpot' = TopSpot /\ pass = 1
  <2>1. Len(prog) \in Nat /\ line \in 1 .. Len(prog) + 1
    BY DEF TypeOK
  <2>2. line > Len(prog) /\ line' = 1 /\ UNCHANGED <<prog, labels, relaxed_lines>> /\ pass = 1
    BY DEF Rerun, StartPass2, Restart, AtEnd
  <2>3. HereSpot' = TopSpot
    BY DEF Rerun, StartPass2, Restart, HereSpot, TopSpot
  <2>4. QED
    BY <2>1, <2>2, <2>3
<1>2. iter' > 0 \/ jcc_relaxed' => relaxed_lines' # {}
  <2>1. iter > 0 \/ jcc_relaxed => relaxed_lines # {}
    BY DEF RunsInv
  <2>2. CASE Rerun
    BY <1>1, <2>1, <2>2 DEF Rerun
  <2>3. CASE StartPass2
    BY <1>1, <2>1, <2>3 DEF StartPass2
  <2>4. QED
    BY <2>2, <2>3
<1>3. ~First'
  <2>1. iter \in Nat
    BY BoundsAssumption DEF TypeOK
  <2>2. CASE Rerun
    BY <2>1, <2>2 DEF Rerun, First
  <2>3. CASE StartPass2
    BY <2>3 DEF StartPass2, First
  <2>4. QED
    BY <2>2, <2>3
<1>4. ASSUME UniqueLabels
      PROVE  \E cur \in Trace' : CurRun(cur)' /\ \E prev \in Trace' : RunBefore(cur, prev)'
  <2>1. PICK cur \in Trace : CurRun(cur) /\ (First \/ \E prev \in Trace : RunBefore(cur, prev))
    BY <1>4 DEF RunsInv
  <2>2. cur \in Trace' /\ Defs' = Defs /\ Fixed' = Fixed /\ Defs \subseteq 1 .. Len(prog)
    BY <1>1 DEF Trace, Defs, Lines, Fixed
  <2>3. \A k : Size(k)' = Size(k)
    BY <1>1 DEF Size, lookup_label, find_label
  <2>4. \A k \in 1 .. Len(prog) : ~(k < line') /\ k < line
    BY <1>1
  <2>5. cur[1] = TopSpot /\ 1 \in 1 .. Len(prog) + 1
    BY <1>1, <2>1 DEF CurRun, Ran
  <2>6. CurRun(cur)'
    BY <1>1, <2>2, <2>4, <2>5 DEF CurRun, Ran, Exact
  <2>7. Ran(cur, Len(prog) + 1)'
    BY <1>1, <2>1, <2>2, <2>3, <2>5 DEF CurRun, Ran
  <2>8. \A k \in 1 .. line' : Below(cur[k], cur[k])
    <3>1. cur[1] \in Spot /\ \A k \in 1 .. line' : k = 1
      BY <1>1, <2>5 DEF Trace
    <3>2. Below(cur[1], cur[1])
      <4>1. \A x \in Saved : x.out_pos <= x.out_pos
        BY DEF Saved
      <4>2. \A k \in 1 .. Len(cur[1].org_stack) : cur[1].org_stack[k] \in Saved
        BY <3>1 DEF Spot
      <4>3. cur[1].out_pos <= cur[1].out_pos
        BY <3>1 DEF Spot
      <4>4. QED
        BY <4>1, <4>2, <4>3 DEF Below, BelowSaved
    <3>3. QED
      BY <3>1, <3>2
  <2>9. \A j \in Defs : Defined(j, cur)'
    BY <1>1, <2>1, <2>2, <2>4 DEF CurRun, Defined, DefOf
  <2>10. Fixed => Exact(cur, Len(prog) + 1)'
    BY <1>1, <2>1, <2>3 DEF CurRun, Exact
  <2>11. ASSUME Settled', NEW k \in Lines({"jcc", "jmp"}) \ relaxed_lines, pass' = 2
         PROVE  StaysShort(k, cur[k])'
    <3>1. StartPass2
      BY <1>1, <2>11 DEF Rerun
    <3>2. Settled
      BY <1>1, <2>11, <3>1 DEF StartPass2, Settled, UniqueLabels, Lines
    <3>3. ~First
      BY <3>2 DEF Settled, First
    <3>4. PICK prev \in Trace : RunBefore(cur, prev)
      BY <2>1, <3>3
    <3>5. k \in 1 .. Len(prog) /\ k < line /\ k \in 1 .. line
      BY <1>1 DEF Lines
    <3>6. StaysShort(k, prev[k]) /\ cur[k] = prev[k]
      BY <3>2, <3>4, <3>5 DEF RunBefore
    <3>7. QED
      BY <1>1, <3>6 DEF StaysShort, lookup_label, find_label
  <2>12. \A k \in Lines({"jcc", "jmp"}) \ relaxed_lines : ~(k < line')
    BY <1>1 DEF Lines
  <2>13. Lines({"jcc", "jmp"})' = Lines({"jcc", "jmp"})
    BY <1>1 DEF Lines
  <2>14. RunBefore(cur, cur)'
    BY <1>1, <2>2, <2>7, <2>8, <2>9, <2>10, <2>11, <2>12, <2>13 DEF RunBefore
  <2>15. QED
    BY <2>2, <2>6, <2>14
<1>5. UniqueLabels' <=> UniqueLabels
  BY <1>1 DEF UniqueLabels, Lines
<1>6. QED
  BY <1>2, <1>3, <1>4, <1>5 DEF RunsInv

\* Every step extends the current run, or makes it the run before the next.
LEMMA RunsNext == TypeOK /\ TypeOK' /\ RunsInv /\ [Next]_vars => RunsInv'
<1> SUFFICES ASSUME TypeOK, TypeOK', RunsInv, [Next]_vars PROVE RunsInv'
  OBVIOUS
<1>1. CASE LineStep
  <2>1. /\ UNCHANGED <<prog, pass, iter>> /\ line \in 1 .. Len(prog) /\ line' = line + 1
    BY <1>1, StepBasics, LengthType
  <2>2. /\ First' = First /\ Defs' = Defs /\ UniqueLabels' = UniqueLabels
        /\ Defs \subseteq 1 .. Len(prog)
    BY <2>1 DEF First, Defs, UniqueLabels, Lines
  <2>3. iter' > 0 \/ jcc_relaxed' => relaxed_lines' # {}
    <3>1. iter > 0 \/ jcc_relaxed => relaxed_lines # {}
      BY DEF RunsInv
    <3>2. relaxed_lines \subseteq relaxed_lines' /\ (jcc_relaxed' => jcc_relaxed \/ relaxed_lines' # relaxed_lines)
      BY <1>1, StepAdvances
    <3>3. QED
      BY <2>1, <3>1, <3>2
  <2>4. ASSUME UniqueLabels
        PROVE  /\ First => \A j \in Defs : j >= line' => prog[j].lab \notin DOMAIN labels'
               /\ \E cur \in Trace' : CurRun(cur)' /\ (First \/ \E prev \in Trace' : RunBefore(cur, prev)')
    <3>1. PICK cur \in Trace : CurRun(cur) /\ (First \/ \E prev \in Trace : RunBefore(cur, prev))
      BY <2>4 DEF RunsInv
    <3>2. PICK new : new = [cur EXCEPT ![line + 1] = HereSpot']
      OBVIOUS
    <3>3. new \in Trace' /\ CurRun(new)'
      BY <1>1, <2>4, <3>1, <3>2, StepCurRun
    <3>4. First \/ \E prev \in Trace' : RunBefore(new, prev)'
      <4>1. CASE ~First
        <5>1. PICK prev \in Trace : RunBefore(cur, prev)
          BY <3>1, <4>1
        <5>2. prev \in Trace' /\ RunBefore(new, prev)'
          BY <1>1, <2>4, <3>1, <3>2, <5>1, StepRunBefore
        <5>3. QED
          BY <5>2
      <4>2. QED
        BY <4>1
    <3>5. First => \A j \in Defs : j >= line' => prog[j].lab \notin DOMAIN labels'
      <4>1. First => \A j \in Defs : j >= line => prog[j].lab \notin DOMAIN labels
        BY <2>4 DEF RunsInv
      <4>2. \A j \in Defs : j >= line' => j >= line /\ j # line
        BY <2>1, <2>2
      <4>3. \A j \in Defs : j # line => (prog[j].lab \in DOMAIN labels' <=> prog[j].lab \in DOMAIN labels)
        BY <1>1, <2>4, <3>1, StepLabels
      <4>4. QED
        BY <4>1, <4>2, <4>3
    <3>6. QED
      BY <3>3, <3>4, <3>5
  <2>5. QED
    BY <2>1, <2>2, <2>3, <2>4 DEF RunsInv
<1>2. CASE Rerun \/ StartPass2
  BY <1>2, RestartRuns
<1>3. CASE Overflow \/ Finish \/ UNCHANGED vars
  <2>1. UNCHANGED <<prog, pass, iter, line, out_pos, org_base, seg_base, org_stack, labels,
                    relaxed_lines, jcc_relaxed>>
    BY <1>3 DEF Overflow, Finish, control, place, vars
  <2>2. /\ First' = First /\ Defs' = Defs /\ UniqueLabels' = UniqueLabels /\ Trace' = Trace
        /\ HereSpot' = HereSpot /\ Fixed' = Fixed /\ Settled' = Settled
        /\ Lines({"jcc", "jmp"})' = Lines({"jcc", "jmp"})
    BY <2>1 DEF First, Defs, UniqueLabels, Lines, Trace, HereSpot, Fixed, Settled
  <2>3. \A k : Size(k)' = Size(k)
    BY <2>1 DEF Size, lookup_label, find_label
  <2>4. \A cur : CurRun(cur)' <=> CurRun(cur)
    BY <2>1, <2>2, <2>3 DEF CurRun, Ran, Exact, Defined, DefOf, Trace
  <2>5. \A cur, prev : RunBefore(cur, prev)' <=> RunBefore(cur, prev)
    BY <2>1, <2>2, <2>3 DEF RunBefore, Ran, Exact, Defined, DefOf, StaysShort, Trace, lookup_label, find_label
  <2>6. QED
    BY <2>1, <2>2, <2>4, <2>5 DEF RunsInv
<1>4. QED
  BY <1>1, <1>2, <1>3 DEF Next, Done, LineStep

-----------------------------------------------------------------------------
(* What follows from it. *)

\* A step of the assembler moves no label down.
LEMMA LabelsUp == TypeOK /\ RunsInv /\ [Next]_vars =>
    (UniqueLabels => \A l \in DOMAIN labels : labels'[l].value >= labels[l].value)
<1> SUFFICES ASSUME TypeOK, RunsInv, [Next]_vars, UniqueLabels, NEW l \in DOMAIN labels
             PROVE  labels'[l].value >= labels[l].value
  OBVIOUS
<1>1. labels[l].value \in Nat
  BY DEF TypeOK
<1>2. CASE LineStep
  <2>1. PICK x, y : x = labels[l].value /\ y = labels'[l].value /\ x <= y
    BY <1>2, StepUp DEF Up
  <2>2. QED
    BY <2>1
<1>3. CASE UNCHANGED labels
  BY <1>1, <1>3
<1>4. QED
  BY <1>2, <1>3 DEF Next, LineStep, Overflow, Rerun, StartPass2, Finish, Done, vars

\* Runs only push labels to higher addresses, so the re-runs cannot oscillate,
\* for sources of any length with every label defined once.
THEOREM LabelsOnlyMoveUpCorrect == Spec => LabelsOnlyMoveUp
BY TypeInit, TypeNext, RunsInit, RunsNext, LabelsUp, PTL DEF Spec, LabelsOnlyMoveUp

\* In a settled run every branch that is short reaches its label.
LEMMA SettledShort ==
    ASSUME TypeOK, RunsInv, LineStep, Settled, pass = 2
    PROVE  ~(Cur.op \in {"jcc", "jmp"} /\ Relaxes)
<1>1. line \in 1 .. Len(prog) /\ Cur = prog[line] /\ line \in 1 .. line
  BY StepBasics, LengthType DEF Cur
<1>2. UniqueLabels /\ ~First
  BY DEF Settled, First
<1>3. PICK cur \in Trace : CurRun(cur) /\ \E prev \in Trace : RunBefore(cur, prev)
  BY <1>2 DEF RunsInv
<1>4. PICK prev \in Trace : RunBefore(cur, prev)
  BY <1>3
<1>5. cur[line] = HereSpot /\ cur[line] = prev[line]
  BY <1>1, <1>3, <1>4 DEF CurRun, RunBefore
<1>6. ASSUME Cur.op \in {"jcc", "jmp"}, Relaxes
      PROVE  FALSE
  <2>1. line \in Lines({"jcc", "jmp"}) \ relaxed_lines
    BY <1>1, <1>6 DEF Lines, Relaxes
  <2>2. StaysShort(line, prev[line])
    BY <1>4, <2>1 DEF RunBefore
  <2>3. prev[line].org_base = org_base /\ prev[line].out_pos = out_pos
    BY <1>5 DEF HereSpot
  <2>4. QED
    BY <1>1, <1>6, <2>2, <2>3 DEF StaysShort, Relaxes, Rel8, Here, find_label
<1>7. QED
  BY <1>6

\* Pass 2 relaxes no jump, one step at a time.
LEMMA LateNext == TypeOK /\ RunsInv /\ [Next]_vars => (pass = 2 /\ Settled => ~jcc_relaxed')
<1> SUFFICES ASSUME TypeOK, RunsInv, [Next]_vars, pass = 2, Settled PROVE ~jcc_relaxed'
  OBVIOUS
<1>1. ~jcc_relaxed
  BY DEF Settled
<1>2. CASE LineStep
  BY <1>1, <1>2, SettledShort, StepAdvances
<1>3. CASE UNCHANGED jcc_relaxed
  BY <1>1, <1>3
<1>4. QED
  BY <1>2, <1>3 DEF Next, LineStep, Overflow, Rerun, StartPass2, Finish, Done, vars

\* Pass 2 lengthens no branch after a re-run of pass 1 that lengthened none.
THEOREM NoLateRelaxationCorrect == Spec => NoLateRelaxation
BY TypeInit, TypeNext, RunsInit, RunsNext, LateNext, PTL DEF Spec, NoLateRelaxation

\* The processor adds what was subtracted.
LEMMA DisplacementsAdd ==
    ASSUME NEW a \in Nat, NEW b \in Nat
    PROVE  /\ Word(a + Word(b - a)) = Word(b)
           /\ InRange(b - a) => Word(a + Signed8(b - a)) = Word(b)
<1>1. Word(a + Word(b - a)) = Word(b)
  BY DEF Word
<1>2. InRange(b - a) => Signed8(b - a) = b - a
  BY DEF InRange, Signed8
<1>3. a + (b - a) = b
  OBVIOUS
<1>4. QED
  BY <1>1, <1>2, <1>3

\* What pass 2 has encoded so far is right, unless it found an error.
Good(r) ==
    r.line \in 1 .. Len(prog) /\ prog[r.line].lab \in DOMAIN labels /\ Resolved(r)
RefsInv ==
    /\ pass = 1 => refs = {}
    /\ status = "ok" => errors = 0 /\ pass = 2
    /\ pass = 2 /\ Settled /\ errors = 0 => \A r \in refs : Good(r)

\* What a settled pass 2 encodes for the line at hand.
LEMMA EncodedRight ==
    ASSUME TypeOK, RunsInv, Settled, pass = 2, errors' = 0, Branch \/ Loop \/ Reference
    PROVE  /\ Cur.lab \in DOMAIN labels
           /\ Encoded = Word(labels[Cur.lab].value)
           /\ Cur.op = "far" => EncodedSegment = Word(labels[Cur.lab].segment)
<1>1. LineStep
  BY DEF LineStep
<1>2. line \in 1 .. Len(prog) /\ Cur = prog[line]
  BY <1>1, StepBasics, LengthType DEF Cur
<1>3. errors \in Nat /\ Here \in Nat /\ out_pos \in Nat
  BY DEF TypeOK, Here
<1>4. find_label(Cur.lab) /\ (Cur.op = "loop" => InRange(Rel8))
  BY <1>3 DEF Branch, Loop, Reference, At, Undefined
<1>5. PICK L \in Nat, h \in Nat : L = lookup_label(Cur.lab) /\ L = labels[Cur.lab].value /\ h = Here
  BY <1>3, <1>4, LabelNat DEF lookup_label
<1>6. \A n \in Nat : Near(n) = Word(L)
  <2> SUFFICES ASSUME NEW n \in Nat PROVE Near(n) = Word(L)
    OBVIOUS
  <2>1. PICK m \in Nat : m = h + n
    OBVIOUS
  <2>2. Word(m + Word(L - m)) = Word(L)
    BY DisplacementsAdd
  <2>3. QED
    BY <1>5, <2>1, <2>2 DEF Near
<1>7. InRange(Rel8) => Short(Rel8) = Word(L)
  <2>1. PICK m \in Nat : m = h + 2
    OBVIOUS
  <2>2. InRange(L - m) => Word(m + Signed8(L - m)) = Word(L)
    BY DisplacementsAdd
  <2>3. QED
    BY <1>5, <2>1, <2>2 DEF Rel8, Short
<1>8. CASE Cur.op \in {"jcc", "jmp"}
  <2>1. ~Relaxes
    BY <1>1, <1>8, SettledShort
  <2>2. CASE Long
    <3>1. BranchLength \in Nat
      BY DEF BranchLength
    <3>2. QED
      BY <1>4, <1>5, <1>6, <1>8, <2>2, <3>1 DEF Encoded, find_label
  <2>3. CASE ~Long
    <3>1. InRange(Rel8)
      BY <1>4, <2>1, <2>3 DEF Long, Relaxes
    <3>2. QED
      BY <1>4, <1>5, <1>7, <1>8, <2>3, <3>1 DEF Encoded, find_label
  <2>4. QED
    BY <2>2, <2>3
<1>9. CASE Cur.op = "loop"
  BY <1>4, <1>5, <1>7, <1>9 DEF Encoded, find_label
<1>10. CASE Cur.op = "call"
  BY <1>4, <1>5, <1>6, <1>10 DEF Encoded, find_label
<1>11. CASE Cur.op = "far"
  BY <1>4, <1>5, <1>11 DEF Encoded, EncodedSegment, find_label
<1>12. Cur.op \notin {"mem", "alu"}
  BY <1>2 DEF Settled, Lines
<1>13. QED
  BY <1>8, <1>9, <1>10, <1>11, <1>12 DEF Branch, Loop, Reference, At

\* Every step keeps what is known of the references written.
LEMMA RefsNext == TypeOK /\ RunsInv /\ RefsInv /\ [Next]_vars => RefsInv'
<1> SUFFICES ASSUME TypeOK, RunsInv, RefsInv, [Next]_vars PROVE RefsInv'
  OBVIOUS
<1>1. CASE LineStep
  <2>1. UNCHANGED <<prog, pass, iter, status>> /\ status = "run" /\ line \in 1 .. Len(prog) /\ Cur = prog[line]
    BY <1>1, StepBasics, LengthType DEF Cur
  <2>2. CASE pass = 1
    <3>1. refs' = refs
      BY <1>1, <2>2 DEF LineStep, DefineLabel, Bytes, Branch, Loop, Reference, Org, EndOrg, Seg, Record
    <3>2. QED
      BY <2>1, <2>2, <3>1 DEF RefsInv
  <2>3. ASSUME pass = 2, Settled', errors' = 0, NEW r \in refs'
        PROVE  Good(r)'
    <3>1. /\ Settled
          /\ \A l : /\ l \in DOMAIN labels' <=> l \in DOMAIN labels
                    /\ l \in DOMAIN labels => labels'[l] = labels[l]
      BY <1>1, <2>3, SettledStep
    <3>2. errors = 0
      <4>1. errors \in Nat
        BY DEF TypeOK
      <4>2. errors' = errors \/ errors' = errors + 1 \/ errors' = errors + 0 + 0
            \/ errors' = errors + 1 + 0 \/ errors' = errors + 0 + 1 \/ errors' = errors + 1 + 1
            \/ errors' = errors + 0
        BY <1>1 DEF LineStep, DefineLabel, Bytes, Branch, Loop, Reference, Org, EndOrg, Seg, Undefined
      <4>3. QED
        BY <2>3, <4>1, <4>2
    <3>3. Good(r)
      <4>1. CASE r \in refs
        BY <2>3, <3>1, <3>2, <4>1 DEF RefsInv
      <4>2. CASE r \notin refs
        <5>1. Branch \/ Loop \/ Reference
          BY <1>1, <2>3, <4>2 DEF LineStep, DefineLabel, Bytes, Org, EndOrg, Seg
        <5>2. r = [line |-> line, at |-> Here, value |-> Encoded, segment |-> EncodedSegment]
          BY <2>3, <4>2, <5>1 DEF Branch, Loop, Reference, Record
        <5>3. /\ Cur.lab \in DOMAIN labels /\ Encoded = Word(labels[Cur.lab].value)
              /\ Cur.op = "far" => EncodedSegment = Word(labels[Cur.lab].segment)
          BY <2>3, <3>1, <5>1, EncodedRight
        <5>4. r.line = line /\ r.value = Encoded /\ r.segment = EncodedSegment
          BY <5>2
        <5>5. QED
          BY <2>1, <5>3, <5>4 DEF Good, Resolved
      <4>3. QED
        BY <4>1, <4>2
    <3>4. QED
      BY <2>1, <3>1, <3>3 DEF Good, Resolved
  <2>4. QED
    BY <2>1, <2>2, <2>3 DEF RefsInv, TypeOK
<1>2. CASE Rerun \/ StartPass2
  <2>1. pass = 1 /\ UNCHANGED <<refs, status>> /\ status = "run"
    BY <1>2 DEF Rerun, StartPass2, AtEnd
  <2>2. QED
    BY <2>1 DEF RefsInv
<1>3. CASE Overflow \/ Finish
  <2>1. UNCHANGED <<prog, pass, iter, jcc_relaxed, labels, errors, refs>> /\ errors \in Nat
    BY <1>3 DEF Overflow, Finish, control, TypeOK
  <2>2. status' = "ok" => errors = 0 /\ pass = 2
    BY <1>3, <2>1 DEF Overflow, Finish
  <2>3. (Settled' <=> Settled) /\ \A r : Good(r)' <=> Good(r)
    BY <2>1 DEF Settled, UniqueLabels, Lines, Good, Resolved
  <2>4. QED
    BY <2>1, <2>2, <2>3 DEF RefsInv
<1>4. CASE UNCHANGED vars
  BY <1>4 DEF vars, RefsInv, Settled, UniqueLabels, Lines, Good, Resolved
<1>5. QED
  BY <1>1, <1>2, <1>3, <1>4 DEF Next, Done, LineStep

\* Once pass 1 settled, every branch, call, loop and far transfer in the output goes
\* to the address its label has in the output, for sources of any length.
THEOREM SettledResolvesCorrect == Spec => []SettledResolves
<1>1. Init => RefsInv
  BY DEF Init, RefsInv
<1>2. RefsInv => SettledResolves
  BY DEF RefsInv, SettledResolves, Good
<1>3. QED
  BY <1>1, <1>2, TypeInit, TypeNext, RunsInit, RunsNext, RefsNext, PTL DEF Spec
=============================================================================
