-------------------------------- MODULE Asm --------------------------------
(***************************************************************************)
(* The passes of the assembler (asm.c): pass 1 is run to give labels their *)
(* addresses and re-run, at most MAX_RERUNS times, while a run lengthens a *)
(* branch; pass 2 emits code.  Labels keep their values from one run to    *)
(* the next, so a reference to a label further down uses the address the   *)
(* previous run gave it, or 0 in the first run.                            *)
(*                                                                         *)
(* The source is a sequence of lines, one label, directive or instruction  *)
(* each.  Of an instruction only its length and the label it refers to     *)
(* are modelled; what it puts into the output for that label is recorded   *)
(* in refs.                                                                *)
(***************************************************************************)
EXTENDS Integers, FiniteSets, Sequences

CONSTANTS Label,        \* label names
          Programs,     \* the sources the assembler may be given
          MAX_RERUNS,   \* re-runs of pass 1 that main() allows
          MAX_OUTPUT    \* size of the output image

ASSUME BoundsAssumption == MAX_RERUNS \in Nat /\ MAX_OUTPUT \in Nat \ {0}

(***************************************************************************)
(* A line.  n is the value of an equ, org or seg, or a length in bytes:    *)
(*   label, equ      definitions ("equ" gives the label the value n)       *)
(*   bytes           db, dw and instructions whose length is fixed         *)
(*   jcc, jmp        relaxed branches                                      *)
(*   loop, call, far loop/jcxz, call near, jmp/call far                    *)
(*   mem             instruction with a [reg+label] operand                *)
(*   alu             word ALU instruction with a label as immediate        *)
(*   org, endorg, seg                                                      *)
(***************************************************************************)
Ops == {"label", "equ", "bytes", "jcc", "jmp", "loop", "call", "far", "mem",
        "alu", "org", "endorg", "seg"}
Line == [op : Ops, lab : Label, n : Nat]

ASSUME ProgramsAssumption == \A p \in Programs : p \in Seq(Line)

VARIABLES
    prog,           \* the source
    status,         \* "run", "fatal", "failed" (errors) or "ok"
    pass,           \* 1 or 2
    iter,           \* re-runs of pass 1 so far
    line,           \* current_line
    out_pos, org_base, seg_base, org_stack,
    labels,         \* the defined labels: value and segment of each
    relaxed_lines,  \* branches that use their long form
    jcc_relaxed,    \* this run relaxed a branch
    errors,
    refs            \* pass 2: what each reference to a label was encoded as

vars == <<prog, status, pass, iter, line, out_pos, org_base, seg_base,
          org_stack, labels, relaxed_lines, jcc_relaxed, errors, refs>>
place == <<org_base, seg_base, org_stack>>
control == <<prog, pass, iter>>

Here == org_base + out_pos
Cur  == prog[line]

find_label(l) == l \in DOMAIN labels

\* An undefined label counts as 0; pass 2 reports it.
lookup_label(l) == IF find_label(l) THEN labels[l].value ELSE 0
Undefined(l) == IF pass = 2 /\ ~find_label(l) THEN 1 ELSE 0

-----------------------------------------------------------------------------
(* Encodings. *)

Signed8(x)  == ((x + 128) % 256) - 128
Word(x)     == x % 65536

\* Faulty variant: one byte too far.
InRange_wide(rel) == -128 <= rel /\ rel <= 128

\* The reach of a one-byte displacement.
InRange(rel) == -128 <= rel /\ rel <= 127

\* The displacement of the short form of a branch on this line.
Rel8 == lookup_label(Cur.lab) - (Here + 2)

\* A branch that was relaxed before stays long; a conditional branch to a
\* label not seen yet is taken to be short.
Relaxes ==
    /\ line \notin relaxed_lines
    /\ ~InRange(Rel8)
    /\ Cur.op = "jcc" => find_label(Cur.lab)

Long == line \in relaxed_lines \/ Relaxes

\* Faulty variants: a branch gets its long form only in the run after the one
\* that relaxed it; a relaxed jmp becomes short again when it can.
BranchLength_next_run ==
    IF line \notin relaxed_lines THEN 2 ELSE IF Cur.op = "jmp" THEN 3 ELSE 5
BranchLength_back_to_short ==
    IF ~Long \/ (Cur.op = "jmp" /\ InRange(Rel8)) THEN 2
    ELSE IF Cur.op = "jmp" THEN 3 ELSE 5

\* Jcc becomes an inverted Jcc over a near jump.
BranchLength == IF ~Long THEN 2 ELSE IF Cur.op = "jmp" THEN 3 ELSE 5

\* Displacements and immediates are encoded in as few bytes as they need.
DispLength(disp) == IF disp = 0 THEN 0 ELSE IF InRange(disp) THEN 1 ELSE 2
ImmLength(imm)   == IF InRange(imm) THEN 1 ELSE 2

\* Bytes the line emits.
Length ==
    LET target == lookup_label(Cur.lab)
    IN  CASE Cur.op \in {"jcc", "jmp"} -> BranchLength
          [] Cur.op = "loop"  -> 2
          [] Cur.op = "call"  -> 3
          [] Cur.op = "far"   -> 5
          [] Cur.op = "mem"   -> 2 + DispLength(target)
          [] Cur.op = "alu"   -> 2 + ImmLength(target)
          [] Cur.op = "bytes" -> Cur.n
          [] OTHER            -> 0

\* The address the processor forms from the encoded line.
Near(length) == Word(Here + length + Word(lookup_label(Cur.lab) - (Here + length)))
Short(rel) == Word(Here + 2 + Signed8(rel))

Encoded ==
    CASE Cur.op \in {"jcc", "jmp"} /\ Long -> Near(BranchLength)
      [] Cur.op \in {"jcc", "jmp"} /\ ~Long -> Short(Rel8)
      [] Cur.op = "loop" -> Short(Rel8)
      [] Cur.op = "call" -> Near(3)
      [] OTHER -> Word(lookup_label(Cur.lab))

EncodedSegment ==
    IF Cur.op = "far" /\ find_label(Cur.lab)
    THEN Word(labels[Cur.lab].segment) ELSE 0

-----------------------------------------------------------------------------
(* process_line(). *)

At(ops) == status = "run" /\ line <= Len(prog) /\ Cur.op \in ops

NextLine == line' = line + 1

\* Pass 2 writes the bytes; running off the image is fatal.
Emits == pass = 1 \/ Length = 0 \/ Here + Length <= MAX_OUTPUT
Emit == Emits /\ out_pos' = out_pos + Length

Overflow ==
    /\ status = "run" /\ line <= Len(prog) /\ ~Emits
    /\ status' = "fatal"
    /\ UNCHANGED <<control, line, out_pos, place, labels, relaxed_lines,
                   jcc_relaxed, errors, refs>>

\* add_label_typed(): a second definition is an error only in a run of pass 1
\* that starts from no relaxed branch and has not relaxed one yet.
DefineLabel ==
    /\ At({"label", "equ"})
    /\ IF find_label(Cur.lab) /\ pass = 1 /\ relaxed_lines = {}
       THEN errors' = errors + 1 /\ UNCHANGED labels
       ELSE /\ labels' =
                 [l \in DOMAIN labels \cup {Cur.lab} |->
                    IF l # Cur.lab THEN labels[l]
                    ELSE [value |-> IF Cur.op = "equ" THEN Cur.n ELSE Here,
                          segment |-> seg_base]]
            /\ UNCHANGED errors
    /\ NextLine
    /\ UNCHANGED <<control, status, out_pos, place, relaxed_lines,
                   jcc_relaxed, refs>>

Bytes ==
    /\ At({"bytes"}) /\ Emit /\ NextLine
    /\ UNCHANGED <<control, status, place, labels, relaxed_lines,
                   jcc_relaxed, errors, refs>>

Record ==
    refs' = IF pass = 1 THEN refs
            ELSE refs \cup {[line |-> line, at |-> Here, value |-> Encoded,
                             segment |-> EncodedSegment]}

\* asm_jcc(), asm_jmp_call() for a near jmp.
Branch ==
    /\ At({"jcc", "jmp"}) /\ Emit /\ Record /\ NextLine
    /\ relaxed_lines' = relaxed_lines \cup (IF Relaxes THEN {line} ELSE {})
    /\ jcc_relaxed' = (jcc_relaxed \/ Relaxes)
    /\ errors' = errors + Undefined(Cur.lab)
    /\ UNCHANGED <<control, status, place, labels>>

\* asm_loop(): there is no long form.
Loop ==
    /\ At({"loop"}) /\ Emit /\ Record /\ NextLine
    /\ errors' = errors + Undefined(Cur.lab) + (IF InRange(Rel8) THEN 0 ELSE 1)
    /\ UNCHANGED <<control, status, place, labels, relaxed_lines, jcc_relaxed>>

\* Calls, far transfers, label displacements and label immediates.
Reference ==
    /\ At({"call", "far", "mem", "alu"}) /\ Emit /\ Record /\ NextLine
    /\ errors' = errors + Undefined(Cur.lab)
    /\ UNCHANGED <<control, status, place, labels, relaxed_lines, jcc_relaxed>>

Org ==
    /\ At({"org"})
    /\ org_stack' = Append(org_stack,
           [org_base |-> org_base, out_pos |-> out_pos, seg_base |-> seg_base])
    /\ org_base' = Cur.n /\ out_pos' = 0
    /\ NextLine
    /\ UNCHANGED <<control, status, seg_base, labels, relaxed_lines,
                   jcc_relaxed, errors, refs>>

\* endorg resumes where the matching org was; alone it does nothing.
EndOrg ==
    /\ At({"endorg"})
    /\ IF org_stack = << >>
       THEN UNCHANGED <<out_pos, place>>
       ELSE LET saved == org_stack[Len(org_stack)]
            IN  /\ org_base' = saved.org_base
                /\ out_pos' = saved.out_pos
                /\ seg_base' = saved.seg_base
                /\ org_stack' = SubSeq(org_stack, 1, Len(org_stack) - 1)
    /\ NextLine
    /\ UNCHANGED <<control, status, labels, relaxed_lines, jcc_relaxed,
                   errors, refs>>

Seg ==
    /\ At({"seg"})
    /\ seg_base' = Cur.n
    /\ NextLine
    /\ UNCHANGED <<control, status, out_pos, org_base, org_stack, labels,
                   relaxed_lines, jcc_relaxed, errors, refs>>

-----------------------------------------------------------------------------
(* main(). *)

Start ==
    /\ line = 1 /\ out_pos = 0
    /\ org_base = 0 /\ seg_base = 0 /\ org_stack = << >>

Init ==
    /\ prog \in Programs
    /\ status = "run" /\ pass = 1 /\ iter = 0
    /\ Start
    /\ labels = << >> /\ relaxed_lines = {} /\ jcc_relaxed = FALSE
    /\ errors = 0 /\ refs = {}

\* Every run starts at the top of the source, at address 0.
Restart ==
    /\ line' = 1 /\ out_pos' = 0
    /\ org_base' = 0 /\ seg_base' = 0 /\ org_stack' = << >>

AtEnd == status = "run" /\ line > Len(prog)

\* Labels and relaxed branches survive into the re-run, errors do not.
Rerun ==
    /\ AtEnd /\ pass = 1 /\ jcc_relaxed /\ iter < MAX_RERUNS
    /\ Restart
    /\ iter' = iter + 1
    /\ jcc_relaxed' = FALSE /\ errors' = 0
    /\ UNCHANGED <<prog, status, pass, labels, relaxed_lines, refs>>

StartPass2 ==
    /\ AtEnd /\ pass = 1 /\ ~(jcc_relaxed /\ iter < MAX_RERUNS)
    /\ Restart
    /\ pass' = 2
    /\ UNCHANGED <<prog, status, iter, labels, relaxed_lines, jcc_relaxed,
                   errors, refs>>

\* The files are written only when no error was counted.
Finish ==
    /\ AtEnd /\ pass = 2
    /\ status' = IF errors > 0 THEN "failed" ELSE "ok"
    /\ UNCHANGED <<control, line, out_pos, place, labels, relaxed_lines,
                   jcc_relaxed, errors, refs>>

Done == status # "run" /\ UNCHANGED vars

Next ==
    \/ DefineLabel \/ Bytes \/ Branch \/ Loop \/ Reference
    \/ Org \/ EndOrg \/ Seg \/ Overflow
    \/ Rerun \/ StartPass2 \/ Finish
    \/ Done

Spec == Init /\ [][Next]_vars

-----------------------------------------------------------------------------
(* Properties. *)

\* The assembler's globals are well formed, and the org stack never holds
\* more than the org lines of the current run (org_stack_vec).
TypeOK ==
    /\ prog \in Seq(Line)
    /\ status \in {"run", "fatal", "failed", "ok"}
    /\ pass \in {1, 2} /\ iter \in 0 .. MAX_RERUNS
    /\ line \in 1 .. Len(prog) + 1
    /\ out_pos \in Nat /\ org_base \in Nat /\ seg_base \in Nat
    /\ org_stack \in Seq([org_base : Nat, out_pos : Nat, seg_base : Nat])
    /\ Len(org_stack) <=
          Cardinality({k \in 1 .. line - 1 : prog[k].op = "org"})
    /\ DOMAIN labels \subseteq Label
    /\ \A l \in DOMAIN labels : labels[l] \in [value : Nat, segment : Nat]
    /\ relaxed_lines \subseteq 1 .. Len(prog)
    /\ jcc_relaxed \in BOOLEAN /\ errors \in Nat

Lines(ops) == {k \in 1 .. Len(prog) : prog[k].op \in ops}
UniqueLabels ==
    \A j, k \in Lines({"label", "equ"}) : prog[j].lab = prog[k].lab => j = k

\* A re-run of pass 1 that relaxed nothing has fixed every length.
Settled == /\ iter > 0 /\ ~jcc_relaxed
           /\ UniqueLabels /\ Lines({"mem", "alu"}) = {}

Resolved(r) ==
    /\ r.value = Word(labels[prog[r.line].lab].value)
    /\ prog[r.line].op = "far" =>
          r.segment = Word(labels[prog[r.line].lab].segment)

\* Once pass 1 settled, what pass 2 encodes for every branch, call, loop and
\* far transfer is the address its label really has in the output, although
\* forward references use the addresses of the run before.
SettledResolves ==
    status = "ok" /\ Settled => \A r \in refs : Resolved(r)

\* Pass 2 lengthens no branch after a re-run of pass 1 that lengthened none:
\* main() may stop re-running there (asm.c, "if (!jcc_relaxed) break").
NoLateRelaxation ==
    [][pass = 2 /\ Settled => ~jcc_relaxed']_vars

\* Runs only push labels to higher addresses (relaxed_lines never shrinks and
\* a relaxed branch stays long): the re-runs cannot oscillate.
LabelsOnlyMoveUp ==
    [][UniqueLabels =>
         \A l \in DOMAIN labels : labels'[l].value >= labels[l].value]_vars

\* "collect labels and sizes" and "if any are out of range, mark them, re-run
\* to get correct sizes" (asm.c, Pass 1): every reference in the output is to
\* the address its label has in the output.
ReferencesResolve ==
    status = "ok" => \A r \in refs : Resolved(r)
=============================================================================
