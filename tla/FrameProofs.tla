---------------------------- MODULE FrameProofs ----------------------------
(***************************************************************************)
(* Proofs about the moves the binder inserts at calls, entries and exits.  *)
(***************************************************************************)
EXTENDS Frame, ProofFacts

-----------------------------------------------------------------------------
(* Registers. *)

\* A byte register is one half of a word register.
LEMMA ByteRegisters ==
    \A r \in ByteRegs :
        /\ preg_alias_parent[r] \in SplitWords
        /\ r \in Halves(preg_alias_parent[r])
<1> SUFFICES ASSUME NEW r \in ByteRegs
             PROVE  /\ preg_alias_parent[r] \in SplitWords
                    /\ r \in Halves(preg_alias_parent[r])
  OBVIOUS
<1>1. \E w \in SplitWords : r \in {preg_alias_lo[w], preg_alias_hi[w]}
  BY DEF ByteRegs, SplitWords, preg_alias_lo, preg_alias_hi
<1>2. preg_alias_parent[r] =
         CHOOSE w \in SplitWords : r \in {preg_alias_lo[w], preg_alias_hi[w]}
  BY DEF preg_alias_parent
<1>3. QED
  BY <1>1, <1>2 DEF Halves

\* Which half, and of which register.
LEMMA HalfOf ==
    \A r \in ByteRegs :
        /\ PushReg(r) \in SplitWords /\ Half(r) \in {1, 2}
        /\ Half(r) = 1 => r = preg_alias_lo[PushReg(r)]
        /\ Half(r) = 2 => r = preg_alias_hi[PushReg(r)]
<1>1. \A r \in ByteRegs : /\ PushReg(r) \in SplitWords
                          /\ r \in {preg_alias_lo[PushReg(r)], preg_alias_hi[PushReg(r)]}
  BY ByteRegisters DEF PushReg, Halves
<1>2. \A r : Half(r) \in {1, 2} /\ (Half(r) = 2 <=> r \in {preg_alias_hi[w] : w \in SplitWords})
  BY DEF Half
<1>3. \A w, x \in SplitWords : preg_alias_lo[w] # preg_alias_hi[x]
  BY DEF SplitWords, preg_alias_lo, preg_alias_hi
<1>4. QED
  BY <1>1, <1>2, <1>3

\* Registers share storage when they are parts of one register, and are not its two
\* halves.
LEMMA Sharing ==
    ASSUME NEW a \in Reg, NEW b \in Reg
    PROVE  /\ pregs_alias(a, b) <=> /\ PushReg(a) = PushReg(b)
                                    /\ a \in ByteRegs /\ b \in ByteRegs => Half(a) = Half(b)
           /\ preg_write_clobbers(a, b) <=> pregs_alias(a, b)
<1>1. NONE \notin Reg /\ SplitWords \cap ByteRegs = {} /\ SplitWords \subseteq WordRegs
  BY DEF NONE, Reg, Preg, WordRegs, ByteRegs, SegRegs, SplitWords
<1>2. \A w \in SplitWords : /\ Halves(w) = {preg_alias_lo[w], preg_alias_hi[w]}
                            /\ Halves(w) \subseteq ByteRegs
  BY DEF SplitWords, Halves, preg_alias_lo, preg_alias_hi, ByteRegs
<1>3. \A w, x \in SplitWords : w # x => Halves(w) \cap Halves(x) = {}
  BY DEF SplitWords, Halves, preg_alias_lo, preg_alias_hi
<1>4. \A w \in SplitWords : \A r \in Halves(w) : PushReg(r) = w
  BY <1>2, <1>3, ByteRegisters DEF PushReg
<1>5. \A r \in ByteRegs : PushReg(r) \in SplitWords /\ r \in Halves(PushReg(r))
  BY ByteRegisters DEF PushReg
<1>6. \A r : r \notin ByteRegs => PushReg(r) = r
  BY DEF PushReg
<1>7. a \in ByteRegs /\ b \in ByteRegs /\ PushReg(a) = PushReg(b) /\ Half(a) = Half(b) => a = b
  BY HalfOf
<1>8. pregs_alias(a, b) <=> /\ PushReg(a) = PushReg(b)
                            /\ a \in ByteRegs /\ b \in ByteRegs => Half(a) = Half(b)
  BY <1>1, <1>2, <1>4, <1>5, <1>6, <1>7 DEF pregs_alias
<1>9. preg_write_clobbers(a, b) <=> pregs_alias(a, b)
  <2>1. \A r \in ByteRegs : PushReg(r) = preg_alias_parent[r]
    BY DEF PushReg
  <2>2. QED
    BY <1>1, <1>2, <1>4, <1>5, <2>1 DEF pregs_alias, preg_write_clobbers
<1>10. QED
  BY <1>8, <1>9

\* The two halves of a word register.
LEMMA HalvesOf ==
    \A w \in SplitWords :
        /\ preg_alias_lo[w] \in ByteRegs /\ preg_alias_hi[w] \in ByteRegs
        /\ PushReg(preg_alias_lo[w]) = w /\ Half(preg_alias_lo[w]) = 1
        /\ PushReg(preg_alias_hi[w]) = w /\ Half(preg_alias_hi[w]) = 2
<1>1. \A w, x \in SplitWords : w # x => Halves(w) \cap Halves(x) = {}
  BY DEF SplitWords, Halves, preg_alias_lo, preg_alias_hi
<1>2. \A w \in SplitWords : Halves(w) \subseteq ByteRegs
  BY DEF SplitWords, Halves, preg_alias_lo, preg_alias_hi, ByteRegs
<1>3. \A w \in SplitWords : \A r \in Halves(w) : r \in ByteRegs /\ PushReg(r) = w
  BY <1>1, <1>2, ByteRegisters DEF PushReg
<1>4. \A w, x \in SplitWords : preg_alias_lo[w] # preg_alias_hi[x]
  BY DEF SplitWords, preg_alias_lo, preg_alias_hi
<1>5. QED
  BY <1>3, <1>4 DEF Halves, Half

-----------------------------------------------------------------------------
(* One move. *)

RegFile(rf) == DOMAIN rf = Wide /\ \A w \in Wide : DOMAIN rf[w] = 1 .. 2

\* Byte h of register w belongs to r.
Part(r, w, h) == w = PushReg(r) /\ (r \in ByteRegs => h = Half(r))

\* A move that the planner may be given.
Movable(dst, src) == /\ dst \in Reg /\ src \in Source
                     /\ dst \in SegRegs => ~IsByte(src)

\* The kinds of places a value is moved from and to.
LEMMA Kinds ==
    /\ Reg = Wide \cup ByteRegs /\ Wide \cap ByteRegs = {}
    /\ SplitWords \subseteq WordRegs /\ SplitWords \subseteq Wide /\ "BP" \notin SplitWords
    /\ "BP" \in Wide /\ "AX" \in SplitWords /\ WordRegs \cap ByteRegs = {}
    /\ WordRegs \subseteq Wide \cup {"SP"} /\ "SP" \notin Reg /\ SegRegs \subseteq Wide
    /\ Source = Reg \cup Spilled \cup Remats
    /\ Reg \cap Spilled = {} /\ Reg \cap Remats = {} /\ Spilled \cap Remats = {}
    /\ Spilled \cap WordRegs = {} /\ Remats \cap WordRegs = {}
    /\ Wide \cap (WordRegs \cup SegRegs) = Wide
    /\ SegRegs \cap WordRegs = {}
    /\ SpilledBytes \subseteq Spilled
    /\ "AL" \in ByteRegs /\ PushReg("AL") = "AX" /\ Half("AL") = 1
    /\ "AH" \in ByteRegs /\ PushReg("AH") = "AX" /\ Half("AH") = 2
    /\ \A r \in ByteRegs : PushReg(r) \in SplitWords
    /\ \A r \in Wide : PushReg(r) = r
<1>1. "AL" = preg_alias_lo["AX"] /\ "AH" = preg_alias_hi["AX"] /\ "AX" \in SplitWords
  BY DEF preg_alias_lo, preg_alias_hi, SplitWords
<1>2. /\ "AL" \in ByteRegs /\ PushReg("AL") = "AX" /\ Half("AL") = 1
      /\ "AH" \in ByteRegs /\ PushReg("AH") = "AX" /\ Half("AH") = 2
  BY <1>1, HalvesOf
<1>3. /\ Reg = Wide \cup ByteRegs /\ Wide \cap ByteRegs = {}
      /\ SplitWords \subseteq WordRegs /\ SplitWords \subseteq Wide /\ "BP" \notin SplitWords
      /\ "BP" \in Wide /\ "AX" \in SplitWords /\ WordRegs \cap ByteRegs = {}
      /\ WordRegs \subseteq Wide \cup {"SP"} /\ "SP" \notin Reg /\ SegRegs \subseteq Wide
      /\ Wide \cap (WordRegs \cup SegRegs) = Wide /\ SegRegs \cap WordRegs = {}
  BY DEF Reg, Wide, Preg, WordRegs, ByteRegs, SegRegs, SplitWords
<1>4. Reg \subseteq Preg /\ WordRegs \subseteq Preg
  BY DEF Reg, Preg
<1>5. /\ Reg \cap Spilled = {} /\ Reg \cap Remats = {} /\ Spilled \cap Remats = {}
      /\ Spilled \cap WordRegs = {} /\ Remats \cap WordRegs = {} /\ SpilledBytes \subseteq Spilled
  BY <1>4, SourcesAssumption DEF Spilled
<1>6. \A r \in ByteRegs : PushReg(r) \in SplitWords
  BY HalfOf
<1>7. \A r \in Wide : PushReg(r) = r
  BY <1>3 DEF PushReg
<1>8. QED
  BY <1>2, <1>3, <1>5, <1>6, <1>7 DEF Source

\* A register after its half r or all of it is written.
LEMMA PutEffect ==
    ASSUME NEW rf, RegFile(rf)
    PROVE  /\ \A r \in ByteRegs : \A b :
                 /\ DOMAIN Put8(rf, r, b) = Wide
                 /\ \A w \in Wide : /\ DOMAIN Put8(rf, r, b)[w] = 1 .. 2
                                    /\ w # PushReg(r) => Put8(rf, r, b)[w] = rf[w]
                 /\ \A h \in 1 .. 2 : Put8(rf, r, b)[PushReg(r)][h] =
                                         IF h = Half(r) THEN b ELSE rf[PushReg(r)][h]
           /\ \A r \in Wide : \A x :
                 /\ DOMAIN Put16(rf, r, x) = Wide /\ Put16(rf, r, x)[r] = x
                 /\ \A w \in Wide : w # r => Put16(rf, r, x)[w] = rf[w]
<1>1. \A r \in ByteRegs : PushReg(r) \in Wide /\ Half(r) \in 1 .. 2
  BY HalfOf, Kinds
<1>2. \A r \in Wide : \A x :
                 /\ DOMAIN Put16(rf, r, x) = Wide /\ Put16(rf, r, x)[r] = x
                 /\ \A w \in Wide : w # r => Put16(rf, r, x)[w] = rf[w]
  BY DEF RegFile, Put16
<1>3. ASSUME NEW r \in ByteRegs, NEW b
      PROVE  /\ DOMAIN Put8(rf, r, b) = Wide
             /\ \A w \in Wide : /\ DOMAIN Put8(rf, r, b)[w] = 1 .. 2
                                /\ w # PushReg(r) => Put8(rf, r, b)[w] = rf[w]
             /\ \A h \in 1 .. 2 : Put8(rf, r, b)[PushReg(r)][h] =
                                     IF h = Half(r) THEN b ELSE rf[PushReg(r)][h]
  <2>1. PICK p, hf : p = PushReg(r) /\ hf = Half(r)
    OBVIOUS
  <2>2. p \in Wide /\ hf \in 1 .. 2
    BY <1>1, <2>1
  <2>3. Put8(rf, r, b) = [rf EXCEPT ![p] = [rf[p] EXCEPT ![hf] = b]]
    BY <2>1 DEF Put8
  <2>4. DOMAIN rf = Wide /\ \A w \in Wide : DOMAIN rf[w] = 1 .. 2
    BY DEF RegFile
  <2>5. PICK x : x = [rf[p] EXCEPT ![hf] = b]
    OBVIOUS
  <2>6. DOMAIN x = 1 .. 2 /\ \A h \in 1 .. 2 : x[h] = IF h = hf THEN b ELSE rf[p][h]
    BY <2>2, <2>4, <2>5
  <2>7. Put8(rf, r, b) = [rf EXCEPT ![p] = x]
    BY <2>3, <2>5
  <2>8. /\ DOMAIN Put8(rf, r, b) = Wide /\ Put8(rf, r, b)[p] = x
        /\ \A w \in Wide : w # p => Put8(rf, r, b)[w] = rf[w]
    BY <2>2, <2>4, <2>7
  <2>9. QED
    BY <2>1, <2>4, <2>6, <2>8
<1>4. QED
  BY <1>2, <1>3

MemFile == \A h \in Spilled : DOMAIN mem[h] = 1 .. 2

\* What the copy of src to dst makes of the registers rf: it changes no byte outside
\* the register that the planner says it clobbers, and dst gets the value.
Moved(rf, rg, dst, src, clobber) ==
    /\ RegFile(rg)
    /\ \A w \in Wide : w # PushReg(clobber) => rg[w] = rf[w]
    /\ \A w \in Wide, h \in 1 .. 2 : ~Part(clobber, w, h) => rg[w][h] = rf[w][h]
    /\ dst \in ByteRegs => \/ dst = "AH" /\ src \in WordRegs \ SplitWords
                           \/ rg[PushReg(dst)][Half(dst)] = Byte(rf, src)
    /\ dst \in Wide => /\ rg[dst][1] = Byte(rf, src)
                       /\ IsByte(src) \/ rg[dst][2] = Word(rf, src)[2]

\* What is read from a source that is no byte register is a word.
LEMMA WordDomain ==
    ASSUME NEW rf, RegFile(rf), MemFile, NEW s \in Source \ ByteRegs
    PROVE  /\ DOMAIN Word(rf, s) = 1 .. 2
           /\ Byte(rf, s) = Word(rf, s)[1]
<1>1. s \in Wide \/ s \in Remats \/ s \in Spilled
  BY Kinds
<1>2. DOMAIN <<Orig(s, 1), Orig(s, 2)>> = 1 .. 2 /\ DOMAIN <<Junk, Junk>> = 1 .. 2
  OBVIOUS
<1>3. DOMAIN Word(rf, s) = 1 .. 2
  BY <1>1, <1>2 DEF Word, RegFile, MemFile
<1>4. QED
  BY <1>3 DEF Byte

\* That is what every copy does.
LEMMA MoveEffect ==
    ASSUME NEW rf, RegFile(rf), MemFile, NEW dst, NEW src, Movable(dst, src),
           NEW clobber, clobber = planned_move_clobber_reg(dst, src)
    PROVE  Moved(rf, rins_mov_preg_from_vreg(rf, dst, src), dst, src, clobber)
<1> DEFINE rg == rins_mov_preg_from_vreg(rf, dst, src)
           b == Byte(rf, src)
           x == Word(rf, src)
<1>1. /\ dst \in Wide \/ dst \in ByteRegs
      /\ src \in Wide \/ src \in ByteRegs \/ src \in Remats \/ src \in Spilled
  BY Kinds DEF Movable
<1>2. src \notin ByteRegs => DOMAIN x = 1 .. 2 /\ b = x[1]
  BY WordDomain DEF Movable
<1>3. ASSUME NEW r8, dst \in ByteRegs, r8 = Put8(rf, dst, b), clobber = dst
      PROVE  Moved(rf, r8, dst, src, clobber)
  <2>1. /\ DOMAIN r8 = Wide
        /\ \A w \in Wide : /\ DOMAIN r8[w] = 1 .. 2
                           /\ w # PushReg(dst) => r8[w] = rf[w]
        /\ \A h \in 1 .. 2 : r8[PushReg(dst)][h] =
                                IF h = Half(dst) THEN b ELSE rf[PushReg(dst)][h]
    BY <1>3, PutEffect
  <2>2. dst \notin Wide /\ Half(dst) \in 1 .. 2
    BY <1>3, Kinds, HalfOf
  <2>3. RegFile(r8)
    BY <2>1 DEF RegFile
  <2>4. r8[PushReg(dst)][Half(dst)] = b
    BY <2>1, <2>2
  <2>5. \A w \in Wide, h \in 1 .. 2 : ~Part(dst, w, h) => r8[w][h] = rf[w][h]
    BY <1>3, <2>1 DEF Part
  <2>6. QED
    BY <1>3, <2>1, <2>2, <2>3, <2>4, <2>5 DEF Moved
<1>4. ASSUME dst \in Wide, src \notin ByteRegs, IsByte(src) => dst \notin SplitWords,
             rg = Put16(rf, dst, x), clobber = dst
      PROVE  Moved(rf, rg, dst, src, clobber)
  <2>1. /\ DOMAIN rg = Wide /\ rg[dst] = x /\ DOMAIN rg[dst] = 1 .. 2
        /\ \A w \in Wide : w # dst => rg[w] = rf[w]
    BY <1>2, <1>4, PutEffect
  <2>2. PushReg(clobber) = dst /\ clobber \notin ByteRegs
    BY <1>4, Kinds
  <2>3. RegFile(rg)
    BY <2>1 DEF RegFile
  <2>4. QED
    BY <1>2, <1>4, <2>1, <2>2, <2>3 DEF Moved, Part
<1>5. CASE src \in Remats
  BY <1>1, <1>3, <1>4, <1>5, Kinds DEF rins_mov_preg_from_vreg, planned_move_clobber_reg, IsByte
<1>6. CASE src \notin Remats /\ dst \in ByteRegs /\ src \in WordRegs
  <2>1. CASE src \in SplitWords
    BY <1>3, <1>6, <2>1, Kinds DEF rins_mov_preg_from_vreg, planned_move_clobber_reg
  <2>2. CASE src \notin SplitWords /\ dst = "AL"
    <3>1. rg = Put16(rf, "AX", x) /\ clobber = "AX"
      BY <1>6, <2>2 DEF rins_mov_preg_from_vreg, planned_move_clobber_reg
    <3>2. QED
      BY <1>2, <1>6, <2>2, <3>1, PutEffect, Kinds DEF Moved, RegFile, Part
  <2>3. CASE src \notin SplitWords /\ dst # "AL"
    <3>1. rg = Put16(Put8(rf, dst, b), "AX", rf["AX"]) /\ clobber = dst
      BY <1>6, <2>3, Kinds DEF rins_mov_preg_from_vreg, planned_move_clobber_reg
    <3>2. PICK r8 : r8 = Put8(rf, dst, b)
      OBVIOUS
    <3>3. Moved(rf, r8, dst, src, clobber) /\ RegFile(r8)
      BY <1>3, <1>6, <3>1, <3>2 DEF Moved
    <3>4. /\ DOMAIN rg = Wide /\ rg["AX"] = rf["AX"]
          /\ \A w \in Wide : w # "AX" => rg[w] = r8[w]
      BY <3>1, <3>2, <3>3, PutEffect, Kinds
    <3>5. dst = "AH" \/ PushReg(dst) # "AX"
      BY <1>6, <2>3, HalfOf, Kinds DEF preg_alias_lo, preg_alias_hi
    <3>6. QED
      BY <1>6, <2>3, <3>1, <3>3, <3>4, <3>5, Kinds DEF Moved, RegFile, Part
  <2>4. QED
    BY <2>1, <2>2, <2>3
<1>7. CASE src \notin Remats /\ dst \in WordRegs /\ IsByte(src) /\ dst \in SplitWords
  <2>1. rg = Put8(rf, preg_alias_lo[dst], b) /\ clobber = preg_alias_lo[dst]
    BY <1>7, Kinds DEF rins_mov_preg_from_vreg, planned_move_clobber_reg
  <2>2. preg_alias_lo[dst] \in ByteRegs /\ PushReg(preg_alias_lo[dst]) = dst
        /\ Half(preg_alias_lo[dst]) = 1
    BY <1>7, HalvesOf
  <2>3. QED
    BY <1>7, <2>1, <2>2, PutEffect, Kinds DEF Moved, RegFile, Part
<1>8. CASE src \notin Remats /\ dst \in WordRegs /\ IsByte(src) /\ dst \notin SplitWords
  <2>1. rg = Put16(rf, dst, <<b, Zero>>) /\ clobber = dst /\ dst \in Wide
    BY <1>1, <1>8, Kinds DEF rins_mov_preg_from_vreg, planned_move_clobber_reg
  <2>2. DOMAIN <<b, Zero>> = 1 .. 2 /\ <<b, Zero>>[1] = b
    OBVIOUS
  <2>3. QED
    BY <1>8, <2>1, <2>2, PutEffect, Kinds DEF Moved, RegFile, Part
<1>9. CASE src \notin Remats /\ dst \in ByteRegs /\ src \notin WordRegs
  BY <1>3, <1>9, Kinds DEF rins_mov_preg_from_vreg, planned_move_clobber_reg
<1>10. CASE src \notin Remats /\ dst \in Wide /\ ~IsByte(src)
  BY <1>1, <1>4, <1>10, Kinds DEF rins_mov_preg_from_vreg, planned_move_clobber_reg, IsByte
<1>11. dst \in SegRegs => ~IsByte(src)
  BY DEF Movable
<1>12. QED
  BY <1>1, <1>5, <1>6, <1>7, <1>8, <1>9, <1>10, <1>11, Kinds DEF Wide

-----------------------------------------------------------------------------
(* The elements of a sequence at some of its positions. *)

\* Positions pos, in order, are those of s up to n that are in P; t has the elements.
Picks(s, P, n, t, pos) ==
    /\ Len(t) = Len(pos)
    /\ \A i \in 1 .. Len(pos) : pos[i] \in P /\ pos[i] <= n /\ t[i] = s[pos[i]]
    /\ \A p \in P : p <= n => \E i \in 1 .. Len(pos) : pos[i] = p
    /\ \A i, j \in 1 .. Len(pos) : i < j => pos[i] < pos[j]

PickedUpTo(T, s, P, n, t) ==
    t \in Seq(T) /\ \E pos \in Seq(1 .. Len(s)) : Picks(s, P, n, t, pos)

\* One more position is looked at.
LEMMA PickNext ==
    ASSUME NEW T, NEW s, NEW P, NEW n, NEW t, NEW u,
           s \in Seq(T), P \in SUBSET (1 .. Len(s)), n \in 1 .. Len(s),
           PickedUpTo(T, s, P, n - 1, t), u = IF n \in P THEN Append(t, s[n]) ELSE t
    PROVE  PickedUpTo(T, s, P, n, u)
<1>0. PICK pos : t \in Seq(T) /\ pos \in Seq(1 .. Len(s)) /\ Picks(s, P, n - 1, t, pos)
  BY DEF PickedUpTo
<1>1. n \in Nat /\ s[n] \in T /\ Len(s) \in Nat /\ Len(pos) \in Nat
      /\ \A p \in P : p \in Nat
  BY <1>0
<1>2. CASE n \in P
  <2>1. PICK q :
            /\ q \in Seq(1 .. Len(s)) /\ Len(q) = Len(pos) + 1 /\ q[Len(pos) + 1] = n
            /\ \A i \in 1 .. Len(pos) : q[i] = pos[i]
    <3>1. /\ Append(pos, n) \in Seq(1 .. Len(s)) /\ Len(Append(pos, n)) = Len(pos) + 1
          /\ \A i \in 1 .. Len(pos) : Append(pos, n)[i] = pos[i]
          /\ Append(pos, n)[Len(pos) + 1] = n
      BY ONLY <1>0, AppendProperties, n \in 1 .. Len(s)
    <3>2. QED
      BY <3>1
  <2>2. Len(q) = Len(pos) + 1
    BY <2>1
  <2>3. /\ u \in Seq(T) /\ Len(u) = Len(t) + 1 /\ u[Len(t) + 1] = s[n]
        /\ \A i \in 1 .. Len(t) : u[i] = t[i]
    <3>1. u = Append(t, s[n])
      BY <1>2
    <3>2. QED
      BY ONLY <1>0, <1>1, <3>1, AppendProperties
  <2>4. /\ Len(t) = Len(pos)
        /\ \A i \in 1 .. Len(pos) : pos[i] \in P /\ pos[i] <= n - 1 /\ t[i] = s[pos[i]]
        /\ \A p \in P : p <= n - 1 => \E i \in 1 .. Len(pos) : pos[i] = p
        /\ \A i, j \in 1 .. Len(pos) : i < j => pos[i] < pos[j]
    BY <1>0 DEF Picks
  <2>5. \A i \in 1 .. Len(q) : q[i] \in P /\ q[i] <= n /\ u[i] = s[q[i]]
    <3>1. \A i \in 1 .. Len(q) : i \in 1 .. Len(pos) \/ i = Len(pos) + 1
      BY ONLY <1>1, <2>1
    <3>2. ASSUME NEW i \in 1 .. Len(pos)
          PROVE  q[i] \in P /\ q[i] <= n /\ u[i] = s[q[i]]
      <4>1. q[i] = pos[i] /\ u[i] = t[i]
        BY <2>1, <2>3, <2>4
      <4>2. pos[i] \in P /\ pos[i] <= n - 1 /\ pos[i] \in Nat /\ t[i] = s[pos[i]]
        BY <1>1, <2>4
      <4>3. QED
        BY ONLY <1>1, <4>1, <4>2
    <3>3. /\ q[Len(pos) + 1] \in P /\ q[Len(pos) + 1] <= n
          /\ u[Len(pos) + 1] = s[q[Len(pos) + 1]]
      BY ONLY <1>1, <1>2, <2>1, <2>3, <2>4
    <3>4. QED
      BY <3>1, <3>2, <3>3
  <2>6. ASSUME NEW p \in P, p <= n PROVE \E i \in 1 .. Len(q) : q[i] = p
    <3>1. CASE p = n
      <4>1. Len(pos) + 1 \in 1 .. Len(q)
        BY ONLY <1>1, <2>1
      <4>2. QED
        BY <2>1, <3>1, <4>1
    <3>2. CASE p # n
      <4>1. PICK i \in 1 .. Len(pos) : pos[i] = p
        BY <1>1, <2>4, <2>6, <3>2
      <4>2. i \in 1 .. Len(q) /\ q[i] = p
        BY ONLY <1>1, <2>1, <4>1
      <4>3. QED
        BY <4>2
    <3>3. QED
      BY <3>1, <3>2
  <2>7. \A i, j \in 1 .. Len(q) : i < j => q[i] < q[j]
    <3>1. SUFFICES ASSUME NEW i \in 1 .. Len(q), NEW j \in 1 .. Len(q), i < j
                   PROVE  q[i] < q[j]
      OBVIOUS
    <3>2. i \in 1 .. Len(pos) /\ (j \in 1 .. Len(pos) \/ j = Len(pos) + 1)
      <4>1. i \in Int /\ j \in Int /\ 1 <= i /\ j <= Len(pos) + 1 /\ i < j
        BY ONLY <1>1, <2>2, <3>1, i \in 1 .. Len(q), j \in 1 .. Len(q)
      <4>2. Len(pos) \in Nat
        BY ONLY <1>1
      <4>3. QED
        BY ONLY <4>1, <4>2
    <3>3. q[i] = pos[i] /\ pos[i] <= n - 1 /\ pos[i] \in Nat
      BY <1>1, <2>1, <2>4, <3>2
    <3>4. CASE j \in 1 .. Len(pos)
      BY <2>1, <2>4, <3>1, <3>2, <3>3, <3>4
    <3>5. CASE j = Len(pos) + 1
      BY ONLY <1>1, <2>1, <3>3, <3>5
    <3>6. QED
      BY <3>2, <3>4, <3>5
  <2>8. Len(u) = Len(q)
    BY ONLY <2>1, <2>3, <2>4
  <2>9. Picks(s, P, n, u, q)
    BY ONLY <2>5, <2>6, <2>7, <2>8 DEF Picks
  <2>10. QED
    BY <2>1, <2>3, <2>9 DEF PickedUpTo
<1>3. CASE n \notin P
  <2>1. \A p \in P : p <= n => p <= n - 1
    BY <1>1, <1>3
  <2>2. Picks(s, P, n, t, pos)
    BY <1>0, <1>1, <2>1 DEF Picks
  <2>3. QED
    BY <1>0, <1>3, <2>2 DEF PickedUpTo
<1>4. QED
  BY <1>2, <1>3

\* So Picked is what it says.
LEMMA PickedIs ==
    ASSUME NEW T, NEW s, NEW P, s \in Seq(T), P \in SUBSET (1 .. Len(s))
    PROVE  /\ Picked(s, P) \in Seq(T)
           /\ \E pos \in Seq(1 .. Len(s)) : Picks(s, P, Len(s), Picked(s, P), pos)
<1> DEFINE N == Len(s)
           next(n, t) == IF n \in P THEN Append(t, s[n]) ELSE t
           Eqn(g) == g = [n \in 0 .. N |-> IF n = 0 THEN << >> ELSE next(n, g[n - 1])]
<1>1. N \in Nat /\ << >> \in Seq(T) /\ \A n \in P : n \in 1 .. N /\ s[n] \in T
  OBVIOUS
<1>2. \A n : \A t \in Seq(T) : next(n, t) \in Seq(T)
  <2>1. \A n \in P : \A t \in Seq(T) : Append(t, s[n]) \in Seq(T)
    BY ONLY <1>1, AppendProperties
  <2>2. QED
    BY <2>1
<1>3. \E g : Eqn(g)
  <2>1. PICK S : S = Seq(T)
    OBVIOUS
  <2>2. PICK nxt : nxt = [x \in Nat \X S |-> next(x[1], x[2])]
    OBVIOUS
  <2>3. nxt \in [Nat \X S -> S] /\ \A n \in Nat : \A t \in S : nxt[<<n, t>>] = next(n, t)
    BY <1>2, <2>1, <2>2
  <2>4. PICK e : e = << >> /\ e \in S
    BY <1>1, <2>1
  <2>5. PICK f \in [Nat -> S] : f[0] = e /\ \A n \in Nat : f[n + 1] = nxt[<<n + 1, f[n]>>]
    <3>1. \A n \in Nat, t \in S : nxt[<<n, t>>] \in S
      BY <2>3
    <3>2. \E f : Iteration(f, S, e, nxt)
      BY ONLY <2>4, <3>1, StepsIterate
    <3>3. QED
      BY <3>2 DEF Iteration
  <2> DEFINE g == [n \in 0 .. N |-> f[n]]
  <2> HIDE DEF next
  <2>6. ASSUME NEW n \in 0 .. N, n # 0 PROVE g[n] = next(n, g[n - 1])
    <3>1. PICK m \in Nat : n = m + 1 /\ m \in 0 .. N /\ m = n - 1
      <4>1. n - 1 \in Nat /\ n = n - 1 + 1 /\ n - 1 \in 0 .. N
        BY ONLY <1>1, <2>6, n \in 0 .. N
      <4>2. QED
        BY <4>1
    <3>2. f[m + 1] = next(m + 1, f[m])
      <4>1. m + 1 \in Nat /\ f[m] \in S
        OBVIOUS
      <4>2. QED
        BY ONLY <2>3, <2>5, <4>1, m \in Nat
    <3>3. QED
      BY <3>1, <3>2
  <2>7. g[0] = << >>
    BY <1>1, <2>4, <2>5
  <2>8. g = [n \in 0 .. N |-> IF n = 0 THEN << >> ELSE next(n, g[n - 1])]
    BY <2>6, <2>7
  <2>9. QED
    BY <2>8
<1>4. PICK g : Eqn(g) /\ Picked(s, P) = g[N]
  <2>1. Picked(s, P) = (CHOOSE g : Eqn(g))[N]
    BY DEF Picked
  <2>2. QED
    BY <1>3, <2>1
<1>5. g[0] = << >> /\ \A n \in 1 .. N : g[n] = next(n, g[n - 1])
  <2> HIDE DEF next
  <2>1. g = [n \in 0 .. N |-> IF n = 0 THEN << >> ELSE next(n, g[n - 1])]
    BY <1>4
  <2>2. \A n \in 1 .. N : n \in 0 .. N /\ n # 0
    BY <1>1
  <2>3. 0 \in 0 .. N
    BY <1>1
  <2>4. QED
    BY <2>1, <2>2, <2>3
<1> DEFINE Good(n) == PickedUpTo(T, s, P, n, g[n])
           Bad == {n \in 0 .. N : ~Good(n)}
<1>6. Good(0)
  <2>1. PICK pos \in Seq(1 .. N) : pos = << >>
    BY ONLY EmptySeq
  <2>2. Picks(s, P, 0, << >>, pos)
    BY <1>1, <2>1 DEF Picks
  <2>3. QED
    BY <1>1, <1>5, <2>2 DEF PickedUpTo
<1>7. Bad = {}
  <2>1. SUFFICES ASSUME Bad # {} PROVE FALSE
    OBVIOUS
  <2>2. PICK n : n \in Bad /\ \A m \in Bad : n <= m
    <3>1. Bad \subseteq Nat
      OBVIOUS
    <3>2. QED
      BY ONLY <2>1, <3>1, SmallestElement
  <2>3. n \in 1 .. N /\ n - 1 \in 0 .. N
    BY <1>1, <1>6, <2>2
  <2>4. Good(n - 1)
    BY <2>2, <2>3
  <2>5. PICK t, u : /\ t = g[n - 1] /\ u = g[n] /\ u = IF n \in P THEN Append(t, s[n]) ELSE t
                    /\ PickedUpTo(T, s, P, n - 1, t)
    BY <1>5, <2>3, <2>4
  <2>6. PickedUpTo(T, s, P, n, u)
    BY ONLY <2>3, <2>5, PickNext, s \in Seq(T), P \in SUBSET (1 .. Len(s))
  <2>7. QED
    BY <2>2, <2>5, <2>6
<1>8. Good(N)
  BY <1>1, <1>7
<1>9. QED
  BY <1>4, <1>8 DEF PickedUpTo

-----------------------------------------------------------------------------
(* What a move leaves alone, and what it may read. *)

\* rg is rf with nothing but c written.
Wrote(rf, rg, c) ==
    /\ RegFile(rg)
    /\ \A w \in Wide : w # PushReg(c) => rg[w] = rf[w]
    /\ \A w \in Wide, h \in 1 .. 2 : ~Part(c, w, h) => rg[w][h] = rf[w][h]

\* Registers with a byte in common alias.
LEMMA PartsAlias ==
    \A a, b \in Reg : \A w, h : Part(a, w, h) /\ Part(b, w, h) => pregs_alias(a, b)
BY Sharing DEF Part

\* The bytes of a register.
LEMMA BytesOf ==
    /\ \A r \in ByteRegs : PushReg(r) \in Wide /\ Half(r) \in 1 .. 2 /\ Part(r, PushReg(r), Half(r))
    /\ \A r \in Wide : \A h \in 1 .. 2 : Part(r, r, h)
<1>1. \A r \in ByteRegs : PushReg(r) \in Wide /\ Half(r) \in 1 .. 2
  BY HalfOf, Kinds
<1>2. \A r \in Wide : r \notin ByteRegs /\ PushReg(r) = r
  BY Kinds
<1>3. QED
  BY <1>1, <1>2 DEF Part

\* Registers and other sources.
LEMMA DepReg ==
    \A s \in Source :
        /\ s \in Reg => planned_move_source_dep_reg(s) = s
        /\ s \in Spilled => planned_move_source_dep_reg(s) = "BP"
        /\ planned_move_source_dep_reg(s) \in Reg \cup {NONE}
<1>1. Reg \subseteq Preg /\ "BP" \in Reg /\ \A s \in Preg \cap Source : s \in Reg
  <2>1. Reg \subseteq Preg /\ "BP" \in Reg
    BY Kinds DEF Reg
  <2>2. \A s \in Preg : s \notin Spilled /\ s \notin Remats
    BY SourcesAssumption DEF Spilled
  <2>3. QED
    BY <2>1, <2>2 DEF Source
<1>2. \A s \in Spilled : s \notin Preg
  BY SourcesAssumption DEF Spilled
<1>3. SUFFICES ASSUME NEW s \in Source
               PROVE  /\ s \in Reg => planned_move_source_dep_reg(s) = s
                      /\ s \in Spilled => planned_move_source_dep_reg(s) = "BP"
                      /\ planned_move_source_dep_reg(s) \in Reg \cup {NONE}
  OBVIOUS
<1>4. CASE s \in Preg
  BY <1>1, <1>2, <1>4 DEF planned_move_source_dep_reg
<1>5. CASE s \in Spilled
  BY <1>1, <1>2, <1>5 DEF planned_move_source_dep_reg
<1>6. CASE s \notin Preg /\ s \notin Spilled
  BY <1>1, <1>6 DEF planned_move_source_dep_reg
<1>7. QED
  BY <1>4, <1>5, <1>6

\* The register a move writes is its destination, but for AX on the way to AL and
\* the low half of a word.
LEMMA ClobberOf ==
    ASSUME NEW d, NEW s, Movable(d, s), NEW c, c = planned_move_clobber_reg(d, s)
    PROVE  /\ c \in Reg /\ PushReg(c) = PushReg(d)
           /\ \A e \in Reg : ~pregs_alias(d, e) /\ {d, e} # Halves("AX") => ~pregs_alias(c, e)
<1>1. d \in Reg /\ "AX" \in Reg /\ "AL" \in Reg
  BY Kinds DEF Movable
<1>2. CASE d = "AL" /\ s \in WordRegs \ SplitWords
  <2>1. c = "AX" /\ PushReg(d) = "AX" /\ PushReg(c) = "AX" /\ Half(d) = 1 /\ c \notin ByteRegs
    BY <1>2, Kinds DEF planned_move_clobber_reg
  <2>2. ASSUME NEW e \in Reg, pregs_alias(c, e) PROVE pregs_alias(d, e) \/ {d, e} = Halves("AX")
    <3>1. PushReg(e) = "AX"
      BY <1>1, <2>1, <2>2, Sharing
    <3>2. CASE e \notin ByteRegs
      BY <1>1, <2>1, <3>1, <3>2, Sharing
    <3>3. CASE e \in ByteRegs /\ Half(e) = 1
      BY <1>1, <2>1, <3>1, <3>3, Sharing
    <3>4. CASE e \in ByteRegs /\ Half(e) = 2
      BY <1>2, <3>1, <3>4, HalfOf DEF Halves, preg_alias_lo, preg_alias_hi
    <3>5. QED
      BY <3>2, <3>3, <3>4, HalfOf
  <2>3. QED
    BY <1>1, <2>1, <2>2
<1>3. CASE ~(d = "AL" /\ s \in WordRegs \ SplitWords) /\ d \in SplitWords /\ IsByte(s)
  <2>1. c = preg_alias_lo[d] /\ c \in ByteRegs /\ PushReg(c) = d /\ PushReg(d) = d
        /\ d \notin ByteRegs /\ c \in Reg
    BY <1>3, HalvesOf, Kinds DEF planned_move_clobber_reg
  <2>2. \A e \in Reg : pregs_alias(c, e) => pregs_alias(d, e)
    BY <1>1, <2>1, Sharing
  <2>3. QED
    BY <2>1, <2>2
<1>4. CASE ~(d = "AL" /\ s \in WordRegs \ SplitWords) /\ ~(d \in SplitWords /\ IsByte(s))
  BY <1>1, <1>4 DEF planned_move_clobber_reg
<1>5. QED
  BY <1>2, <1>3, <1>4

-----------------------------------------------------------------------------
(* The register file while the moves are made. *)

\* Nothing but the registers in over differs from what it was when the moves began.
DataOK(rf, over) ==
    /\ RegFile(rf)
    /\ \A w \in Wide : (\A c \in over : PushReg(c) # w) => rf[w] = base.regs[w]
    /\ \A w \in Wide, h \in 1 .. 2 :
          (\A c \in over : ~Part(c, w, h)) => rf[w][h] = base.regs[w][h]

\* Writing c adds it to the registers that may differ.
LEMMA DataStep ==
    ASSUME NEW rf, NEW over, DataOK(rf, over), NEW rg, NEW c, Wrote(rf, rg, c)
    PROVE  DataOK(rg, over \cup {c})
<1>1. RegFile(rg)
  BY DEF Wrote
<1>2. ASSUME NEW w \in Wide, \A x \in over \cup {c} : PushReg(x) # w
      PROVE  rg[w] = base.regs[w]
  BY <1>2 DEF Wrote, DataOK
<1>3. ASSUME NEW w \in Wide, NEW h \in 1 .. 2, \A x \in over \cup {c} : ~Part(x, w, h)
      PROVE  rg[w][h] = base.regs[w][h]
  BY <1>3 DEF Wrote, DataOK
<1>4. QED
  BY <1>1, <1>2, <1>3 DEF DataOK

\* The source s has the value it had.
Intact(rf, s) ==
    /\ Byte(rf, s) = Before(s, 1)
    /\ ~IsByte(s) => /\ DOMAIN Word(rf, s) = 1 .. 2
                     /\ Word(rf, s)[1] = Before(s, 1) /\ Word(rf, s)[2] = Before(s, 2)

\* A source that no register in over clobbers is intact.
LEMMA SourceIntact ==
    ASSUME NEW rf, NEW over, over \subseteq Reg, DataOK(rf, over), NEW s, s \in Source,
           \A c \in over : ~preg_write_clobbers(c, planned_move_source_dep_reg(s)),
           MemFile, mem = base.mem, s \in Spilled => base.regs["BP"] = FrameBP
    PROVE  Intact(rf, s)
<1>1. RegFile(rf) /\ \A w \in Wide : DOMAIN rf[w] = 1 .. 2
  BY DEF DataOK, RegFile
<1>2. ASSUME NEW w \in Wide, NEW h \in 1 .. 2, s \in Reg, Part(s, w, h)
      PROVE  rf[w][h] = base.regs[w][h]
  <2>1. \A c \in over : ~pregs_alias(c, s)
    BY <1>2, DepReg, Sharing
  <2>2. \A c \in over : ~Part(c, w, h)
    BY <1>2, <2>1, PartsAlias
  <2>3. QED
    BY <2>2 DEF DataOK
<1>3. CASE s \in ByteRegs
  <2>1. rf[PushReg(s)][Half(s)] = base.regs[PushReg(s)][Half(s)]
    BY <1>2, <1>3, BytesOf, Kinds
  <2>2. QED
    BY <1>3, <2>1 DEF Intact, Byte, Before, IsByte
<1>4. CASE s \in Wide
  <2>1. s \notin ByteRegs /\ s \in Reg /\ Word(rf, s) = rf[s] /\ DOMAIN rf[s] = 1 .. 2
    BY <1>1, <1>4, Kinds DEF Word
  <2>2. rf[s][1] = base.regs[s][1] /\ rf[s][2] = base.regs[s][2]
    BY <1>2, <1>4, <2>1, BytesOf
  <2>3. QED
    BY <1>4, <2>1, <2>2 DEF Intact, Byte, Before
<1>5. CASE s \in Remats
  <2>1. s \notin ByteRegs /\ s \notin Wide /\ Word(rf, s) = <<Orig(s, 1), Orig(s, 2)>>
    BY <1>5, Kinds DEF Word
  <2>2. QED
    BY <1>5, <2>1 DEF Intact, Byte, Before
<1>6. CASE s \in Spilled
  <2>1. s \notin ByteRegs /\ s \notin Wide /\ s \notin Remats
    BY <1>6, Kinds
  <2>2. \A c \in over : PushReg(c) # "BP"
    <3>1. SUFFICES ASSUME NEW c \in over, PushReg(c) = "BP" PROVE FALSE
      OBVIOUS
    <3>2. planned_move_source_dep_reg(s) = "BP" /\ "BP" \in Reg /\ "BP" \in Wide /\ c \in Reg
      BY <1>6, DepReg, Kinds
    <3>3. c \notin ByteRegs
      BY <3>1, HalfOf, Kinds
    <3>4. c = "BP"
      BY <3>1, <3>3 DEF PushReg
    <3>5. preg_write_clobbers(c, "BP")
      BY <3>4 DEF preg_write_clobbers, NONE
    <3>6. QED
      BY <3>2, <3>5
  <2>3. rf["BP"] = FrameBP
    BY <1>6, <2>2, Kinds DEF DataOK
  <2>4. Word(rf, s) = mem[s] /\ DOMAIN mem[s] = 1 .. 2
    BY <1>6, <2>1, <2>3 DEF Word, MemFile
  <2>5. QED
    BY <2>1, <2>4 DEF Intact, Byte, Before
<1>7. QED
  BY <1>3, <1>4, <1>5, <1>6, Kinds

\* The destination d has got the value of s, as far as it has to.
Landed(rf, d, s) ==
    \/ d = "AH" /\ s \in WordRegs \ SplitWords
    \/ /\ Byte(rf, d) = Before(s, 1)
       /\ (d \in Wide /\ ~IsByte(s)) => rf[d][2] = Before(s, 2)

\* It keeps it while other registers are written.
LEMMA LandedStays ==
    ASSUME NEW rf, NEW rg, NEW c \in Reg, NEW d \in Reg, NEW s, Wrote(rf, rg, c),
           ~pregs_alias(c, d), Landed(rf, d, s)
    PROVE  Landed(rg, d, s)
<1>1. \A w \in Wide, h \in 1 .. 2 : Part(d, w, h) => rg[w][h] = rf[w][h]
  BY PartsAlias DEF Wrote
<1>2. CASE d \in ByteRegs
  <2>1. d \notin Wide /\ rg[PushReg(d)][Half(d)] = rf[PushReg(d)][Half(d)]
    BY <1>1, <1>2, BytesOf, Kinds
  <2>2. QED
    BY <1>2, <2>1 DEF Landed, Byte
<1>3. CASE d \in Wide
  <2>1. d \notin ByteRegs /\ rg[d][1] = rf[d][1] /\ rg[d][2] = rf[d][2]
    BY <1>1, <1>3, BytesOf, Kinds
  <2>2. QED
    BY <1>3, <2>1 DEF Landed, Byte, Word
<1>4. QED
  BY <1>2, <1>3, Kinds

\* A copy lands when its source is intact.
LEMMA CopyLands ==
    ASSUME NEW rf, NEW rg, NEW d \in Reg, NEW s, NEW c, Moved(rf, rg, d, s, c), Intact(rf, s)
    PROVE  Landed(rg, d, s)
<1>1. CASE d \in ByteRegs
  <2>1. d \notin Wide
    BY <1>1, Kinds
  <2>2. QED
    BY <1>1, <2>1 DEF Moved, Intact, Landed, Byte
<1>2. CASE d \in Wide
  <2>1. d \notin ByteRegs /\ Byte(rg, d) = rg[d][1]
    BY <1>2, Kinds DEF Byte, Word
  <2>2. QED
    BY <1>2, <2>1 DEF Moved, Intact, Landed
<1>3. QED
  BY <1>1, <1>2, Kinds

-----------------------------------------------------------------------------
(* Pops. *)

\* What a pop into d writes.
Popped_reg(d) == IF InAXHalf(d) THEN "AX" ELSE d

\* A pop changes nothing else, and puts the word where it should be unless that is a
\* half of AX.
LEMMA PopEffect ==
    ASSUME NEW rf, RegFile(rf), NEW d, d \in Reg, NEW w, DOMAIN w = 1 .. 2
    PROVE  /\ Wrote(rf, PopInto(rf, d, w), Popped_reg(d))
           /\ Popped_reg(d) \in Reg /\ PushReg(Popped_reg(d)) = PushReg(d)
           /\ ~InAXHalf(d) => /\ Byte(PopInto(rf, d, w), d) = w[1]
                              /\ d \in Wide => PopInto(rf, d, w)[d] = w
<1>1. "AX" \in Wide /\ "AX" \in Reg /\ PushReg("AX") = "AX" /\ "AX" \notin ByteRegs
  BY Kinds
<1>2. CASE InAXHalf(d)
  <2>1. PushReg(d) = "AX"
    BY <1>2, Kinds DEF InAXHalf, Halves, preg_alias_lo, preg_alias_hi
  <2>2. PopInto(rf, d, w) = Put16(rf, "AX", w) /\ Popped_reg(d) = "AX"
    BY <1>2 DEF PopInto, Popped_reg
  <2>3. QED
    BY <1>1, <1>2, <2>1, <2>2, PutEffect DEF Wrote, RegFile, Part
<1>3. CASE ~InAXHalf(d) /\ d \in ByteRegs
  <2>1. PopInto(rf, d, w) = Put8(rf, d, w[1]) /\ Popped_reg(d) = d /\ d \notin Wide
    BY <1>3, Kinds DEF PopInto, Popped_reg
  <2>2. PICK r8 : r8 = Put8(rf, d, w[1])
    OBVIOUS
  <2>3. /\ DOMAIN r8 = Wide
        /\ \A x \in Wide : /\ DOMAIN r8[x] = 1 .. 2
                           /\ x # PushReg(d) => r8[x] = rf[x]
        /\ \A h \in 1 .. 2 : r8[PushReg(d)][h] =
                                IF h = Half(d) THEN w[1] ELSE rf[PushReg(d)][h]
    BY <1>3, <2>2, PutEffect
  <2>4. Half(d) \in 1 .. 2 /\ r8[PushReg(d)][Half(d)] = w[1]
    BY <1>3, <2>3, HalfOf
  <2>5. Wrote(rf, r8, d)
    BY <1>3, <2>3 DEF Wrote, RegFile, Part
  <2>6. QED
    BY <1>3, <2>1, <2>2, <2>4, <2>5 DEF Byte
<1>4. CASE ~InAXHalf(d) /\ d \notin ByteRegs
  <2>1. PopInto(rf, d, w) = Put16(rf, d, w) /\ Popped_reg(d) = d /\ d \in Wide /\ PushReg(d) = d
    BY <1>4, Kinds DEF PopInto, Popped_reg
  <2>2. PICK rg : rg = Put16(rf, d, w)
    OBVIOUS
  <2>3. /\ DOMAIN rg = Wide /\ rg[d] = w
        /\ \A x \in Wide : x # d => rg[x] = rf[x]
    BY <2>1, <2>2, PutEffect
  <2>4. Wrote(rf, rg, d)
    BY <1>4, <2>1, <2>3 DEF Wrote, RegFile, Part
  <2>5. QED
    BY <1>4, <2>1, <2>2, <2>3, <2>4 DEF Byte, Word
<1>5. QED
  BY <1>2, <1>3, <1>4

-----------------------------------------------------------------------------
(* The plan. *)

\* Arguments that can be placed: no two destinations alias.
Callable(c, rf) ==
    /\ c \in Seq([src : Source, dst : Reg])
    /\ \A a \in DOMAIN c : /\ Movable(c[a].dst, c[a].src)
                           /\ c[a].src \in Spilled => rf["BP"] = FrameBP
    /\ \A a, b \in DOMAIN c : a # b => ~pregs_alias(c[a].dst, c[b].dst)

Move == [dst_reg : Reg, src : Source, src_dep_reg : Reg \cup {NONE}, clobber_reg : Reg,
         done : BOOLEAN, saved : BOOLEAN]

\* The moves ms carry the arguments c that are not where they should be, each once.
PlanFor(ms, c) ==
    /\ ms \in Seq(Move)
    /\ \A i \in DOMAIN ms :
          /\ ms[i].src_dep_reg = planned_move_source_dep_reg(ms[i].src)
          /\ ms[i].clobber_reg = planned_move_clobber_reg(ms[i].dst_reg, ms[i].src)
          /\ \E a \in DOMAIN c : c[a].src = ms[i].src /\ c[a].dst = ms[i].dst_reg
    /\ \A i, j \in DOMAIN ms : i # j => ~pregs_alias(ms[i].dst_reg, ms[j].dst_reg)
    /\ \A a \in DOMAIN c :
          \/ pregs_alias(c[a].src, c[a].dst)
          \/ \E i \in DOMAIN ms : c[a].src = ms[i].src /\ c[a].dst = ms[i].dst_reg

\* PlannedMoves makes such a plan, of moves not made yet.
LEMMA PlanMade ==
    ASSUME NEW c, NEW rf, Callable(c, rf), NEW ms, ms = PlannedMoves(c)
    PROVE  PlanFor(ms, c) /\ \A i \in DOMAIN ms : ~ms[i].done /\ ~ms[i].saved
<1> DEFINE P == {k \in DOMAIN c : ~pregs_alias(c[k].src, c[k].dst)}
<1>1. PICK T : T = [src : Source, dst : Reg]
  OBVIOUS
<1>2. /\ c \in Seq(T) /\ DOMAIN c = 1 .. Len(c) /\ Len(c) \in Nat
      /\ \A k \in DOMAIN c : c[k].src \in Source /\ c[k].dst \in Reg
  <2>1. c \in Seq(T) /\ DOMAIN c = 1 .. Len(c) /\ Len(c) \in Nat
    BY <1>1 DEF Callable
  <2>2. \A k \in DOMAIN c : Movable(c[k].dst, c[k].src)
    BY DEF Callable
  <2>3. QED
    BY <2>1, <2>2 DEF Movable
<1>3. P \in SUBSET (1 .. Len(c))
  BY <1>2
<1>4. PICK kept : kept = Picked(c, P)
  OBVIOUS
<1>5. PICK pos : kept \in Seq(T) /\ pos \in Seq(1 .. Len(c)) /\ Picks(c, P, Len(c), kept, pos)
  BY ONLY <1>2, <1>3, <1>4, PickedIs
<1>6. ms = [k \in DOMAIN kept |-> Planned(kept[k])]
  BY <1>4 DEF PlannedMoves
<1>7. DOMAIN kept = 1 .. Len(kept) /\ Len(kept) \in Nat /\ Len(pos) = Len(kept)
  BY <1>5 DEF Picks
<1>8. \A k \in DOMAIN kept : pos[k] \in P /\ kept[k] = c[pos[k]]
  BY <1>5, <1>7 DEF Picks
<1>9. \A p \in P : \E k \in DOMAIN kept : kept[k] = c[p]
  <2> HIDE DEF P
  <2>1. \A p \in P : p <= Len(c)
    BY ONLY <1>2, <1>3
  <2>2. \A p \in P : p <= Len(c) => \E i \in 1 .. Len(pos) : pos[i] = p
    BY ONLY <1>5 DEF Picks
  <2>3. \A i \in 1 .. Len(pos) : i \in DOMAIN kept /\ kept[i] = c[pos[i]]
    BY ONLY <1>7, <1>8
  <2>4. QED
    BY ONLY <2>1, <2>2, <2>3
<1>10. \A j, k \in DOMAIN kept : j # k => pos[j] # pos[k]
  <2>1. \A j, k \in 1 .. Len(pos) : j < k => pos[j] < pos[k]
    BY <1>5 DEF Picks
  <2>2. \A k \in 1 .. Len(pos) : pos[k] \in 1 .. Len(c)
    BY <1>5
  <2>3. QED
    BY <1>2, <1>7, <2>1, <2>2
<1>11. ASSUME NEW k \in DOMAIN kept
       PROVE  /\ ms[k] \in Move /\ ms[k].src = c[pos[k]].src /\ ms[k].dst_reg = c[pos[k]].dst
              /\ ms[k].src_dep_reg = planned_move_source_dep_reg(ms[k].src)
              /\ ms[k].clobber_reg = planned_move_clobber_reg(ms[k].dst_reg, ms[k].src)
              /\ ~ms[k].done /\ ~ms[k].saved
  <2>1. PICK a : a = c[pos[k]] /\ pos[k] \in DOMAIN c
    BY <1>8
  <2>2. /\ a.src \in Source /\ a.dst \in Reg /\ Movable(a.dst, a.src)
        /\ ms[k] = [dst_reg |-> a.dst, src |-> a.src,
                    src_dep_reg |-> planned_move_source_dep_reg(a.src),
                    clobber_reg |-> planned_move_clobber_reg(a.dst, a.src),
                    done |-> FALSE, saved |-> FALSE]
    BY <1>2, <1>6, <1>8, <2>1 DEF Planned, Callable
  <2>3. planned_move_source_dep_reg(a.src) \in Reg \cup {NONE}
    BY <2>2, DepReg
  <2>4. planned_move_clobber_reg(a.dst, a.src) \in Reg
    BY <2>2, ClobberOf
  <2>5. QED
    BY <2>1, <2>2, <2>3, <2>4 DEF Move
<1>12. ms \in Seq(Move) /\ DOMAIN ms = DOMAIN kept
  BY <1>6, <1>7, <1>11
<1>13. \A i, j \in DOMAIN ms : i # j => ~pregs_alias(ms[i].dst_reg, ms[j].dst_reg)
  BY <1>8, <1>10, <1>11, <1>12 DEF Callable
<1>14. \A i \in DOMAIN ms : \E a \in DOMAIN c : c[a].src = ms[i].src /\ c[a].dst = ms[i].dst_reg
  BY <1>8, <1>11, <1>12
<1>15. ASSUME NEW a \in DOMAIN c, ~pregs_alias(c[a].src, c[a].dst)
       PROVE  \E i \in DOMAIN ms : c[a].src = ms[i].src /\ c[a].dst = ms[i].dst_reg
  <2>1. PICK k \in DOMAIN kept : kept[k] = c[a]
    BY <1>9, <1>15
  <2>2. QED
    BY <1>8, <1>11, <1>12, <2>1
<1>16. QED
  BY <1>11, <1>12, <1>13, <1>14, <1>15 DEF PlanFor

\* ns is ms with move k marked as done, and nothing else that the planner set changed.
Marked(ms, ns, k) ==
    /\ ns \in Seq(Move) /\ DOMAIN ns = DOMAIN ms /\ Len(ns) = Len(ms)
    /\ \A i \in DOMAIN ms :
          /\ ns[i].dst_reg = ms[i].dst_reg /\ ns[i].src = ms[i].src
          /\ ns[i].src_dep_reg = ms[i].src_dep_reg /\ ns[i].clobber_reg = ms[i].clobber_reg
          /\ i # k => ns[i] = ms[i]
    /\ ns[k].done

Emitted(ms, ns, k) == Marked(ms, ns, k) /\ ns[k].saved = ms[k].saved
Saved(ms, ns, k)   == Marked(ms, ns, k) /\ ns[k].saved = TRUE

\* What setting the flags of a move leaves of the others.
LEMMA Marks ==
    ASSUME NEW ms, ms \in Seq(Move), NEW k, k \in DOMAIN ms
    PROVE  /\ Emitted(ms, [ms EXCEPT ![k].done = TRUE], k)
           /\ Saved(ms, [ms EXCEPT ![k].done = TRUE, ![k].saved = TRUE], k)
<1>1. ms[k] \in Move /\ DOMAIN ms = 1 .. Len(ms) /\ Len(ms) \in Nat
  OBVIOUS
<1>2. ASSUME NEW x \in Move,
             x.dst_reg = ms[k].dst_reg /\ x.src = ms[k].src /\ x.src_dep_reg = ms[k].src_dep_reg,
             x.clobber_reg = ms[k].clobber_reg /\ x.done
      PROVE  Marked(ms, [ms EXCEPT ![k] = x], k) /\ [ms EXCEPT ![k] = x][k] = x
  <2>1. PICK ns : ns = [ms EXCEPT ![k] = x]
    OBVIOUS
  <2>2. /\ ns \in Seq(Move) /\ Len(ns) = Len(ms)
        /\ \A i \in 1 .. Len(ms) : ns[i] = IF i = k THEN x ELSE ms[i]
    BY ONLY <1>1, <2>1, ChangeOne, x \in Move, ms \in Seq(Move), k \in DOMAIN ms
  <2>3. DOMAIN ns = DOMAIN ms
    BY <2>1
  <2>4. QED
    BY <1>1, <1>2, <2>1, <2>2, <2>3 DEF Marked
<1>3. PICK x : x = [ms[k] EXCEPT !.done = TRUE]
  OBVIOUS
<1>4. /\ x \in Move /\ x.dst_reg = ms[k].dst_reg /\ x.src = ms[k].src
      /\ x.src_dep_reg = ms[k].src_dep_reg /\ x.clobber_reg = ms[k].clobber_reg
      /\ x.done = TRUE /\ x.saved = ms[k].saved
  BY <1>1, <1>3 DEF Move
<1>5. [ms EXCEPT ![k].done = TRUE] = [ms EXCEPT ![k] = x]
  BY <1>3
<1>6. Emitted(ms, [ms EXCEPT ![k] = x], k)
  BY <1>2, <1>4 DEF Emitted
<1>7. PICK y : y = [ms[k] EXCEPT !.done = TRUE, !.saved = TRUE]
  OBVIOUS
<1>8. /\ y \in Move /\ y.dst_reg = ms[k].dst_reg /\ y.src = ms[k].src
      /\ y.src_dep_reg = ms[k].src_dep_reg /\ y.clobber_reg = ms[k].clobber_reg
      /\ y.done = TRUE /\ y.saved = TRUE
  BY <1>1, <1>7 DEF Move
<1>9. [ms EXCEPT ![k].done = TRUE, ![k].saved = TRUE] = [ms EXCEPT ![k] = y]
  BY <1>1, <1>7
<1>10. Saved(ms, [ms EXCEPT ![k] = y], k)
  BY <1>2, <1>8 DEF Saved
<1>11. QED
  BY <1>5, <1>6, <1>9, <1>10

-----------------------------------------------------------------------------
(* Which moves are made while they are emitted and popped.  The saved moves *)
(* above u have been popped; until the pops start u is the last move.       *)

SavedLeft(ms, u) == {i \in DOMAIN ms : ms[i].saved /\ i <= u}
Made(ms, u) == {i \in DOMAIN ms : ms[i].done /\ (ms[i].saved => u < i)}

\* What a move that is made has written, and what all of them have.
Effect(m) == IF m.saved THEN Popped_reg(m.dst_reg) ELSE m.clobber_reg
Over(ms, u) == {Effect(ms[i]) : i \in Made(ms, u)}

\* Emitting a move.
LEMMA SetsEmitted ==
    ASSUME NEW ms, NEW ns, NEW k, ms \in Seq(Move), k \in DOMAIN ms, ~ms[k].done, ~ms[k].saved,
           Emitted(ms, ns, k)
    PROVE  /\ Made(ns, Len(ns)) = Made(ms, Len(ms)) \cup {k}
           /\ SavedLeft(ns, Len(ns)) = SavedLeft(ms, Len(ms))
           /\ Over(ns, Len(ns)) = Over(ms, Len(ms)) \cup {ms[k].clobber_reg}
<1>1. DOMAIN ms = 1 .. Len(ms) /\ Len(ms) \in Nat /\ \A i \in DOMAIN ms : i \in Nat /\ i <= Len(ms)
  OBVIOUS
<1>2. /\ DOMAIN ns = DOMAIN ms /\ Len(ns) = Len(ms) /\ ns[k].done /\ ~ns[k].saved
      /\ \A i \in DOMAIN ms : i # k => ns[i] = ms[i]
      /\ ns[k].clobber_reg = ms[k].clobber_reg
  BY DEF Emitted, Marked
<1>3. Made(ns, Len(ns)) = Made(ms, Len(ms)) \cup {k}
  BY <1>1, <1>2 DEF Made
<1>4. SavedLeft(ns, Len(ns)) = SavedLeft(ms, Len(ms))
  BY <1>1, <1>2 DEF SavedLeft
<1>5. k \notin Made(ms, Len(ms)) /\ Made(ms, Len(ms)) \subseteq DOMAIN ms
  BY DEF Made
<1>6. Effect(ns[k]) = ms[k].clobber_reg
  BY <1>2 DEF Effect
<1>7. \A i \in Made(ms, Len(ms)) : ns[i] = ms[i]
  BY <1>2, <1>5
<1>8. QED
  BY <1>3, <1>4, <1>6, <1>7 DEF Over

\* Saving one.
LEMMA SetsSaved ==
    ASSUME NEW ms, NEW ns, NEW k, ms \in Seq(Move), k \in DOMAIN ms, ~ms[k].done, ~ms[k].saved,
           Saved(ms, ns, k)
    PROVE  /\ Made(ns, Len(ns)) = Made(ms, Len(ms))
           /\ SavedLeft(ns, Len(ns)) = SavedLeft(ms, Len(ms)) \cup {k}
           /\ k \notin SavedLeft(ms, Len(ms))
           /\ Over(ns, Len(ns)) = Over(ms, Len(ms))
<1>1. DOMAIN ms = 1 .. Len(ms) /\ Len(ms) \in Nat /\ \A i \in DOMAIN ms : i \in Nat /\ i <= Len(ms)
  OBVIOUS
<1>2. /\ DOMAIN ns = DOMAIN ms /\ Len(ns) = Len(ms) /\ ns[k].done /\ ns[k].saved
      /\ \A i \in DOMAIN ms : i # k => ns[i] = ms[i]
  BY DEF Saved, Marked
<1>3. Made(ns, Len(ns)) = Made(ms, Len(ms))
  BY <1>1, <1>2 DEF Made
<1>4. SavedLeft(ns, Len(ns)) = SavedLeft(ms, Len(ms)) \cup {k} /\ k \notin SavedLeft(ms, Len(ms))
  BY <1>1, <1>2 DEF SavedLeft
<1>5. k \notin Made(ms, Len(ms)) /\ Made(ms, Len(ms)) \subseteq DOMAIN ms
  BY DEF Made
<1>6. \A i \in Made(ms, Len(ms)) : ns[i] = ms[i]
  BY <1>2, <1>5
<1>7. QED
  BY <1>3, <1>4, <1>6 DEF Over

\* Going past a move in the pops.
LEMMA SetsPopped ==
    ASSUME NEW ms, NEW k, ms \in Seq(Move), k \in DOMAIN ms, ms[k].done
    PROVE  /\ ~ms[k].saved => /\ Made(ms, k - 1) = Made(ms, k)
                              /\ SavedLeft(ms, k - 1) = SavedLeft(ms, k)
                              /\ Over(ms, k - 1) = Over(ms, k)
           /\ ms[k].saved => /\ Made(ms, k - 1) = Made(ms, k) \cup {k}
                             /\ SavedLeft(ms, k) = SavedLeft(ms, k - 1) \cup {k}
                             /\ k \notin SavedLeft(ms, k - 1)
                             /\ \A i \in SavedLeft(ms, k - 1) : i < k
                             /\ Over(ms, k - 1) = Over(ms, k) \cup {Popped_reg(ms[k].dst_reg)}
<1>1. \A i \in DOMAIN ms : i \in Int
  OBVIOUS
<1>2. \A i \in DOMAIN ms : (k - 1 < i <=> k < i \/ i = k) /\ (i <= k <=> i <= k - 1 \/ i = k)
  BY <1>1
<1>3. CASE ~ms[k].saved
  BY <1>2, <1>3 DEF Made, SavedLeft, Over
<1>4. CASE ms[k].saved
  <2>1. Made(ms, k - 1) = Made(ms, k) \cup {k}
    BY <1>2, <1>4 DEF Made
  <2>2. /\ SavedLeft(ms, k) = SavedLeft(ms, k - 1) \cup {k} /\ k \notin SavedLeft(ms, k - 1)
        /\ \A i \in SavedLeft(ms, k - 1) : i < k
    BY <1>1, <1>2, <1>4 DEF SavedLeft
  <2>3. Effect(ms[k]) = Popped_reg(ms[k].dst_reg)
    BY <1>4 DEF Effect
  <2>4. Over(ms, k - 1) = Over(ms, k) \cup {Popped_reg(ms[k].dst_reg)}
    BY <2>1, <2>3 DEF Over
  <2>5. QED
    BY <1>4, <2>1, <2>2, <2>4
<1>5. QED
  BY <1>3, <1>4

-----------------------------------------------------------------------------
(* The stack while the moves are made. *)

Sequence(s) == \E S : s \in Seq(S)

\* n words on top of the stack b.
StackOn(st, b, n) ==
    /\ Sequence(st) /\ Sequence(b) /\ n \in Nat /\ Len(st) = n + Len(b)
    /\ \A k \in 1 .. Len(b) : st[n + k] = b[k]
    /\ \A k \in 1 .. n : DOMAIN st[k] = 1 .. 2

Push(w, st) == <<w>> \o st

\* Pushing a word.
LEMMA PushOn ==
    ASSUME NEW st, NEW b, NEW n, StackOn(st, b, n), NEW w, DOMAIN w = 1 .. 2,
           NEW v, v = Push(w, st)
    PROVE  StackOn(v, b, n + 1) /\ v[1] = w /\ \A k \in 1 .. n : v[k + 1] = st[k]
<1>1. PICK S, T : st \in Seq(S) /\ b \in Seq(T)
  BY DEF StackOn, Sequence
<1>2. PICK U : U = S \cup {w}
  OBVIOUS
<1>3. <<w>> \in Seq(U) /\ Len(<<w>>) = 1 /\ <<w>>[1] = w /\ st \in Seq(U)
  BY <1>1, <1>2
<1>4. Len(st) \in Nat /\ Len(b) \in Nat /\ n \in Nat /\ Len(st) = n + Len(b)
  BY <1>1 DEF StackOn
<1>6. v \in Seq(U) /\ Len(v) = Len(st) + 1
      /\ \A k \in 1 .. Len(st) + 1 : v[k] = IF k = 1 THEN w ELSE st[k - 1]
  BY <1>3, <1>4 DEF Push
<1>7. v[1] = w /\ \A k \in 1 .. Len(st) : v[k + 1] = st[k]
  <2>1. \A k \in 1 .. Len(st) : k + 1 \in 1 .. Len(st) + 1 /\ k + 1 # 1 /\ k + 1 - 1 = k
    BY ONLY <1>4
  <2>2. 1 \in 1 .. Len(st) + 1
    BY ONLY <1>4
  <2>3. QED
    BY ONLY <1>6, <2>1, <2>2
<1>8. ASSUME NEW k \in 1 .. Len(b) PROVE v[n + 1 + k] = b[k]
  <2>1. n + k \in 1 .. Len(st) /\ n + 1 + k = n + k + 1
    BY ONLY <1>4, k \in 1 .. Len(b)
  <2>2. QED
    BY <1>7, <2>1 DEF StackOn
<1>9. ASSUME NEW k \in 1 .. n + 1 PROVE DOMAIN v[k] = 1 .. 2
  <2>1. CASE k = 1
    BY <1>7, <2>1
  <2>2. CASE k # 1
    <3>1. k - 1 \in 1 .. n /\ k - 1 \in 1 .. Len(st) /\ k - 1 + 1 = k
      BY ONLY <1>4, <2>2, k \in 1 .. n + 1
    <3>2. v[k - 1 + 1] = st[k - 1] /\ DOMAIN st[k - 1] = 1 .. 2
      BY <1>7, <3>1 DEF StackOn
    <3>3. QED
      BY ONLY <3>1, <3>2
  <2>3. QED
    BY <2>1, <2>2
<1>10. StackOn(v, b, n + 1)
  <2>1. Len(v) = n + 1 + Len(b) /\ n + 1 \in Nat
    BY ONLY <1>4, <1>6
  <2>2. QED
    BY <1>1, <1>6, <1>8, <1>9, <2>1 DEF StackOn, Sequence
<1>11. \A k \in 1 .. n : k \in 1 .. Len(st)
  BY ONLY <1>4
<1>12. QED
  BY <1>7, <1>10, <1>11

\* Popping one.
LEMMA PopOn ==
    ASSUME NEW st, NEW b, NEW n, n \in Nat, StackOn(st, b, n + 1)
    PROVE  /\ StackOn(Tail(st), b, n) /\ Head(st) = st[1] /\ DOMAIN st[1] = 1 .. 2
           /\ \A k \in 1 .. n : Tail(st)[k] = st[k + 1]
<1>1. PICK S, T : st \in Seq(S) /\ b \in Seq(T)
  BY DEF StackOn, Sequence
<1>2. Len(st) \in Nat /\ Len(b) \in Nat /\ Len(st) = n + 1 + Len(b)
  BY <1>1 DEF StackOn
<1>3. st # << >>
  BY <1>2
<1>4. PICK v : v = Tail(st)
  OBVIOUS
<1>5. v \in Seq(S) /\ Head(st) = st[1] /\ Len(v) = n + Len(b) /\ \A k \in 1 .. Len(v) : v[k] = st[k + 1]
  <2>1. v \in Seq(S) /\ Len(v) = Len(st) - 1 /\ \A k \in 1 .. Len(v) : v[k] = st[k + 1]
    BY ONLY <1>1, <1>3, <1>4, HeadTailProperties
  <2>2. Head(st) = st[1]
    OBVIOUS
  <2>3. Len(v) = n + Len(b)
    BY ONLY <1>2, <2>1, n \in Nat
  <2>4. QED
    BY <2>1, <2>2, <2>3
<1>6. ASSUME NEW k \in 1 .. Len(b) PROVE v[n + k] = b[k]
  <2>1. n + k \in 1 .. Len(v) /\ n + k + 1 = n + 1 + k
    BY ONLY <1>2, <1>5, k \in 1 .. Len(b), n \in Nat
  <2>2. QED
    BY <1>5, <2>1 DEF StackOn
<1>7. \A k \in 1 .. n : v[k] = st[k + 1] /\ k + 1 \in 1 .. n + 1
  <2>1. \A k \in 1 .. n : k \in 1 .. Len(v) /\ k + 1 \in 1 .. n + 1
    BY ONLY <1>2, <1>5, n \in Nat
  <2>2. QED
    BY ONLY <1>5, <2>1
<1>8. \A k \in 1 .. n : DOMAIN v[k] = 1 .. 2
  BY <1>7 DEF StackOn
<1>9. StackOn(v, b, n)
  BY <1>1, <1>5, <1>6, <1>8 DEF StackOn, Sequence
<1>10. 1 \in 1 .. n + 1
  BY ONLY n \in Nat
<1>11. DOMAIN st[1] = 1 .. 2
  BY <1>10 DEF StackOn
<1>12. QED
  BY <1>4, <1>5, <1>7, <1>9, <1>11

\* With nothing on top the stack is b.
LEMMA Emptied ==
    ASSUME NEW st, NEW b, StackOn(st, b, 0)
    PROVE  st = b
<1>1. PICK S, T : st \in Seq(S) /\ b \in Seq(T)
  BY DEF StackOn, Sequence
<1>2. Len(st) = Len(b) /\ Len(b) \in Nat /\ \A k \in 1 .. Len(b) : st[k] = b[k]
  BY <1>1 DEF StackOn
<1>3. QED
  BY <1>1, <1>2

\* The stack place of i among the saved moves S: one for it and each later one.
Above(S, i) == {j \in S : j >= i}
Place(S, i) == Cardinality(Above(S, i))

\* The move k comes after those in S.
After(S, k) == S \subseteq Nat /\ k \in Nat /\ IsFiniteSet(S) /\ \A i \in S : i < k

\* A later move is put on top, one place further are the others.
LEMMA PlaceUp ==
    ASSUME NEW S, NEW k, After(S, k), NEW T, T = S \cup {k}
    PROVE  /\ IsFiniteSet(T) /\ Cardinality(S) \in Nat
           /\ Cardinality(T) = Cardinality(S) + 1
           /\ Place(T, k) = 1
           /\ \A i \in S : /\ Place(T, i) = Place(S, i) + 1
                           /\ Place(S, i) \in 1 .. Cardinality(S)
<1> USE DEF After
<1>1. k \notin S
  <2>1. ~(k < k)
    BY ONLY After(S, k)
  <2>2. QED
    BY <2>1
<1>2. IsFiniteSet(T) /\ Cardinality(T) = Cardinality(S) + 1
  BY <1>1, FS_AddElement
<1>3. Cardinality(S) \in Nat
  BY FS_CardinalityType
<1>4. Place(T, k) = 1
  <2>1. Above(T, k) = {k}
    <3>1. k >= k /\ \A j \in S : ~(j >= k)
      BY ONLY After(S, k)
    <3>2. QED
      BY <3>1 DEF Above
  <2>2. QED
    BY <2>1, FS_Singleton DEF Place
<1>5. ASSUME NEW i \in S
      PROVE  Place(T, i) = Place(S, i) + 1 /\ Place(S, i) \in 1 .. Cardinality(S)
  <2>1. PICK A : A = Above(S, i)
    OBVIOUS
  <2>2. A \subseteq S /\ i \in A /\ k \notin A /\ Above(T, i) = A \cup {k}
    BY <1>1, <2>1 DEF Above
  <2>3. IsFiniteSet(A) /\ Cardinality(A) <= Cardinality(S)
    BY ONLY <2>2, After(S, k), FS_Subset
  <2>4. Cardinality(A \cup {k}) = Cardinality(A) + 1
    BY ONLY <2>2, <2>3, FS_AddElement
  <2>5. Cardinality(A) \in Nat /\ Cardinality(A) # 0
    <3>1. Cardinality(A) \in Nat
      BY ONLY <2>3, FS_CardinalityType
    <3>2. Cardinality(A) # 0
      BY ONLY <2>2, <2>3, FS_EmptySet
    <3>3. QED
      BY <3>1, <3>2
  <2>6. Cardinality(A) \in 1 .. Cardinality(S)
    BY ONLY <1>3, <2>3, <2>5
  <2>7. QED
    BY <2>1, <2>2, <2>4, <2>6 DEF Place
<1>6. QED
  BY <1>2, <1>3, <1>4, <1>5

-----------------------------------------------------------------------------
(* The invariant of the moves. *)

\* The word w is the value of s, as far as it goes.
Value(w, s) == w[1] = Before(s, 1) /\ (~IsByte(s) => w[2] = Before(s, 2))

AllDone(ms) == \A i \in DOMAIN ms : ms[i].done

\* No move made has clobbered what a pending one reads.
SourcesKept(ms) ==
    \A i \in DOMAIN ms : ~ms[i].done =>
        \A c \in Over(ms, Len(ms)) : ~preg_write_clobbers(c, ms[i].src_dep_reg)

\* Moves are saved in their order, halves of AX aside.
SavedFirst(ms) ==
    /\ \A i \in DOMAIN ms : ms[i].saved => ms[i].done
    /\ \A i, j \in DOMAIN ms :
          ms[i].saved /\ ~ms[j].done /\ ~InAXHalf(ms[j].dst_reg) => i < j

\* Where both halves of AX are not wanted: what is made has landed, and what is saved
\* is on the stack, the last on top.
LandedInv(rf, st, ms, u) ==
    /\ \A i \in Made(ms, u) : Landed(rf, ms[i].dst_reg, ms[i].src)
    /\ \A i \in DOMAIN ms : ms[i].saved => ~InAXHalf(ms[i].dst_reg)
    /\ \A i \in SavedLeft(ms, u) : Value(st[Place(SavedLeft(ms, u), i)], ms[i].src)

\* The moves ms are made but for the saved ones up to u.
Progress(rf, st, ms, u) ==
    /\ PlanFor(ms, call) /\ Callable(call, base.regs) /\ mem = base.mem /\ MemFile
    /\ DataOK(rf, Over(ms, u))
    /\ IsFiniteSet(SavedLeft(ms, u))
    /\ StackOn(st, base.stack, Cardinality(SavedLeft(ms, u)))
    /\ ~BothHalvesOfAX => LandedInv(rf, st, ms, u)

MovesInv ==
    /\ pc = "moves" => /\ Progress(regs, stack, moves, Len(moves))
                       /\ SourcesKept(moves) /\ SavedFirst(moves)
    /\ pc = "pops" => Progress(regs, stack, moves, mi) /\ AllDone(moves) /\ mi \in 0 .. Len(moves)
    /\ pc = "placed" => Progress(regs, stack, moves, 0) /\ AllDone(moves)

\* What a plan says of one move.
LEMMA MoveIs ==
    ASSUME NEW ms, NEW c, NEW rf, PlanFor(ms, c), Callable(c, rf), NEW i, i \in DOMAIN ms
    PROVE  /\ Movable(ms[i].dst_reg, ms[i].src) /\ ms[i] \in Move
           /\ ms[i].dst_reg \in Reg /\ ms[i].src \in Source
           /\ ms[i].src \in Spilled => rf["BP"] = FrameBP
           /\ Effect(ms[i]) \in Reg /\ PushReg(Effect(ms[i])) = PushReg(ms[i].dst_reg)
           /\ (ms[i].saved => ~InAXHalf(ms[i].dst_reg)) =>
                 \A e \in Reg : ~pregs_alias(ms[i].dst_reg, e) /\ {ms[i].dst_reg, e} # Halves("AX")
                                   => ~pregs_alias(Effect(ms[i]), e)
<1>1. PICK m, d, s, cl : m = ms[i] /\ d = m.dst_reg /\ s = m.src /\ cl = m.clobber_reg
  OBVIOUS
<1>2. m \in Move /\ cl = planned_move_clobber_reg(d, s)
  BY <1>1 DEF PlanFor
<1>3. Movable(d, s) /\ (s \in Spilled => rf["BP"] = FrameBP)
  <2>1. PICK a \in DOMAIN c : c[a].src = s /\ c[a].dst = d
    BY <1>1 DEF PlanFor
  <2>2. QED
    BY <2>1 DEF Callable
<1>4. d \in Reg /\ s \in Source /\ "AX" \in Reg
  BY <1>3, Kinds DEF Movable
<1>5. /\ cl \in Reg /\ PushReg(cl) = PushReg(d)
      /\ \A e \in Reg : ~pregs_alias(d, e) /\ {d, e} # Halves("AX") => ~pregs_alias(cl, e)
  BY ONLY <1>2, <1>3, ClobberOf
<1>6. Popped_reg(d) \in Reg /\ PushReg(Popped_reg(d)) = PushReg(d)
  <2>1. CASE InAXHalf(d)
    BY <1>4, <2>1, Kinds DEF Popped_reg, InAXHalf, Halves, preg_alias_lo, preg_alias_hi
  <2>2. CASE ~InAXHalf(d)
    BY <1>4, <2>2 DEF Popped_reg
  <2>3. QED
    BY <2>1, <2>2
<1>7. CASE m.saved
  <2>1. Effect(m) = Popped_reg(d)
    BY <1>1, <1>7 DEF Effect
  <2>2. ~InAXHalf(d) => Effect(m) = d
    BY <2>1 DEF Popped_reg
  <2>3. QED
    BY <1>1, <1>2, <1>3, <1>4, <1>6, <1>7, <2>1, <2>2
<1>8. CASE ~m.saved
  <2>1. Effect(m) = cl
    BY <1>1, <1>8 DEF Effect
  <2>2. QED
    BY <1>1, <1>2, <1>3, <1>4, <1>5, <2>1
<1>9. QED
  BY <1>7, <1>8

\* Only calls that want both halves of AX have moves to both.
LEMMA NotBoth ==
    ASSUME NEW ms, PlanFor(ms, call), ~BothHalvesOfAX, NEW i, NEW j, i \in DOMAIN ms, j \in DOMAIN ms
    PROVE  {ms[i].dst_reg, ms[j].dst_reg} # Halves("AX")
<1>1. PICK a \in DOMAIN call, b \in DOMAIN call :
        call[a].dst = ms[i].dst_reg /\ call[b].dst = ms[j].dst_reg
  BY DEF PlanFor
<1>2. Halves("AX") = {"AL", "AH"}
  BY DEF Halves, preg_alias_lo, preg_alias_hi
<1>3. QED
  BY <1>1, <1>2 DEF BothHalvesOfAX

\* Marking moves changes nothing of the plan.
LEMMA PlanStays ==
    ASSUME NEW ms, NEW ns, NEW k, NEW c, PlanFor(ms, c), Marked(ms, ns, k)
    PROVE  PlanFor(ns, c)
<1>1. /\ ns \in Seq(Move) /\ DOMAIN ns = DOMAIN ms
      /\ \A i \in DOMAIN ms :
            /\ ns[i].dst_reg = ms[i].dst_reg /\ ns[i].src = ms[i].src
            /\ ns[i].src_dep_reg = ms[i].src_dep_reg /\ ns[i].clobber_reg = ms[i].clobber_reg
  BY DEF Marked
<1>2. QED
  BY <1>1 DEF PlanFor

\* The registers written are registers.
LEMMA OverIs ==
    ASSUME NEW ms, NEW c, NEW rf, NEW u, PlanFor(ms, c), Callable(c, rf)
    PROVE  /\ Over(ms, u) \subseteq Reg
           /\ \A x \in Over(ms, u) : \E a \in DOMAIN c : PushReg(x) = PushReg(c[a].dst)
<1>1. SUFFICES ASSUME NEW i \in Made(ms, u)
               PROVE  /\ Effect(ms[i]) \in Reg
                      /\ \E a \in DOMAIN c : PushReg(Effect(ms[i])) = PushReg(c[a].dst)
  BY DEF Over
<1>2. i \in DOMAIN ms
  BY DEF Made
<1>3. Effect(ms[i]) \in Reg /\ PushReg(Effect(ms[i])) = PushReg(ms[i].dst_reg)
  BY ONLY <1>2, MoveIs, PlanFor(ms, c), Callable(c, rf)
<1>4. QED
  BY <1>2, <1>3 DEF PlanFor

\* What a pending move reads is intact.
LEMMA PendingIntact ==
    ASSUME NEW rf, NEW st, NEW ms, Progress(rf, st, ms, Len(ms)), SourcesKept(ms),
           NEW k, k \in DOMAIN ms, ~ms[k].done
    PROVE  Intact(rf, ms[k].src)
<1>1. PICK over, s : over = Over(ms, Len(ms)) /\ s = ms[k].src
  OBVIOUS
<1>2. /\ PlanFor(ms, call) /\ Callable(call, base.regs) /\ MemFile /\ mem = base.mem
      /\ DataOK(rf, over)
  BY <1>1 DEF Progress
<1>3. s \in Source /\ (s \in Spilled => base.regs["BP"] = FrameBP)
  BY ONLY <1>1, <1>2, MoveIs, k \in DOMAIN ms
<1>4. over \subseteq Reg
  BY ONLY <1>1, <1>2, OverIs
<1>5. \A c \in over : ~preg_write_clobbers(c, planned_move_source_dep_reg(s))
  BY <1>1, <1>2 DEF SourcesKept, PlanFor
<1>6. Intact(rf, s)
  BY ONLY <1>2, <1>3, <1>4, <1>5, SourceIntact
<1>7. QED
  BY <1>1, <1>6

\* While moves are emitted.
MidMoves(rf, st, ms) == Progress(rf, st, ms, Len(ms)) /\ SourcesKept(ms) /\ SavedFirst(ms)

\* Move k is emitted, which overwrites no source still needed.
Emits(ms, ns, rf, rg, k) ==
    /\ k \in DOMAIN ms /\ ~ms[k].done /\ ns = [ms EXCEPT ![k].done = TRUE]
    /\ \A l \in DOMAIN ms : ~ms[l].done /\ l # k =>
           ~preg_write_clobbers(ms[k].clobber_reg, ms[l].src_dep_reg)
    /\ rg = rins_mov_preg_from_vreg(rf, ms[k].dst_reg, ms[k].src)

\* That keeps the invariant.
LEMMA EmitKeeps ==
    ASSUME NEW rf, NEW st, NEW ms, MidMoves(rf, st, ms), NEW k, NEW ns, NEW rg,
           Emits(ms, ns, rf, rg, k)
    PROVE  MidMoves(rg, st, ns)
<1> SUFFICES ASSUME Progress(rf, st, ms, Len(ms)), SourcesKept(ms), SavedFirst(ms),
                    k \in DOMAIN ms, ~ms[k].done, ns = [ms EXCEPT ![k].done = TRUE],
                    \A l \in DOMAIN ms : ~ms[l].done /\ l # k =>
                        ~preg_write_clobbers(ms[k].clobber_reg, ms[l].src_dep_reg),
                    rg = rins_mov_preg_from_vreg(rf, ms[k].dst_reg, ms[k].src)
             PROVE  Progress(rg, st, ns, Len(ns)) /\ SourcesKept(ns) /\ SavedFirst(ns)
  BY DEF MidMoves, Emits
<1>1. PICK d, s, c : d = ms[k].dst_reg /\ s = ms[k].src /\ c = ms[k].clobber_reg
  OBVIOUS
<1>2. /\ PlanFor(ms, call) /\ Callable(call, base.regs) /\ MemFile /\ mem = base.mem
      /\ DataOK(rf, Over(ms, Len(ms))) /\ ms \in Seq(Move)
      /\ c = planned_move_clobber_reg(d, s)
  BY <1>1 DEF Progress, PlanFor
<1>3. Movable(d, s) /\ d \in Reg /\ s \in Source
  BY ONLY <1>1, <1>2, MoveIs, k \in DOMAIN ms
<1>4. ~ms[k].saved
  BY DEF SavedFirst
<1>5. Emitted(ms, ns, k)
  BY ONLY <1>2, Marks, k \in DOMAIN ms, ns = [ms EXCEPT ![k].done = TRUE]
<1>6. /\ Made(ns, Len(ns)) = Made(ms, Len(ms)) \cup {k}
      /\ SavedLeft(ns, Len(ns)) = SavedLeft(ms, Len(ms))
      /\ Over(ns, Len(ns)) = Over(ms, Len(ms)) \cup {c}
  <2>1. ms \in Seq(Move)
    BY <1>2
  <2>2. /\ Made(ns, Len(ns)) = Made(ms, Len(ms)) \cup {k}
        /\ SavedLeft(ns, Len(ns)) = SavedLeft(ms, Len(ms))
        /\ Over(ns, Len(ns)) = Over(ms, Len(ms)) \cup {ms[k].clobber_reg}
    BY ONLY <1>4, <1>5, <2>1, SetsEmitted, k \in DOMAIN ms, ~ms[k].done
  <2>3. QED
    BY ONLY <1>1, <2>2
<1>7. Intact(rf, s)
  BY ONLY <1>1, PendingIntact, Progress(rf, st, ms, Len(ms)), SourcesKept(ms), k \in DOMAIN ms,
          ~ms[k].done
<1>8. RegFile(rf)
  BY <1>2 DEF DataOK
<1>9. Moved(rf, rg, d, s, c)
  BY ONLY <1>1, <1>2, <1>3, <1>8, MoveEffect,
          rg = rins_mov_preg_from_vreg(rf, ms[k].dst_reg, ms[k].src)
<1>10. Wrote(rf, rg, c)
  BY <1>9 DEF Moved, Wrote
<1>11. DataOK(rg, Over(ns, Len(ns)))
  BY ONLY <1>2, <1>6, <1>10, DataStep
<1>12. PlanFor(ns, call)
  <2>1. Marked(ms, ns, k)
    BY <1>5 DEF Emitted
  <2>2. QED
    BY ONLY <1>2, <2>1, PlanStays
<1>13. /\ DOMAIN ns = DOMAIN ms /\ ns[k].done /\ ~ns[k].saved
       /\ \A i \in DOMAIN ms : i # k => ns[i] = ms[i]
       /\ \A i \in DOMAIN ms : ns[i].dst_reg = ms[i].dst_reg /\ ns[i].src = ms[i].src
  BY <1>4, <1>5 DEF Emitted, Marked
<1>14. SourcesKept(ns)
  <2>1. SUFFICES ASSUME NEW i \in DOMAIN ms, ~ns[i].done, NEW x \in Over(ms, Len(ms)) \cup {c}
                 PROVE  ~preg_write_clobbers(x, ns[i].src_dep_reg)
    BY <1>6, <1>13 DEF SourcesKept
  <2>2. i # k /\ ns[i] = ms[i] /\ ~ms[i].done
    BY <1>13, <2>1
  <2>3. QED
    BY <1>1, <2>1, <2>2 DEF SourcesKept
<1>15. SavedFirst(ns)
  BY <1>13 DEF SavedFirst
<1>16. ASSUME ~BothHalvesOfAX PROVE LandedInv(rg, st, ns, Len(ns))
  <2>1. LandedInv(rf, st, ms, Len(ms))
    BY <1>16 DEF Progress
  <2>2. ASSUME NEW i \in Made(ms, Len(ms)) PROVE Landed(rg, ms[i].dst_reg, ms[i].src)
    <3>1. PICK e, t : e = ms[i].dst_reg /\ t = ms[i].src
      OBVIOUS
    <3>2. i \in DOMAIN ms /\ i # k
      BY DEF Made
    <3>3. e \in Reg
      BY ONLY <1>2, <3>1, <3>2, MoveIs
    <3>4. ~pregs_alias(d, e)
      BY <1>1, <1>2, <3>1, <3>2 DEF PlanFor
    <3>5. {d, e} # Halves("AX")
      BY ONLY <1>1, <1>2, <1>16, <3>1, <3>2, NotBoth, k \in DOMAIN ms
    <3>6. c \in Reg /\ ~pregs_alias(c, e)
      BY ONLY <1>2, <1>3, <3>3, <3>4, <3>5, ClobberOf
    <3>7. Landed(rf, e, t)
      BY <2>1, <3>1 DEF LandedInv
    <3>8. Landed(rg, e, t)
      BY ONLY <1>10, <3>3, <3>6, <3>7, LandedStays
    <3>9. QED
      BY <3>1, <3>8
  <2>3. Landed(rg, ms[k].dst_reg, ms[k].src)
    <3>1. Landed(rg, d, s)
      BY ONLY <1>3, <1>7, <1>9, CopyLands
    <3>2. QED
      BY <1>1, <3>1
  <2>4. \A i \in Made(ms, Len(ms)) : i \in DOMAIN ms
    BY DEF Made
  <2>5. \A i \in Made(ns, Len(ns)) : Landed(rg, ns[i].dst_reg, ns[i].src)
    BY <1>6, <1>13, <2>2, <2>3, <2>4
  <2>6. \A i \in DOMAIN ns : ns[i].saved => ~InAXHalf(ns[i].dst_reg)
    BY <1>13, <2>1 DEF LandedInv
  <2>7. \A i \in SavedLeft(ns, Len(ns)) :
           Value(st[Place(SavedLeft(ns, Len(ns)), i)], ns[i].src)
    BY <1>6, <1>13, <2>1 DEF LandedInv, SavedLeft
  <2>8. QED
    BY <2>5, <2>6, <2>7 DEF LandedInv
<1>17. QED
  BY <1>6, <1>11, <1>12, <1>14, <1>15, <1>16 DEF Progress

\* The word pushed for an intact source is its value.
LEMMA PushWord ==
    ASSUME NEW rf, RegFile(rf), MemFile, NEW s, s \in Source,
           NEW w, w = rins_push_vreg_temp(rf, s)
    PROVE  DOMAIN w = 1 .. 2 /\ (Intact(rf, s) => Value(w, s))
<1>1. CASE IsByte(s)
  <2>1. w = <<Byte(rf, s), rf["AX"][2]>>
    BY <1>1 DEF rins_push_vreg_temp
  <2>2. DOMAIN w = 1 .. 2 /\ w[1] = Byte(rf, s)
    BY <2>1
  <2>3. QED
    BY <1>1, <2>2 DEF Intact, Value
<1>2. CASE ~IsByte(s)
  <2>1. w = Word(rf, s) /\ s \notin ByteRegs
    BY <1>2 DEF rins_push_vreg_temp, IsByte
  <2>2. DOMAIN w = 1 .. 2
    BY <2>1, WordDomain
  <2>3. QED
    BY <1>2, <2>1, <2>2 DEF Intact, Value
<1>3. QED
  BY <1>1, <1>2

\* Move k, the first into no half of AX, is saved to the stack.
Saves(ms, ns, rf, st, tt, k) ==
    /\ k \in DOMAIN ms /\ ~ms[k].done /\ ns = [ms EXCEPT ![k].done = TRUE, ![k].saved = TRUE]
    /\ \A l \in DOMAIN ms : ~ms[l].done /\ ~InAXHalf(ms[l].dst_reg) => k <= l
    /\ ~BothHalvesOfAX => ~InAXHalf(ms[k].dst_reg)
    /\ tt = <<rins_push_vreg_temp(rf, ms[k].src)>> \o st

\* That keeps it, too.
LEMMA SaveKeeps ==
    ASSUME NEW rf, NEW st, NEW ms, MidMoves(rf, st, ms), NEW k, NEW ns, NEW tt,
           Saves(ms, ns, rf, st, tt, k)
    PROVE  MidMoves(rf, tt, ns)
<1>0. PICK w : w = rins_push_vreg_temp(rf, ms[k].src)
  OBVIOUS
<1> SUFFICES ASSUME Progress(rf, st, ms, Len(ms)), SourcesKept(ms), SavedFirst(ms),
                    k \in DOMAIN ms, ~ms[k].done,
                    ns = [ms EXCEPT ![k].done = TRUE, ![k].saved = TRUE],
                    \A l \in DOMAIN ms : ~ms[l].done /\ ~InAXHalf(ms[l].dst_reg) => k <= l,
                    ~BothHalvesOfAX => ~InAXHalf(ms[k].dst_reg), tt = <<w>> \o st
             PROVE  Progress(rf, tt, ns, Len(ns)) /\ SourcesKept(ns) /\ SavedFirst(ns)
  BY <1>0 DEF MidMoves, Saves
<1>1. PICK d, s, S, T : /\ d = ms[k].dst_reg /\ s = ms[k].src
                        /\ S = SavedLeft(ms, Len(ms)) /\ T = SavedLeft(ns, Len(ns))
  OBVIOUS
<1>2. /\ PlanFor(ms, call) /\ Callable(call, base.regs) /\ MemFile /\ mem = base.mem
      /\ DataOK(rf, Over(ms, Len(ms))) /\ ms \in Seq(Move)
      /\ IsFiniteSet(S) /\ StackOn(st, base.stack, Cardinality(S))
  BY <1>1 DEF Progress, PlanFor
<1>3. s \in Source
  BY ONLY <1>1, <1>2, MoveIs, k \in DOMAIN ms
<1>4. ~ms[k].saved
  BY DEF SavedFirst
<1>5. Saved(ms, ns, k)
  BY ONLY <1>2, Marks, k \in DOMAIN ms, ns = [ms EXCEPT ![k].done = TRUE, ![k].saved = TRUE]
<1>6. /\ Made(ns, Len(ns)) = Made(ms, Len(ms)) /\ T = S \cup {k} /\ k \notin S
      /\ Over(ns, Len(ns)) = Over(ms, Len(ms))
  <2>1. ms \in Seq(Move)
    BY <1>2
  <2>2. /\ Made(ns, Len(ns)) = Made(ms, Len(ms))
        /\ SavedLeft(ns, Len(ns)) = SavedLeft(ms, Len(ms)) \cup {k}
        /\ k \notin SavedLeft(ms, Len(ms))
        /\ Over(ns, Len(ns)) = Over(ms, Len(ms))
    BY ONLY <1>4, <1>5, <2>1, SetsSaved, k \in DOMAIN ms, ~ms[k].done
  <2>3. QED
    BY ONLY <1>1, <2>2
<1>7. Intact(rf, s)
  BY ONLY <1>1, PendingIntact, Progress(rf, st, ms, Len(ms)), SourcesKept(ms), k \in DOMAIN ms,
          ~ms[k].done
<1>8. DOMAIN w = 1 .. 2 /\ Value(w, s)
  <2>1. RegFile(rf)
    BY <1>2 DEF DataOK
  <2>2. w = rins_push_vreg_temp(rf, s)
    BY <1>0, <1>1
  <2>3. QED
    BY ONLY <1>2, <1>3, <1>7, <2>1, <2>2, PushWord
<1>9. PlanFor(ns, call)
  <2>1. Marked(ms, ns, k)
    BY <1>5 DEF Saved
  <2>2. QED
    BY ONLY <1>2, <2>1, PlanStays
<1>10. /\ DOMAIN ns = DOMAIN ms /\ ns[k].done /\ ns[k].saved
       /\ \A i \in DOMAIN ms : i # k => ns[i] = ms[i]
       /\ \A i \in DOMAIN ms : /\ ns[i].dst_reg = ms[i].dst_reg /\ ns[i].src = ms[i].src
                               /\ ns[i].src_dep_reg = ms[i].src_dep_reg
  BY <1>5 DEF Saved, Marked
<1>11. PICK n : n = Cardinality(S) /\ n \in Nat
  BY <1>2, FS_CardinalityType
<1>12. Cardinality(T) = n + 1 /\ IsFiniteSet(T)
  BY ONLY <1>2, <1>6, <1>11, FS_AddElement
<1>13. /\ StackOn(tt, base.stack, n + 1) /\ tt[1] = w
       /\ \A p \in 1 .. n : tt[p + 1] = st[p]
  <2>1. StackOn(st, base.stack, n)
    BY <1>2, <1>11
  <2>2. QED
    <3>1. tt = Push(w, st)
      BY DEF Push
    <3>2. QED
      BY ONLY <1>8, <2>1, <3>1, PushOn
<1>14. SourcesKept(ns)
  BY <1>6, <1>10 DEF SourcesKept
<1>15. SavedFirst(ns)
  <2>1. \A i \in DOMAIN ns : ns[i].saved => ns[i].done
    BY <1>10 DEF SavedFirst
  <2>2. ASSUME NEW i \in DOMAIN ns, NEW j \in DOMAIN ns, ns[i].saved, ~ns[j].done,
               ~InAXHalf(ns[j].dst_reg)
        PROVE  i < j
    <3>1. j # k /\ ~ms[j].done /\ ~InAXHalf(ms[j].dst_reg)
      BY <1>10, <2>2
    <3>2. CASE i = k
      <4>1. k <= j
        BY <1>10, <3>1
      <4>2. k \in Nat /\ j \in Nat
        BY <1>2, <1>10
      <4>3. QED
        BY ONLY <3>1, <3>2, <4>1, <4>2
    <3>3. CASE i # k
      BY <1>10, <2>2, <3>1, <3>3 DEF SavedFirst
    <3>4. QED
      BY <3>2, <3>3
  <2>3. QED
    BY <2>1, <2>2 DEF SavedFirst
<1>16. ASSUME ~BothHalvesOfAX PROVE LandedInv(rf, tt, ns, Len(ns))
  <2>1. LandedInv(rf, st, ms, Len(ms)) /\ ~InAXHalf(d)
    BY <1>1, <1>16 DEF Progress
  <2>2. S \subseteq DOMAIN ms /\ \A i \in S : ms[i].saved
    BY <1>1 DEF SavedLeft
  <2>3. \A i \in S : i < k
    BY <1>1, <2>1, <2>2 DEF SavedFirst
  <2>4. S \subseteq Nat /\ k \in Nat
    BY <1>2, <2>2
  <2>5. Place(T, k) = 1 /\ \A i \in S : Place(T, i) = Place(S, i) + 1 /\ Place(S, i) \in 1 .. n
    <3>1. After(S, k)
      BY <1>2, <2>3, <2>4 DEF After
    <3>2. T = S \cup {k}
      BY <1>6
    <3>3. /\ Place(T, k) = 1
          /\ \A i \in S : /\ Place(T, i) = Place(S, i) + 1
                          /\ Place(S, i) \in 1 .. Cardinality(S)
      BY ONLY <3>1, <3>2, PlaceUp
    <3>4. QED
      BY ONLY <1>11, <3>3
  <2>6. ASSUME NEW i \in T PROVE Value(tt[Place(T, i)], ns[i].src)
    <3>1. CASE i = k
      <4>1. tt[Place(T, i)] = w
        BY ONLY <1>13, <2>5, <3>1
      <4>2. ns[i].src = s
        BY <1>1, <1>10, <3>1
      <4>3. QED
        BY ONLY <1>8, <4>1, <4>2
    <3>2. CASE i # k
      <4>1. i \in S /\ ns[i].src = ms[i].src
        BY <1>6, <1>10, <2>2, <3>2
      <4>2. tt[Place(T, i)] = st[Place(S, i)]
        BY <1>13, <2>5, <4>1
      <4>3. Value(st[Place(S, i)], ms[i].src)
        BY <1>1, <2>1, <4>1 DEF LandedInv
      <4>4. QED
        BY ONLY <4>1, <4>2, <4>3
    <3>3. QED
      BY <3>1, <3>2
  <2>7. \A i \in Made(ms, Len(ms)) : i \in DOMAIN ms
    BY DEF Made
  <2>8. \A i \in Made(ns, Len(ns)) : Landed(rf, ns[i].dst_reg, ns[i].src)
    BY <1>6, <1>10, <2>1, <2>7 DEF LandedInv
  <2>9. \A i \in DOMAIN ns : ns[i].saved => ~InAXHalf(ns[i].dst_reg)
    BY <1>1, <1>10, <2>1 DEF LandedInv
  <2>10. QED
    BY <1>1, <2>6, <2>8, <2>9 DEF LandedInv
<1>17. QED
  BY <1>1, <1>2, <1>6, <1>9, <1>12, <1>13, <1>14, <1>15, <1>16 DEF Progress

\* Popping the highest saved move keeps it.
LEMMA PopKeeps ==
    ASSUME NEW rf, NEW st, NEW ms, NEW k, k \in DOMAIN ms, Progress(rf, st, ms, k), AllDone(ms)
    PROVE  /\ ~ms[k].saved => Progress(rf, st, ms, k - 1)
           /\ ms[k].saved =>
                 Progress(PopInto(rf, ms[k].dst_reg, Head(st)), Tail(st), ms, k - 1)
<1>1. PICK d, s, S, T : /\ d = ms[k].dst_reg /\ s = ms[k].src
                        /\ S = SavedLeft(ms, k - 1) /\ T = SavedLeft(ms, k)
  OBVIOUS
<1>2. /\ PlanFor(ms, call) /\ Callable(call, base.regs) /\ MemFile /\ mem = base.mem
      /\ DataOK(rf, Over(ms, k)) /\ ms \in Seq(Move)
      /\ IsFiniteSet(T) /\ StackOn(st, base.stack, Cardinality(T))
  BY <1>1 DEF Progress, PlanFor
<1>3. ms[k].done
  BY DEF AllDone
<1>4. d \in Reg
  BY ONLY <1>1, <1>2, MoveIs, k \in DOMAIN ms
<1>5. CASE ~ms[k].saved
  <2>1. /\ Made(ms, k - 1) = Made(ms, k) /\ SavedLeft(ms, k - 1) = SavedLeft(ms, k)
        /\ Over(ms, k - 1) = Over(ms, k)
    <3>1. ms \in Seq(Move)
      BY <1>2
    <3>2. QED
      BY ONLY <1>3, <1>5, <3>1, SetsPopped, k \in DOMAIN ms
  <2>2. Progress(rf, st, ms, k - 1)
    BY <2>1 DEF Progress, LandedInv
  <2>3. QED
    BY <1>5, <2>2
<1>6. CASE ms[k].saved
  <2>1. /\ Made(ms, k - 1) = Made(ms, k) \cup {k} /\ T = S \cup {k} /\ k \notin S
        /\ \A i \in S : i < k
        /\ Over(ms, k - 1) = Over(ms, k) \cup {Popped_reg(d)}
    <3>1. ms \in Seq(Move)
      BY <1>2
    <3>2. /\ Made(ms, k - 1) = Made(ms, k) \cup {k}
          /\ SavedLeft(ms, k) = SavedLeft(ms, k - 1) \cup {k}
          /\ k \notin SavedLeft(ms, k - 1)
          /\ \A i \in SavedLeft(ms, k - 1) : i < k
          /\ Over(ms, k - 1) = Over(ms, k) \cup {Popped_reg(ms[k].dst_reg)}
      BY ONLY <1>3, <1>6, <3>1, SetsPopped, k \in DOMAIN ms
    <3>3. QED
      BY ONLY <1>1, <3>2
  <2>2. S \subseteq Nat /\ k \in Nat /\ S \subseteq DOMAIN ms
    BY <1>1, <1>2 DEF SavedLeft
  <2>3. IsFiniteSet(S)
    BY ONLY <1>2, <2>1, FS_Subset
  <2>4. PICK n : n = Cardinality(S) /\ n \in Nat
    BY <2>3, FS_CardinalityType
  <2>5. Cardinality(T) = n + 1
    BY ONLY <2>1, <2>3, <2>4, FS_AddElement
  <2>6. /\ StackOn(Tail(st), base.stack, n) /\ Head(st) = st[1] /\ DOMAIN st[1] = 1 .. 2
        /\ \A p \in 1 .. n : Tail(st)[p] = st[p + 1]
    <3>1. StackOn(st, base.stack, n + 1)
      BY <1>2, <2>5
    <3>2. QED
      BY ONLY <2>4, <3>1, PopOn
  <2>7. PICK w, rg, tt : w = Head(st) /\ rg = PopInto(rf, d, w) /\ tt = Tail(st)
    OBVIOUS
  <2>8. RegFile(rf) /\ DOMAIN w = 1 .. 2
    BY <1>2, <2>6, <2>7 DEF DataOK
  <2>9. PICK c : /\ c = Popped_reg(d) /\ Wrote(rf, rg, c) /\ c \in Reg /\ PushReg(c) = PushReg(d)
                 /\ ~InAXHalf(d) => Byte(rg, d) = w[1] /\ (d \in Wide => rg[d] = w)
    <3>1. PICK c : c = Popped_reg(d)
      OBVIOUS
    <3>2. rg = PopInto(rf, d, w)
      BY <2>7
    <3>3. /\ Wrote(rf, rg, c) /\ c \in Reg /\ PushReg(c) = PushReg(d)
          /\ ~InAXHalf(d) => Byte(rg, d) = w[1] /\ (d \in Wide => rg[d] = w)
      BY ONLY <1>4, <2>8, <3>1, <3>2, PopEffect
    <3>4. QED
      BY ONLY <3>1, <3>3
  <2>10. DataOK(rg, Over(ms, k - 1))
    <3>1. DataOK(rg, Over(ms, k) \cup {c})
      BY ONLY <1>2, <2>9, DataStep
    <3>2. QED
      BY ONLY <2>1, <2>9, <3>1
  <2>11. ASSUME ~BothHalvesOfAX PROVE LandedInv(rg, tt, ms, k - 1)
    <3>1. LandedInv(rf, st, ms, k)
      BY <2>11 DEF Progress
    <3>2. ~InAXHalf(d) /\ c = d
      BY <1>1, <1>6, <2>9, <3>1 DEF LandedInv, Popped_reg
    <3>3. Place(T, k) = 1 /\ \A i \in S : Place(T, i) = Place(S, i) + 1 /\ Place(S, i) \in 1 .. n
      <4>1. After(S, k)
        BY <2>1, <2>2, <2>3 DEF After
      <4>2. QED
        BY ONLY <2>1, <2>4, <4>1, PlaceUp
    <3>4. Value(w, s)
      <4>1. k \in T
        BY <2>1
      <4>2. Value(st[Place(T, k)], s)
        BY <1>1, <3>1, <4>1 DEF LandedInv
      <4>3. QED
        BY <2>6, <2>7, <3>3, <4>2
    <3>5. Landed(rg, d, s)
      BY <2>9, <3>2, <3>4 DEF Landed, Value
    <3>6. ASSUME NEW i \in Made(ms, k) PROVE Landed(rg, ms[i].dst_reg, ms[i].src)
      <4>1. PICK e, t : e = ms[i].dst_reg /\ t = ms[i].src
        OBVIOUS
      <4>2. i \in DOMAIN ms /\ i # k
        <5>1. i \in DOMAIN ms /\ (ms[i].saved => k < i)
          BY DEF Made
        <5>2. ~(k < k)
          BY ONLY <2>2
        <5>3. QED
          BY <1>6, <5>1, <5>2
      <4>3. e \in Reg
        BY ONLY <1>2, <4>1, <4>2, MoveIs
      <4>4. ~pregs_alias(d, e)
        BY <1>1, <1>2, <4>1, <4>2 DEF PlanFor
      <4>5. Landed(rf, e, t)
        BY <3>1, <4>1 DEF LandedInv
      <4>6. Landed(rg, e, t)
        BY ONLY <2>9, <3>2, <4>3, <4>4, <4>5, LandedStays
      <4>7. QED
        BY <4>1, <4>6
    <3>7. ASSUME NEW i \in S PROVE Value(tt[Place(S, i)], ms[i].src)
      <4>1. tt[Place(S, i)] = st[Place(T, i)]
        BY <2>6, <2>7, <3>3
      <4>2. Value(st[Place(T, i)], ms[i].src)
        BY <1>1, <2>1, <3>1 DEF LandedInv
      <4>3. QED
        BY <4>1, <4>2
    <3>8. QED
      BY <1>1, <2>1, <3>1, <3>5, <3>6, <3>7 DEF LandedInv
  <2>12. Progress(rg, tt, ms, k - 1)
    <3>1. StackOn(tt, base.stack, Cardinality(S))
      BY <2>4, <2>6, <2>7
    <3>2. QED
      BY <1>1, <1>2, <2>3, <2>10, <2>11, <3>1 DEF Progress
  <2>13. QED
    BY <1>1, <1>6, <2>7, <2>12
<1>7. QED
  BY <1>5, <1>6

-----------------------------------------------------------------------------
(* The steps of the moves. *)

\* Lowest is what it says.
LEMMA LowestIs ==
    ASSUME NEW S, S \subseteq Nat, S # {}
    PROVE  Lowest(S) \in S /\ \A l \in S : Lowest(S) <= l
<1>1. \E k \in S : \A l \in S : k <= l
  BY ONLY SmallestElement, S \subseteq Nat, S # {}
<1>2. QED
  BY <1>1 DEF Lowest

\* What is said of the registers and the stack after a step stays true with the rest
\* of the state unchanged.
LEMMA Carried ==
    ASSUME UNCHANGED <<call, mem, base>>, NEW u, Progress(regs', stack', moves', u)
    PROVE  Progress(regs, stack, moves, u)'
<1>1. call' = call /\ mem' = mem /\ base' = base
  OBVIOUS
<1>2. DataOK(regs, Over(moves, u))'
  <2>1. DataOK(regs', Over(moves', u))
    BY DEF Progress
  <2>2. QED
    BY <1>1, <2>1 DEF DataOK
<1>3. ASSUME (~BothHalvesOfAX)' PROVE LandedInv(regs, stack, moves, u)'
  <2>1. ~BothHalvesOfAX
    BY <1>1, <1>3 DEF BothHalvesOfAX
  <2>2. LandedInv(regs', stack', moves', u)
    BY <2>1 DEF Progress
  <2>3. ASSUME NEW i \in Made(moves', u) PROVE Landed(regs, moves[i].dst_reg, moves[i].src)'
    <3>1. Landed(regs', moves'[i].dst_reg, moves'[i].src)
      BY <2>2 DEF LandedInv
    <3>2. QED
      BY <1>1, <3>1 DEF Landed, Byte, Word, Before
  <2>4. ASSUME NEW i \in SavedLeft(moves', u)
        PROVE  Value(stack[Place(SavedLeft(moves, u), i)], moves[i].src)'
    <3>1. Value(stack'[Place(SavedLeft(moves', u), i)], moves'[i].src)
      BY <2>2 DEF LandedInv
    <3>2. QED
      BY <1>1, <3>1 DEF Value, Before
  <2>5. QED
    BY <2>2, <2>3, <2>4 DEF LandedInv
<1>4. (mem = base.mem /\ MemFile)'
  BY <1>1 DEF Progress, MemFile
<1>5. Callable(call, base.regs)' /\ PlanFor(moves, call)'
  BY <1>1 DEF Progress
<1>6. /\ IsFiniteSet(SavedLeft(moves, u))'
      /\ StackOn(stack, base.stack, Cardinality(SavedLeft(moves, u)))'
  BY <1>1 DEF Progress
<1>7. QED
  BY <1>2, <1>3, <1>4, <1>5, <1>6 DEF Progress

\* The moves of a call that can be made are planned.
LEMMA StartInv ==
    ASSUME RegFile(regs), MemFile, Sequence(stack), NEW c, Callable(c, regs), StartMoves(c),
           UNCHANGED <<regs, mem, stack>>
    PROVE  MovesInv'
<1>1. PICK ms, b : ms = moves' /\ b = base'
  OBVIOUS
<1>2. /\ pc' = "moves" /\ call' = c /\ ms = PlannedMoves(c)
      /\ b.regs = regs /\ b.mem = mem /\ b.stack = stack
      /\ regs' = regs /\ mem' = mem /\ stack' = stack
  BY <1>1 DEF StartMoves
<1>3. PlanFor(ms, c) /\ \A i \in DOMAIN ms : ~ms[i].done /\ ~ms[i].saved
  BY ONLY <1>2, PlanMade, Callable(c, regs)
<1>4. /\ \A u : Made(ms, u) = {} /\ SavedLeft(ms, u) = {}
      /\ \A u : Over(ms, u) = {}
  BY <1>3 DEF Made, SavedLeft, Over
<1>5. DataOK(regs, Over(moves, Len(moves)))'
  BY <1>1, <1>2, <1>4 DEF DataOK, RegFile
<1>6. IsFiniteSet(SavedLeft(moves, Len(moves)))' /\ Cardinality(SavedLeft(ms, Len(ms))) = 0
  BY <1>1, <1>4, FS_EmptySet
<1>7. StackOn(stack, base.stack, Cardinality(SavedLeft(moves, Len(moves))))'
  <2>1. PICK S : stack \in Seq(S)
    BY DEF Sequence
  <2>2. Len(stack) \in Nat /\ Len(stack) = 0 + Len(stack)
        /\ \A k \in 1 .. Len(stack) : stack[0 + k] = stack[k]
    BY <2>1
  <2>3. StackOn(stack, stack, 0)
    BY <2>2 DEF StackOn
  <2>4. QED
    BY <1>1, <1>2, <1>6, <2>3
<1>8. LandedInv(regs, stack, moves, Len(moves))'
  BY <1>1, <1>3, <1>4 DEF LandedInv
<1>9. (mem = base.mem /\ MemFile)'
  BY <1>1, <1>2 DEF MemFile
<1>10. PlanFor(moves, call)' /\ Callable(call, base.regs)'
  BY <1>1, <1>2, <1>3
<1>11. Progress(regs, stack, moves, Len(moves))'
  BY <1>5, <1>6, <1>7, <1>8, <1>9, <1>10 DEF Progress
<1>12. SourcesKept(moves)' /\ SavedFirst(moves)'
  BY <1>1, <1>3, <1>4 DEF SourcesKept, SavedFirst
<1>13. QED
  BY <1>2, <1>11, <1>12 DEF MovesInv

\* Every step of the moves keeps their invariant.
LEMMA MovesStep ==
    ASSUME MovesInv, MoveStep
    PROVE  MovesInv'
<1>1. CASE EmitMove
  <2>1. /\ pc = "moves" /\ pc' = "moves" /\ Free # {} /\ stack' = stack
        /\ UNCHANGED <<call, mem, base>>
    BY <1>1 DEF EmitMove
  <2>2. /\ Progress(regs, stack, moves, Len(moves)) /\ SourcesKept(moves) /\ SavedFirst(moves)
    BY <2>1 DEF MovesInv
  <2>3. PICK k : /\ k = Lowest(Free) /\ moves' = [moves EXCEPT ![k].done = TRUE]
                 /\ regs' = rins_mov_preg_from_vreg(regs, moves[k].dst_reg, moves[k].src)
    BY <1>1 DEF EmitMove
  <2>4. k \in Free
    <3>1. Free \subseteq DOMAIN moves /\ DOMAIN moves \subseteq Nat
      BY <2>2 DEF Free, Pending, Progress, PlanFor
    <3>2. QED
      BY <2>1, <2>3, <3>1, LowestIs
  <2>5. /\ k \in DOMAIN moves /\ ~moves[k].done
        /\ \A l \in DOMAIN moves : ~moves[l].done /\ l # k =>
               ~preg_write_clobbers(moves[k].clobber_reg, moves[l].src_dep_reg)
    BY <2>4 DEF Free, Pending
  <2>6. Progress(regs', stack', moves', Len(moves')) /\ SourcesKept(moves') /\ SavedFirst(moves')
    <3>1. MidMoves(regs, stack, moves)
      BY ONLY <2>2 DEF MidMoves
    <3>2. Emits(moves, moves', regs, regs', k)
      BY ONLY <2>3, <2>5 DEF Emits
    <3>3. MidMoves(regs', stack, moves')
      BY ONLY <3>1, <3>2, EmitKeeps
    <3>4. QED
      BY <2>1, <3>3 DEF MidMoves
  <2>7. Progress(regs, stack, moves, Len(moves))'
    BY <2>1, <2>6, Carried
  <2>8. SourcesKept(moves)' /\ SavedFirst(moves)'
    BY <2>6
  <2>9. QED
    BY <2>1, <2>7, <2>8 DEF MovesInv
<1>2. CASE SaveMove
  <2>1. /\ pc = "moves" /\ pc' = "moves" /\ Pending # {} /\ Free = {} /\ regs' = regs
        /\ UNCHANGED <<call, mem, base>>
    BY <1>2 DEF SaveMove
  <2>2. /\ Progress(regs, stack, moves, Len(moves)) /\ SourcesKept(moves) /\ SavedFirst(moves)
    BY <2>1 DEF MovesInv
  <2>3. PICK k, w : /\ k = CyclePick /\ w = rins_push_vreg_temp(regs, moves[k].src)
                    /\ moves' = [moves EXCEPT ![k].done = TRUE, ![k].saved = TRUE]
                    /\ stack' = <<w>> \o stack
    BY <1>2 DEF SaveMove
  <2>4. PICK other : other = {l \in Pending : ~InAXHalf(moves[l].dst_reg)}
    OBVIOUS
  <2>5. Pending \subseteq DOMAIN moves /\ DOMAIN moves \subseteq Nat
    BY <2>2 DEF Pending, Progress, PlanFor
  <2>6. k = Lowest(IF other # {} THEN other ELSE Pending)
    BY <2>3, <2>4 DEF CyclePick
  <2>7. k \in Pending /\ \A l \in other : k <= l
    <3>1. CASE other # {}
      BY <2>4, <2>5, <2>6, <3>1, LowestIs
    <3>2. CASE other = {}
      BY <2>1, <2>5, <2>6, <3>2, LowestIs
    <3>3. QED
      BY <3>1, <3>2
  <2>8. k \in DOMAIN moves /\ ~moves[k].done
    BY <2>7 DEF Pending
  <2>9. \A l \in DOMAIN moves : ~moves[l].done /\ ~InAXHalf(moves[l].dst_reg) => k <= l
    BY <2>4, <2>7 DEF Pending
  <2>10. ASSUME ~BothHalvesOfAX PROVE ~InAXHalf(moves[k].dst_reg)
    <3>1. SUFFICES ASSUME InAXHalf(moves[k].dst_reg) PROVE FALSE
      OBVIOUS
    <3>2. other = {}
      <4>1. SUFFICES ASSUME other # {} PROVE FALSE
        OBVIOUS
      <4>2. k \in other
        BY <2>4, <2>5, <2>6, <4>1, LowestIs
      <4>3. QED
        BY <2>4, <3>1, <4>2
    <3>3. PICK l \in Pending : l # k
      BY <2>1, <2>7 DEF Free
    <3>4. InAXHalf(moves[l].dst_reg) /\ l \in DOMAIN moves
      BY <2>4, <2>5, <3>2
    <3>5. PlanFor(moves, call) /\ Callable(call, base.regs)
      BY <2>2 DEF Progress
    <3>6. moves[k].dst_reg # moves[l].dst_reg
      <4>1. moves[k].dst_reg \in Reg
        BY ONLY <2>8, <3>5, MoveIs
      <4>2. ~pregs_alias(moves[k].dst_reg, moves[l].dst_reg)
        BY <2>8, <3>3, <3>4, <3>5 DEF PlanFor
      <4>3. QED
        BY <4>1, <4>2, Sharing
    <3>7. {moves[k].dst_reg, moves[l].dst_reg} = Halves("AX")
      BY <3>1, <3>4, <3>6 DEF InAXHalf, Halves
    <3>8. {moves[k].dst_reg, moves[l].dst_reg} # Halves("AX")
      BY ONLY <2>8, <2>10, <3>4, <3>5, NotBoth
    <3>9. QED
      BY <3>7, <3>8
  <2>11. Progress(regs', stack', moves', Len(moves')) /\ SourcesKept(moves') /\ SavedFirst(moves')
    <3>1. MidMoves(regs, stack, moves)
      BY ONLY <2>2 DEF MidMoves
    <3>2. Saves(moves, moves', regs, stack, stack', k)
      BY ONLY <2>3, <2>8, <2>9, <2>10 DEF Saves
    <3>3. MidMoves(regs, stack', moves')
      BY ONLY <3>1, <3>2, SaveKeeps
    <3>4. QED
      BY <2>1, <3>3 DEF MidMoves
  <2>12. Progress(regs, stack, moves, Len(moves))'
    BY <2>1, <2>11, Carried
  <2>13. SourcesKept(moves)' /\ SavedFirst(moves)'
    BY <2>11
  <2>14. QED
    BY <2>1, <2>12, <2>13 DEF MovesInv
<1>3. CASE StartPops
  <2>1. /\ pc = "moves" /\ pc' = "pops" /\ mi' = Len(moves) /\ Pending = {} /\ regs' = regs
        /\ stack' = stack /\ moves' = moves /\ UNCHANGED <<call, mem, base>>
    BY <1>3 DEF StartPops
  <2>2. Progress(regs, stack, moves, Len(moves)) /\ Len(moves) \in Nat
    BY <2>1 DEF MovesInv, Progress, PlanFor
  <2>3. Progress(regs', stack', moves', mi')
    BY <2>1, <2>2
  <2>4. Progress(regs, stack, moves, mi)'
    BY <2>1, <2>3, Carried
  <2>5. AllDone(moves)' /\ mi' \in 0 .. Len(moves')
    BY <2>1, <2>2 DEF AllDone, Pending
  <2>6. QED
    BY <2>1, <2>4, <2>5 DEF MovesInv
<1>4. CASE PopSaved
  <2>1. /\ pc = "pops" /\ pc' = "pops" /\ mi' = mi - 1 /\ mi > 0
        /\ moves' = moves /\ UNCHANGED <<call, mem, base>>
    BY <1>4 DEF PopSaved
  <2>2. Progress(regs, stack, moves, mi) /\ AllDone(moves) /\ mi \in 0 .. Len(moves)
        /\ Len(moves) \in Nat /\ DOMAIN moves = 1 .. Len(moves)
    BY <2>1 DEF MovesInv, Progress, PlanFor
  <2>3. mi \in DOMAIN moves /\ mi - 1 \in 0 .. Len(moves)
    BY <2>1, <2>2
  <2>4. PICK k : k = mi
    OBVIOUS
  <2>5. /\ ~moves[k].saved => Progress(regs, stack, moves, k - 1)
        /\ moves[k].saved =>
              Progress(PopInto(regs, moves[k].dst_reg, Head(stack)), Tail(stack), moves, k - 1)
    <3>1. k \in DOMAIN moves /\ Progress(regs, stack, moves, k) /\ AllDone(moves)
      BY <2>2, <2>3, <2>4
    <3>2. QED
      BY ONLY <3>1, PopKeeps
  <2>6. Progress(regs', stack', moves', mi')
    <3>1. CASE moves[k].saved
      <4>1. regs' = PopInto(regs, moves[k].dst_reg, Head(stack)) /\ stack' = Tail(stack)
        BY <1>4, <2>4, <3>1 DEF PopSaved
      <4>2. QED
        BY <2>1, <2>4, <2>5, <3>1, <4>1
    <3>2. CASE ~moves[k].saved
      <4>1. regs' = regs /\ stack' = stack
        BY <1>4, <2>4, <3>2 DEF PopSaved
      <4>2. QED
        BY <2>1, <2>4, <2>5, <3>2, <4>1
    <3>3. QED
      BY <3>1, <3>2
  <2>7. Progress(regs, stack, moves, mi)'
    BY <2>1, <2>6, Carried
  <2>8. AllDone(moves)' /\ mi' \in 0 .. Len(moves')
    BY <2>1, <2>2, <2>3
  <2>9. QED
    BY <2>1, <2>7, <2>8 DEF MovesInv
<1>5. CASE EndPops
  <2>1. /\ pc = "pops" /\ pc' = "placed" /\ mi = 0 /\ regs' = regs
        /\ stack' = stack /\ moves' = moves /\ UNCHANGED <<call, mem, base>>
    BY <1>5 DEF EndPops
  <2>2. Progress(regs', stack', moves', 0) /\ AllDone(moves)
    BY <2>1 DEF MovesInv
  <2>3. Progress(regs, stack, moves, 0)'
    BY <2>1, <2>2, Carried
  <2>4. AllDone(moves)'
    BY <2>1, <2>2
  <2>5. QED
    BY <2>1, <2>3, <2>4 DEF MovesInv
<1>6. QED
  BY <1>1, <1>2, <1>3, <1>4, <1>5 DEF MoveStep

-----------------------------------------------------------------------------
(* Where moves start: calls, and near indirect tail calls. *)

\* The elements of a sequence over T are in T.
LEMMA ElementsIn ==
    ASSUME NEW T, NEW c, c \in Seq(T)
    PROVE  \A a \in DOMAIN c : c[a] \in T
  OBVIOUS

\* A sequence all of whose elements are in U is one over U.
LEMMA OverElements ==
    ASSUME NEW T, NEW U, NEW c, c \in Seq(T), \A a \in DOMAIN c : c[a] \in U
    PROVE  c \in Seq(U)
<1>1. c = [a \in 1 .. Len(c) |-> c[a]] /\ Len(c) \in Nat /\ DOMAIN c = 1 .. Len(c)
  OBVIOUS
<1>2. PICK n : n = Len(c) /\ n \in Nat
  BY <1>1
<1>3. [a \in 1 .. n |-> c[a]] \in Seq(U)
  BY <1>1, <1>2, IsASeq
<1>4. QED
  BY <1>1, <1>2, <1>3

\* A sequence of arguments, all in registers and apart, can be placed.
LEMMA Placeable ==
    ASSUME NEW c, NEW rf, Passes(c), \A a \in DOMAIN c : c[a].dst # STACK,
           \A a \in DOMAIN c : c[a].src \in Spilled => rf["BP"] = FrameBP,
           \A a, b \in DOMAIN c : a # b => ~pregs_alias(c[a].dst, c[b].dst)
    PROVE  Callable(c, rf)
<1>1. /\ c \in Seq([src : Source, dst : Reg \cup {STACK}])
      /\ \A a \in DOMAIN c : c[a].dst \in SegRegs => ~IsByte(c[a].src)
  BY DEF Passes
<1>2. DOMAIN c = 1 .. Len(c) /\ Len(c) \in Nat /\ c = [a \in 1 .. Len(c) |-> c[a]]
  BY <1>1
<1>3. \A a \in DOMAIN c : c[a] \in [src : Source, dst : Reg \cup {STACK}]
  BY ONLY <1>1, ElementsIn
<1>4. \A a \in DOMAIN c : c[a] \in [src : Source, dst : Reg]
  BY <1>3
<1>5. c \in Seq([src : Source, dst : Reg])
  <2>1. PICK T, U : /\ T = [src : Source, dst : Reg \cup {STACK}] /\ U = [src : Source, dst : Reg]
                    /\ c \in Seq(T) /\ \A a \in DOMAIN c : c[a] \in U
    BY ONLY <1>1, <1>4
  <2>2. c \in Seq(T) /\ \A a \in DOMAIN c : c[a] \in U
    BY <2>1
  <2>3. c \in Seq(U)
    BY ONLY <2>2, OverElements
  <2>4. QED
    BY ONLY <2>1, <2>3
<1>6. \A a \in DOMAIN c : Movable(c[a].dst, c[a].src)
  BY <1>1, <1>4 DEF Movable
<1>7. QED
  BY <1>5, <1>6 DEF Callable

\* The register arguments of a site can be.
LEMMA SiteCallable ==
    ASSUME NEW s, \E F \in Sites : s \in F, NEW rf, rf["BP"] = FrameBP
    PROVE  Callable(RegArgs(s), rf)
<1>1. Passes(s.args) /\ Allocated(s)
  BY SitesAssumption
<1>2. PICK args, T : args = s.args /\ T = [src : Source, dst : Reg \cup {STACK}]
  OBVIOUS
<1>3. /\ args \in Seq(T) /\ DOMAIN args = 1 .. Len(args) /\ Len(args) \in Nat
      /\ \A k \in DOMAIN args : args[k].dst \in SegRegs => ~IsByte(args[k].src)
  BY <1>1, <1>2 DEF Passes
<1>4. \A j, k \in DOMAIN args :
         j # k /\ args[j].dst # STACK /\ args[k].dst # STACK => ~pregs_alias(args[j].dst, args[k].dst)
  BY <1>1, <1>2 DEF Allocated, Apart
<1>5. PICK P : P = {k \in DOMAIN args : args[k].dst # STACK}
  OBVIOUS
<1>6. PICK c : c = Picked(args, P)
  OBVIOUS
<1>7. P \in SUBSET (1 .. Len(args))
  BY <1>3, <1>5
<1>8. PICK pos : c \in Seq(T) /\ pos \in Seq(1 .. Len(args)) /\ Picks(args, P, Len(args), c, pos)
  BY ONLY <1>3, <1>6, <1>7, PickedIs
<1>9. /\ DOMAIN c = 1 .. Len(c) /\ Len(c) \in Nat /\ Len(pos) = Len(c)
      /\ \A k \in DOMAIN c : pos[k] \in P /\ c[k] = args[pos[k]]
  BY <1>8 DEF Picks
<1>10. \A k \in DOMAIN c : pos[k] \in DOMAIN args /\ c[k] = args[pos[k]] /\ c[k].dst # STACK
  BY <1>5, <1>9
<1>11. \A j, k \in DOMAIN c : j # k => pos[j] # pos[k]
  <2>1. \A j, k \in 1 .. Len(pos) : j < k => pos[j] < pos[k]
    BY <1>8 DEF Picks
  <2>2. \A k \in 1 .. Len(pos) : pos[k] \in 1 .. Len(args)
    BY <1>8
  <2>3. QED
    BY <1>3, <1>9, <2>1, <2>2
<1>12. \A j, k \in DOMAIN c : j # k => ~pregs_alias(c[j].dst, c[k].dst)
  BY <1>4, <1>10, <1>11
<1>13. Passes(c)
  BY <1>2, <1>3, <1>8, <1>10 DEF Passes
<1>14. Callable(c, rf)
  BY <1>10, <1>12, <1>13, Placeable
<1>15. c = RegArgs(s)
  BY <1>2, <1>5, <1>6 DEF RegArgs
<1>16. QED
  BY <1>14, <1>15

\* The arguments of a near tail call can be.
LEMMA TailCallable ==
    ASSUME \E F \in Fns : fn \in F, fn.exit = "ntail", NEW rf, fn.frame => rf["BP"] = FrameBP
    PROVE  Callable([k \in DOMAIN fn.out |-> [src |-> SrcLoc(k), dst |-> fn.out[k].dst]], rf)
<1>1. /\ fn.params \in Seq([exp : Reg \cup {STACK}, act : Reg \cup Spilled])
      /\ fn.out \in Seq([p : DOMAIN fn.params, dst : Reg \cup {STACK}])
      /\ Passes([k \in DOMAIN fn.out |-> [src |-> fn.params[fn.out[k].p].act,
                                          dst |-> fn.out[k].dst]])
      /\ \A j, k \in DOMAIN fn.out :
            j # k => fn.out[j].dst = STACK \/ fn.out[j].dst # fn.out[k].dst
      /\ Apart(Outs(fn) \ {STACK}) /\ STACK \notin Outs(fn)
      /\ (Locs(fn) \cap Spilled # {} \/ STACK \in Outs(fn)) => fn.frame
  BY FnsAssumption
<1>2. PICK c : c = [k \in DOMAIN fn.out |-> [src |-> SrcLoc(k), dst |-> fn.out[k].dst]]
  OBVIOUS
<1>3. /\ DOMAIN c = DOMAIN fn.out
      /\ \A k \in DOMAIN c : c[k].src = SrcLoc(k) /\ c[k].dst = fn.out[k].dst
  BY <1>2
<1>4. Passes(c)
  BY <1>1, <1>2 DEF SrcLoc
<1>5. \A k \in DOMAIN c : c[k].dst \in Outs(fn)
  BY <1>3 DEF Outs
<1>6. \A k \in DOMAIN c : c[k].src \in Locs(fn)
  <2>1. \A k \in DOMAIN fn.out : fn.out[k].p \in DOMAIN fn.params
    <3>1. \A k \in DOMAIN fn.out : fn.out[k] \in [p : DOMAIN fn.params, dst : Reg \cup {STACK}]
      BY ONLY <1>1, ElementsIn
    <3>2. QED
      BY ONLY <3>1
  <2>2. QED
    BY <1>3, <2>1 DEF SrcLoc, Locs
<1>7. \A k \in DOMAIN c : c[k].src \in Spilled => rf["BP"] = FrameBP
  BY <1>1, <1>6
<1>8. \A j, k \in DOMAIN c : j # k => ~pregs_alias(c[j].dst, c[k].dst)
  <2>1. SUFFICES ASSUME NEW j \in DOMAIN c, NEW k \in DOMAIN c, j # k
                 PROVE  ~pregs_alias(c[j].dst, c[k].dst)
    OBVIOUS
  <2>2. PICK a, b : a = c[j].dst /\ b = c[k].dst
    OBVIOUS
  <2>3. a \in Outs(fn) \ {STACK} /\ b \in Outs(fn) \ {STACK} /\ a # b
    BY <1>1, <1>3, <1>5, <2>1, <2>2
  <2>4. ~pregs_alias(a, b)
    BY <1>1, <2>3 DEF Apart
  <2>5. QED
    BY <2>2, <2>4
<1>9. \A k \in DOMAIN c : c[k].dst # STACK
  BY <1>1, <1>5
<1>10. Callable(c, rf)
  BY <1>4, <1>7, <1>8, <1>9, Placeable
<1>11. QED
  BY <1>2, <1>10

-----------------------------------------------------------------------------
(* Words pushed together. *)

\* A function from 1 .. n is a sequence.
LEMMA FunctionSeq ==
    ASSUME NEW n, n \in Nat, NEW T, NEW g, g \in [1 .. n -> T]
    PROVE  g \in Seq(T) /\ Len(g) = n /\ DOMAIN g = 1 .. n
  OBVIOUS

\* What Reverse returns.
LEMMA ReverseIs ==
    ASSUME NEW T, NEW s, s \in Seq(T), NEW r, r = Reverse(s)
    PROVE  /\ r \in Seq(T) /\ Len(r) = Len(s)
           /\ \A k \in 1 .. Len(s) : r[k] = s[Len(s) + 1 - k]
<1>1. PICK n : n = Len(s) /\ n \in Nat /\ s = [k \in 1 .. n |-> s[k]]
  OBVIOUS
<1>2. \A k \in 1 .. n : n - k + 1 \in 1 .. n /\ n - k + 1 = n + 1 - k
  BY ONLY <1>1
<1>3. \A k \in 1 .. n : s[n - k + 1] \in T
  BY <1>1, <1>2
<1>4. r = [k \in 1 .. n |-> s[n - k + 1]]
  BY <1>1 DEF Reverse
<1>5. r \in [1 .. n -> T]
  BY ONLY <1>3, <1>4
<1>6. r \in Seq(T) /\ Len(r) = n
  BY ONLY <1>1, <1>5, FunctionSeq
<1>7. \A k \in 1 .. n : r[k] = s[n + 1 - k]
  <2>1. \A k \in 1 .. n : r[k] = s[n - k + 1]
    BY ONLY <1>4
  <2>2. QED
    BY ONLY <1>2, <2>1
<1>8. QED
  BY <1>1, <1>6, <1>7

\* A set of words, and n of them, the first on top, on a stack.
Words(T) == \A w \in T : DOMAIN w = 1 .. 2
OnTop(tt, ws, n) == \A k \in 1 .. n : tt[k] = ws[k]

\* Words pushed together are on the stack in their order.
LEMMA AllOn ==
    ASSUME NEW T, NEW ws, ws \in Seq(T), Words(T),
           NEW st, Sequence(st), NEW tt, tt = ws \o st, NEW n, n = Len(ws)
    PROVE  StackOn(tt, st, n) /\ OnTop(tt, ws, n)
<1>1. PICK S : st \in Seq(S)
  BY DEF Sequence
<1>2. PICK U : U = S \cup T
  OBVIOUS
<1>3. st \in Seq(U) /\ ws \in Seq(U) /\ n \in Nat /\ Len(st) \in Nat
  BY ONLY <1>1, <1>2, n = Len(ws), ws \in Seq(T), SeqMonotonic, LenProperties, S \subseteq U, T \subseteq U
<1>4. /\ tt \in Seq(U) /\ Len(tt) = n + Len(st)
      /\ \A i \in 1 .. n + Len(st) : tt[i] = IF i <= n THEN ws[i] ELSE st[i - n]
  BY ONLY <1>3, n = Len(ws), tt = ws \o st, ConcatProperties
<1>5. \A k \in 1 .. n : k \in 1 .. n + Len(st) /\ k <= n
  BY ONLY <1>3
<1>6. \A k \in 1 .. n : tt[k] = ws[k]
  BY ONLY <1>4, <1>5
<1>7. \A k \in 1 .. Len(st) : n + k \in 1 .. n + Len(st) /\ ~(n + k <= n) /\ n + k - n = k
  BY ONLY <1>3
<1>8. \A k \in 1 .. Len(st) : tt[n + k] = st[k]
  <2>1. ASSUME NEW k \in 1 .. Len(st) PROVE tt[n + k] = st[k]
    <3>1. PICK i : i = n + k /\ i \in 1 .. n + Len(st) /\ ~(i <= n) /\ i - n = k
      BY ONLY <1>3, <1>7, k \in 1 .. Len(st)
    <3>2. tt[i] = st[i - n]
      BY ONLY <1>4, <3>1
    <3>3. QED
      BY ONLY <3>1, <3>2
  <2>2. QED
    BY ONLY <2>1
<1>9. \A k \in 1 .. n : ws[k] \in T
  BY ONLY n = Len(ws), ws \in Seq(T), ElementOfSeq
<1>10. \A k \in 1 .. n : DOMAIN tt[k] = 1 .. 2
  BY <1>6, <1>9 DEF Words
<1>11. QED
  BY <1>1, <1>3, <1>4, <1>6, <1>8, <1>10 DEF StackOn, Sequence, OnTop

\* The registers of order pushed on st, the last on top.
LEMMA PushedOn ==
    ASSUME NEW rf, RegFile(rf), NEW order, order \in Seq(Wide \cup {"SP"}),
           NEW st, Sequence(st), NEW tt, tt = Pushed(st, rf, order), NEW n, n = Len(order)
    PROVE  /\ StackOn(tt, st, n)
           /\ \A k \in 1 .. n : order[k] # "SP" => tt[n + 1 - k] = rf[order[k]]
<1> DEFINE word(r) == IF r = "SP" THEN Unknown ELSE rf[r]
           W == {word(r) : r \in Wide \cup {"SP"}}
<1>1. Words(W)
  <2>1. DOMAIN Unknown = 1 .. 2
    BY DEF Unknown
  <2>2. \A r \in Wide : DOMAIN rf[r] = 1 .. 2
    BY DEF RegFile
  <2>3. \A r \in Wide \cup {"SP"} : DOMAIN word(r) = 1 .. 2
    BY <2>1, <2>2
  <2>4. QED
    BY <2>3 DEF Words
<1>2. DOMAIN order = 1 .. n /\ n \in Nat /\ \A k \in 1 .. n : order[k] \in Wide \cup {"SP"}
  OBVIOUS
<1>3. PICK ws : ws = [k \in 1 .. n |-> word(order[k])]
  OBVIOUS
<1>4. \A k \in 1 .. n : word(order[k]) \in W
  BY <1>2
<1>5. ws \in Seq(W) /\ Len(ws) = n /\ \A k \in 1 .. n : ws[k] = word(order[k])
  <2> HIDE DEF W, word
  <2>1. ws \in [1 .. n -> W]
    BY ONLY <1>3, <1>4
  <2>2. ws \in Seq(W) /\ Len(ws) = n
    BY ONLY <1>2, <2>1, FunctionSeq
  <2>3. QED
    BY <1>3, <2>2
<1>6. tt = Reverse(ws) \o st
  BY <1>2, <1>3 DEF Pushed
<1>7. PICK rs : rs = Reverse(ws)
  OBVIOUS
<1>8. rs \in Seq(W) /\ Len(rs) = n /\ \A k \in 1 .. n : rs[k] = ws[n + 1 - k]
  BY ONLY <1>5, <1>7, ReverseIs
<1>9. StackOn(tt, st, n) /\ \A k \in 1 .. n : tt[k] = rs[k]
  <2> HIDE DEF W
  <2>1. tt = rs \o st /\ rs \in Seq(W) /\ n = Len(rs)
    BY ONLY <1>6, <1>7, <1>8
  <2>2. StackOn(tt, st, n) /\ OnTop(tt, rs, n)
    BY ONLY <1>1, <2>1, AllOn, Sequence(st)
  <2>3. QED
    BY <2>2 DEF OnTop
<1>10. \A k \in 1 .. n : n + 1 - k \in 1 .. n /\ n + 1 - (n + 1 - k) = k
  BY ONLY <1>2
<1>11. \A k \in 1 .. n : tt[n + 1 - k] = word(order[k])
  BY ONLY <1>5, <1>8, <1>9, <1>10
<1>12. QED
  BY <1>9, <1>11

\* A stack on a stack.
LEMMA OnOn ==
    ASSUME NEW a, NEW b, NEW c, NEW m, NEW n, StackOn(a, b, m), StackOn(b, c, n)
    PROVE  StackOn(a, c, m + n)
<1>1. /\ m \in Nat /\ n \in Nat /\ Len(c) \in Nat /\ Len(b) = n + Len(c) /\ Len(a) = m + Len(b)
      /\ \A k \in 1 .. Len(b) : a[m + k] = b[k]
      /\ \A k \in 1 .. m : DOMAIN a[k] = 1 .. 2
      /\ \A k \in 1 .. Len(c) : b[n + k] = c[k]
      /\ \A k \in 1 .. n : DOMAIN b[k] = 1 .. 2
  <2>1. PICK S : c \in Seq(S)
    BY DEF StackOn, Sequence
  <2>2. Len(c) \in Nat
    BY <2>1
  <2>3. QED
    BY <2>2 DEF StackOn
<1>2. ASSUME NEW k \in 1 .. Len(c) PROVE a[m + n + k] = c[k]
  <2>1. n + k \in 1 .. Len(b) /\ m + (n + k) = m + n + k
    BY <1>1
  <2>2. QED
    BY <1>1, <2>1
<1>3. ASSUME NEW k \in 1 .. m + n PROVE DOMAIN a[k] = 1 .. 2
  <2>1. CASE k <= m
    BY <1>1, <2>1
  <2>2. CASE k > m
    <3>1. PICK i : i = k - m /\ i \in 1 .. n /\ i \in 1 .. Len(b) /\ m + i = k
      BY <1>1, <2>2
    <3>2. a[m + i] = b[i] /\ DOMAIN b[i] = 1 .. 2
      BY ONLY <1>1, <3>1
    <3>3. QED
      BY ONLY <3>1, <3>2
  <2>3. QED
    BY <1>1, <2>1, <2>2
<1>4. QED
  BY <1>1, <1>2, <1>3 DEF StackOn

\* What SaveOrder pushes are word and segment registers.
LEMMA SaveOrderOver ==
    ASSUME NEW saved, saved \in Seq(Wide)
    PROVE  SaveOrder(saved) \in Seq(Wide \cup {"SP"})
<1>1. PICK U : U = Wide \cup {"SP"}
  OBVIOUS
<1>2. PushaOrder \in Seq(U)
  <2>1. {"AX", "CX", "DX", "BX", "SP", "BP", "SI", "DI"} \subseteq U
    BY <1>1 DEF Wide, WordRegs
  <2>2. QED
    BY <2>1 DEF PushaOrder
<1>3. saved \in Seq(U)
  BY ONLY <1>1, saved \in Seq(Wide), SeqMonotonic, Wide \subseteq Wide \cup {"SP"}
<1>4. PICK P : P = {k \in DOMAIN saved : ~preg_covered_by_pusha(saved[k])}
  OBVIOUS
<1>5. P \in SUBSET (1 .. Len(saved))
  BY <1>4
<1>6. Picked(saved, P) \in Seq(U)
  BY ONLY <1>3, <1>5, PickedIs
<1>7. Picked(saved, P) \o PushaOrder \in Seq(U)
  BY ONLY <1>2, <1>6, ConcatProperties
<1>8. QED
  BY <1>1, <1>3, <1>4, <1>7 DEF SaveOrder

\* The registers saved around a call.
LEMMA CallSavedOver ==
    ASSUME NEW s, \E F \in Sites : s \in F
    PROVE  call_saved(s) \in Seq(Wide)
<1>1. PICK live : live = s.live /\ live \in Seq(Reg)
  BY SitesAssumption
<1>2. PICK n : n = Len(live) /\ n \in Nat /\ DOMAIN live = 1 .. n /\ \A k \in 1 .. n : live[k] \in Reg
  BY <1>1
<1>3. PICK words : words = [k \in DOMAIN live |-> PushReg(live[k])]
  OBVIOUS
<1>4. \A r \in Reg : PushReg(r) \in Wide
  BY Kinds
<1>5. words \in [1 .. n -> Wide]
  BY <1>2, <1>3, <1>4
<1>6. words \in Seq(Wide) /\ Len(words) = n
  BY ONLY <1>2, <1>5, FunctionSeq
<1>7. PICK bp : bp = IF SavesBP(s) THEN <<"BP">> ELSE << >>
  OBVIOUS
<1>8. PICK bx : bx = IF SavesBX(s) THEN Append(bp, "BX") ELSE bp
  OBVIOUS
<1>9. "BP" \in Wide /\ "BX" \in Wide
  BY DEF Wide, WordRegs
<1>10. bp \in Seq(Wide)
  BY <1>7, <1>9
<1>11. bx \in Seq(Wide)
  BY ONLY <1>8, <1>9, <1>10, AppendProperties
<1>12. PICK P : P = {k \in DOMAIN live : Clobbered(s, live[k]) /\ add_call_saved_reg(bx, words, k)}
  OBVIOUS
<1>13. P \in SUBSET (1 .. Len(words))
  BY <1>2, <1>6, <1>12
<1>14. Picked(words, P) \in Seq(Wide)
  BY ONLY <1>6, <1>13, PickedIs
<1>15. bx \o Picked(words, P) \in Seq(Wide)
  BY ONLY <1>11, <1>14, ConcatProperties
<1>16. call_saved(s) = bx \o Picked(words, P)
  BY <1>1, <1>3, <1>7, <1>8, <1>12 DEF call_saved
<1>17. QED
  BY ONLY <1>15, <1>16

\* The registers an interrupt handler saves.
LEMMA IsrSaveOver ==
    ASSUME NEW f
    PROVE  isr_save(f) \in Seq(Wide)
<1>1. PICK general : general = <<"AX", "CX", "DX", "BX", "BP", "SI", "DI">>
  OBVIOUS
<1>2. general \in Seq(Wide)
  BY <1>1 DEF Wide, WordRegs
<1>3. PICK P : P = {k \in DOMAIN general :
                       f.isr /\ (general[k] \in f.used \/ (f.frame /\ general[k] = "BP"))}
  OBVIOUS
<1>4. P \in SUBSET (1 .. Len(general))
  BY <1>2, <1>3
<1>5. Picked(general, P) \in Seq(Wide)
  BY ONLY <1>2, <1>4, PickedIs
<1>6. isr_save(f) = Picked(general, P)
  BY <1>1, <1>3 DEF isr_save
<1>7. QED
  BY ONLY <1>5, <1>6

\* The area pushed for a call is made of words.
LEMMA AreaPushed ==
    ASSUME \E F \in Sites : site \in F, RegFile(regs), MemFile, Sequence(stack), PushArea
    PROVE  /\ StackOn(stack', stack, call_area_words(site)) /\ call_area_words(site) \in Nat
           /\ \A k \in DOMAIN StackArgs(site) :
                 /\ StackArgs(site)[k].src \in Source
                 /\ stack'[k] = rins_push_vreg_temp(regs, StackArgs(site)[k].src)
<1>1. PICK args, T : args = site.args /\ T = [src : Source, dst : Reg \cup {STACK}] /\ args \in Seq(T)
  BY SitesAssumption DEF Passes
<1>2. PICK P : P = {k \in DOMAIN args : args[k].dst = STACK}
  OBVIOUS
<1>3. P \in SUBSET (1 .. Len(args))
  BY <1>1, <1>2
<1>4. PICK sa : sa = Picked(args, P)
  OBVIOUS
<1>5. sa \in Seq(T)
  BY ONLY <1>1, <1>3, <1>4, PickedIs
<1>6. sa = StackArgs(site)
  BY <1>1, <1>2, <1>4 DEF StackArgs
<1>7. PICK n : n = Len(sa) /\ n \in Nat /\ DOMAIN sa = 1 .. n
  BY <1>5
<1>8. \A k \in 1 .. n : sa[k] \in T
  BY ONLY <1>5, <1>7, ElementsIn
<1>9. \A k \in 1 .. n : sa[k].src \in Source
  BY <1>1, <1>8
<1>10. PICK W : W = {rins_push_vreg_temp(regs, s) : s \in Source} \cup {Unknown}
  OBVIOUS
<1>11. Words(W)
  <2>1. \A s \in Source : DOMAIN rins_push_vreg_temp(regs, s) = 1 .. 2
    BY PushWord
  <2>2. DOMAIN Unknown = 1 .. 2
    BY DEF Unknown
  <2>3. QED
    BY <1>10, <2>1, <2>2 DEF Words
<1>12. PICK words : words = [k \in DOMAIN sa |-> rins_push_vreg_temp(regs, sa[k].src)]
  OBVIOUS
<1>13. words \in [1 .. n -> W]
  BY <1>7, <1>9, <1>10, <1>12
<1>14. PICK m : /\ m = call_area_words(site) - direct_stack_arg_words(site) /\ m \in Nat
                /\ call_area_words(site) = n + m
  <2>1. PICK rets, R : rets = site.rets /\ rets \in Seq(R)
    BY SitesAssumption
  <2>2. StackRets(site) \subseteq 1 .. Len(rets)
    BY <2>1 DEF StackRets
  <2>3. Cardinality(StackRets(site)) \in Nat
    <3>1. IsFiniteSet(1 .. Len(rets))
      BY ONLY FS_Interval, <2>1, LenProperties, 1 \in Int, \A k \in Nat : k \in Int
    <3>2. QED
      BY ONLY <2>2, <3>1, FS_Subset, FS_CardinalityType
  <2>4. direct_stack_arg_words(site) = n /\ direct_stack_ret_words(site) \in Nat
    BY <1>6, <1>7, <2>3 DEF direct_stack_arg_words, direct_stack_ret_words
  <2>5. QED
    BY <1>7, <2>4 DEF call_area_words
<1>15. PICK room : room = [k \in 1 .. m |-> Unknown]
  OBVIOUS
<1>16. room \in [1 .. m -> W]
  BY <1>10, <1>15
<1>17. PICK rest : rest = room \o stack
  OBVIOUS
<1>18. StackOn(rest, stack, m)
  <2>1. room \in Seq(W) /\ Len(room) = m
    BY ONLY <1>14, <1>16, FunctionSeq
  <2>2. QED
    BY ONLY <1>11, <1>17, <2>1, AllOn, Sequence(stack)
<1>19. StackOn(words \o rest, rest, n)
  <2>1. words \in Seq(W) /\ Len(words) = n
    BY ONLY <1>7, <1>13, FunctionSeq
  <2>2. Sequence(rest)
    BY <1>18 DEF StackOn
  <2>3. QED
    BY ONLY <1>11, <2>1, <2>2, AllOn
<1>20. stack' = words \o rest
  <2>1. stack' = words \o room \o stack
    BY <1>6, <1>12, <1>14, <1>15 DEF PushArea
  <2>2. PICK S : stack \in Seq(S)
    BY DEF Sequence
  <2>3. PICK U : U = S \cup W
    OBVIOUS
  <2>4. words \in Seq(U) /\ room \in Seq(U) /\ stack \in Seq(U)
    <3>1. words \in Seq(W) /\ room \in Seq(W)
      BY ONLY <1>7, <1>13, <1>14, <1>16, FunctionSeq
    <3>2. QED
      BY ONLY <2>2, <2>3, <3>1, SeqMonotonic, S \subseteq U, W \subseteq U
  <2>5. (words \o room) \o stack = words \o (room \o stack)
    BY ONLY <2>4, ConcatAssociative
  <2>6. QED
    BY ONLY <1>17, <2>1, <2>5
<1>21. StackOn(stack', stack, n + m)
  BY ONLY <1>18, <1>19, <1>20, OnOn
<1>22. OnTop(stack', words, n)
  <2>1. words \in Seq(W) /\ Len(words) = n
    BY ONLY <1>7, <1>13, FunctionSeq
  <2>2. Sequence(rest)
    BY <1>18 DEF StackOn
  <2>3. QED
    BY ONLY <1>11, <1>20, <2>1, <2>2, AllOn
<1>23. \A k \in DOMAIN sa : stack'[k] = words[k] /\ words[k] = rins_push_vreg_temp(regs, sa[k].src)
  BY <1>7, <1>12, <1>22 DEF OnTop
<1>24. call_area_words(site) \in Nat /\ StackOn(stack', stack, call_area_words(site))
  BY <1>7, <1>14, <1>21
<1>25. QED
  BY <1>6, <1>7, <1>9, <1>23, <1>24

-----------------------------------------------------------------------------
(* The states before the moves start. *)

Machine == /\ RegFile(regs) /\ MemFile /\ DOMAIN mem = Spilled \cup {"temp"}
           /\ Sequence(stack)

\* Until a call's arguments are moved.
CallBegins ==
    pc \in {"saves", "area", "args"} =>
        (\E F \in Sites : site \in F) /\ Machine /\ regs["BP"] = FrameBP

\* From a function's entry to its last value, where the BP of its caller is in the
\* frame and the frame can be reached.
FrameBegins ==
    /\ pc \in {"prologue", "params", "body", "ret", "tail", "ntail", "ntailargs"} =>
          (\E F \in Fns : fn \in F) /\ Machine
    /\ pc = "prologue" => stack = << >> /\ \A r \in Wide : regs[r] = EntryWord(r)
    /\ pc \in {"params", "body", "ret", "tail", "ntail", "ntailargs"} /\ fn.frame => regs["BP"] = FrameBP
    /\ pc = "params" => ri \in Nat \ {0} /\ (fn.frame => AtBP = CallerBP)
    /\ pc \in {"ntail", "ntailargs"} => fn.exit = "ntail"

FramePair == DOMAIN FrameBP = 1 .. 2 /\ DOMAIN CallerBP = 1 .. 2 /\ DOMAIN PolicyDS = 1 .. 2
             /\ DOMAIN Unknown = 1 .. 2
\* The words the frame and the policies have are pairs of bytes.
LEMMA FramePairs == FramePair
  BY DEF FramePair, FrameBP, CallerBP, PolicyDS, Unknown

\* A register is given a word.
LEMMA PutWide ==
    ASSUME NEW rf, RegFile(rf), NEW r, r \in Wide, NEW w, DOMAIN w = 1 .. 2,
           NEW rg, rg = Put16(rf, r, w)
    PROVE  RegFile(rg) /\ rg[r] = w /\ \A q \in Wide : q # r => rg[q] = rf[q]
  BY DEF RegFile, Put16

\* What the prologue leaves.
LEMMA Entered ==
    ASSUME \E F \in Fns : fn \in F, Machine, stack = << >>, Prologue,
           \A r \in Wide : regs[r] = EntryWord(r)
    PROVE  /\ RegFile(regs') /\ Sequence(stack') /\ fp' \in Nat
           /\ fn.frame => regs'["BP"] = FrameBP /\ AtBP' = CallerBP
           /\ \A r \in Wide : (r = "BP" => ~fn.frame) /\ (r = "DS" => ~fn.ds) => regs'[r] = regs[r]
           /\ \E m, framed : m \in Nat /\ Len(framed) = fp' /\ StackOn(stack', framed, m)
<1>1. "BP" \in Wide /\ "DS" \in Wide /\ "BP" # "DS"
  BY DEF Wide, WordRegs, SegRegs
<1>2. RegFile(regs) /\ regs["BP"] = EntryWord("BP") /\ Sequence(stack)
  BY <1>1 DEF Machine
<1>3. PICK isr : isr = Pushed(stack, regs, SaveOrder(isr_save(fn)))
  OBVIOUS
<1>4. PICK n \in Nat : StackOn(isr, stack, n)
  <2>1. PICK order : order = SaveOrder(isr_save(fn)) /\ order \in Seq(Wide \cup {"SP"})
    BY ONLY IsrSaveOver, SaveOrderOver
  <2>2. Len(order) \in Nat
    BY <2>1
  <2>3. StackOn(isr, stack, Len(order))
    BY ONLY <1>2, <1>3, <2>1, PushedOn
  <2>4. QED
    BY <2>2, <2>3
<1>5. PICK framed, inner :
        /\ framed = IF fn.frame THEN <<regs["BP"]>> \o isr ELSE isr
        /\ inner = IF fn.frame THEN [regs EXCEPT !["BP"] = FrameBP] ELSE regs
  OBVIOUS
<1>6. /\ RegFile(inner) /\ (fn.frame => inner["BP"] = FrameBP)
      /\ \A r \in Wide : (r = "BP" => ~fn.frame) => inner[r] = regs[r]
  <2>1. CASE fn.frame
    <3>1. inner = Put16(regs, "BP", FrameBP)
      BY <1>5, <2>1 DEF Put16
    <3>2. DOMAIN FrameBP = 1 .. 2
      BY FramePairs DEF FramePair
    <3>3. RegFile(inner) /\ inner["BP"] = FrameBP /\ \A q \in Wide : q # "BP" => inner[q] = regs[q]
      BY ONLY <1>1, <1>2, <3>1, <3>2, PutWide
    <3>4. QED
      BY <2>1, <3>3
  <2>2. CASE ~fn.frame
    BY <1>2, <1>5, <2>2
  <2>3. QED
    BY <2>1, <2>2
<1>7. /\ Sequence(framed) /\ Len(framed) \in Nat
      /\ fn.frame => Len(framed) \in Nat \ {0} /\ framed[1] = CallerBP
  <2>1. PICK S : isr \in Seq(S)
    BY <1>4 DEF StackOn, Sequence
  <2>2. CASE fn.frame
    <3>1. PICK w : w = regs["BP"]
      OBVIOUS
    <3>2. w = CallerBP
      BY <1>2, <2>2, <3>1 DEF EntryWord
    <3>3. framed = <<w>> \o isr
      BY <1>5, <2>2, <3>1
    <3>4. PICK U : U = S \cup {w}
      OBVIOUS
    <3>5. <<w>> \in Seq(U) /\ isr \in Seq(U) /\ Len(<<w>>) = 1 /\ <<w>>[1] = w
      BY <2>1, <3>4
    <3>6. framed \in Seq(U) /\ Len(framed) = 1 + Len(isr) /\ framed[1] = w
      <4>1. Len(isr) \in Nat
        BY <3>5
      <4>2. 1 \in 1 .. 1 + Len(isr)
        BY <4>1
      <4>3. QED
        BY ONLY <3>3, <3>5, <4>1, <4>2, ConcatProperties
    <3>7. Len(framed) \in Nat \ {0}
      BY <3>5, <3>6
    <3>8. QED
      BY <3>2, <3>6, <3>7 DEF Sequence
  <2>3. CASE ~fn.frame
    BY <1>5, <2>1, <2>3 DEF Sequence
  <2>4. QED
    BY <2>2, <2>3
<1>8. PICK saved : saved = Pushed(framed, inner, fn.saves)
  OBVIOUS
<1>9. PICK s \in Nat : StackOn(saved, framed, s)
  <2>1. PICK order : order = fn.saves /\ order \in Seq(Wide)
    BY FnsAssumption
  <2>2. order \in Seq(Wide \cup {"SP"}) /\ Len(order) \in Nat
    BY <2>1
  <2>3. StackOn(saved, framed, Len(order))
    BY ONLY <1>6, <1>7, <1>8, <2>1, <2>2, PushedOn
  <2>4. QED
    BY <2>2, <2>3
<1>10. PICK m \in Nat : StackOn(stack', framed, m)
  <2>1. CASE ds_explicit_save(fn)
    <3>1. PICK w : w = inner["DS"]
      OBVIOUS
    <3>2. DOMAIN w = 1 .. 2
      BY <1>1, <1>6, <3>1 DEF RegFile
    <3>3. stack' = Push(w, saved)
      BY <1>3, <1>5, <1>8, <2>1, <3>1 DEF Prologue, Push
    <3>4. StackOn(stack', framed, s + 1)
      BY ONLY <1>9, <3>2, <3>3, PushOn
    <3>5. QED
      BY <3>4
  <2>2. CASE ~ds_explicit_save(fn)
    <3>1. stack' = saved
      BY <1>3, <1>5, <1>8, <2>2 DEF Prologue
    <3>2. QED
      BY <1>9, <3>1
  <2>3. QED
    BY <2>1, <2>2
<1>11. fp' = Len(framed)
  BY <1>3, <1>5 DEF Prologue
<1>12. /\ RegFile(regs') /\ (fn.frame => regs'["BP"] = FrameBP)
       /\ \A r \in Wide : (r = "DS" => ~fn.ds) => regs'[r] = inner[r]
  <2>1. CASE fn.ds
    <3>1. regs' = Put16(inner, "DS", PolicyDS)
      BY <1>5, <2>1 DEF Prologue, Put16
    <3>2. DOMAIN PolicyDS = 1 .. 2
      BY FramePairs DEF FramePair
    <3>3. /\ RegFile(regs') /\ regs'["BP"] = inner["BP"]
          /\ \A q \in Wide : q # "DS" => regs'[q] = inner[q]
      BY ONLY <1>1, <1>6, <3>1, <3>2, PutWide
    <3>4. QED
      BY <1>6, <2>1, <3>3
  <2>2. CASE ~fn.ds
    <3>1. regs' = inner
      BY <1>5, <2>2 DEF Prologue
    <3>2. QED
      BY <1>6, <3>1
  <2>3. QED
    BY <2>1, <2>2
<1>13. ASSUME fn.frame PROVE AtBP' = CallerBP
  <2>1. Len(stack') = m + Len(framed) /\ \A k \in 1 .. Len(framed) : stack'[m + k] = framed[k]
    BY <1>10 DEF StackOn
  <2>2. 1 \in 1 .. Len(framed) /\ Len(stack') + 1 - fp' = m + 1
    BY <1>7, <1>11, <1>13, <2>1
  <2>3. stack'[Len(stack') + 1 - fp'] = CallerBP
    BY <1>7, <1>13, <2>1, <2>2
  <2>4. QED
    BY <2>3 DEF AtBP
<1>14. Sequence(stack')
  BY <1>10 DEF StackOn
<1>15. \A r \in Wide : (r = "BP" => ~fn.frame) /\ (r = "DS" => ~fn.ds) => regs'[r] = regs[r]
  BY <1>6, <1>12
<1>16. QED
  BY <1>7, <1>10, <1>11, <1>12, <1>13, <1>14, <1>15

\* What one parameter is and where it goes.
LEMMA ParamIs ==
    ASSUME \E F \in Fns : fn \in F, NEW p, p \in DOMAIN fn.params
    PROVE  /\ fn.params[p].exp \in Reg \cup {STACK}
           /\ fn.params[p].act \in Reg \cup Spilled
           /\ fn.params[p].exp = STACK => fn.params[p].act \in SpilledWords
           /\ fn.params[p].exp # STACK => (fn.params[p].exp \in ByteRegs) = IsByte(fn.params[p].act)
           /\ fn.frame => fn.params[p].act # "BP"
           /\ fn.params[p].act \in Spilled => fn.frame
           /\ DOMAIN fn.params = 1 .. Len(fn.params) /\ Len(fn.params) \in Nat
<1>1. PICK T, ps : /\ T = [exp : Reg \cup {STACK}, act : Reg \cup Spilled]
                   /\ ps = fn.params /\ ps \in Seq(T)
  BY FnsAssumption
<1>2. ps[p] \in T
  BY ONLY <1>1, ElementsIn, p \in DOMAIN fn.params
<1>3. ps[p].exp \in Reg \cup {STACK} /\ ps[p].act \in Reg \cup Spilled
  BY ONLY <1>1, <1>2
<1>4. /\ ps[p].exp = STACK => ps[p].act \in SpilledWords
      /\ ps[p].exp # STACK => (ps[p].exp \in ByteRegs) = IsByte(ps[p].act)
  <2>1. IF ps[p].exp = STACK THEN ps[p].act \in ToSet(StackSlot)
        ELSE (ps[p].exp \in ByteRegs) = IsByte(ps[p].act)
    BY <1>1, FnsAssumption
  <2>2. ToSet(StackSlot) \subseteq SpilledWords
    <3>1. StackSlot \in Seq(SpilledWords)
      BY FnsAssumption
    <3>2. QED
      BY <3>1 DEF ToSet
  <2>3. QED
    BY <2>1, <2>2
<1>5. /\ fn.frame => ps[p].act # "BP"
      /\ ps[p].act \in Spilled => fn.frame
  <2>1. ps[p].act \in Locs(fn)
    BY <1>1 DEF Locs
  <2>2. QED
    BY <2>1, FnsAssumption
<1>6. DOMAIN ps = 1 .. Len(ps) /\ Len(ps) \in Nat
  BY ONLY <1>1, LenProperties
<1>7. QED
  BY <1>1, <1>3, <1>4, <1>5, <1>6

\* The word w is stored in the frame at a.
LEMMA StoreEffect ==
    ASSUME RegFile(regs), MemFile, DOMAIN mem = Spilled \cup {"temp"},
           NEW a, a \in Spilled, NEW w, DOMAIN w = 1 .. 2,
           NEW m, m = Store(regs, mem, a, w)
    PROVE  /\ DOMAIN m = Spilled \cup {"temp"}
           /\ \A h \in Spilled : DOMAIN m[h] = 1 .. 2 /\ (h # a => m[h] = mem[h])
           /\ regs["BP"] = FrameBP => m[a][1] = w[1] /\ (~IsByte(a) => m[a][2] = w[2])
<1>1. CASE regs["BP"] # FrameBP
  BY <1>1 DEF Store, MemFile
<1>2. CASE regs["BP"] = FrameBP /\ a \in SpilledBytes
  <2>1. m = [mem EXCEPT ![a][1] = w[1]]
    BY <1>2 DEF Store
  <2>2. DOMAIN mem[a] = 1 .. 2 /\ a \in DOMAIN mem
    BY DEF MemFile
  <2>3. m[a] = [mem[a] EXCEPT ![1] = w[1]] /\ DOMAIN m = DOMAIN mem
    BY <2>1, <2>2
  <2>4. DOMAIN m[a] = 1 .. 2 /\ m[a][1] = w[1]
    BY <2>2, <2>3
  <2>5. \A h \in Spilled : h # a => m[h] = mem[h]
    BY <2>1
  <2>6. QED
    BY <1>2, <2>3, <2>4, <2>5 DEF MemFile, IsByte
<1>3. CASE regs["BP"] = FrameBP /\ a \notin SpilledBytes
  <2>1. m = [mem EXCEPT ![a] = w] /\ a \in DOMAIN mem
    BY <1>3 DEF Store
  <2>2. QED
    BY <2>1 DEF MemFile
<1>4. QED
  BY <1>1, <1>2, <1>3

\* The word that moves for parameter ri.
EntryWordOf(e) == IF InFrameBP(e) THEN AtBP ELSE ReadPlace(regs, e)

\* Moving a parameter changes its location and nothing else.
LEMMA EntryMoved ==
    ASSUME \E F \in Fns : fn \in F, Machine, ri \in Nat \ {0}, fn.frame => AtBP = CallerBP,
           EntryMove, NEW e, NEW a, e = fn.params[ri].exp, a = fn.params[ri].act
    PROVE  /\ ri \in DOMAIN fn.params /\ Machine'
           /\ e # STACK => DOMAIN EntryWordOf(e) = 1 .. 2
           /\ \A r \in Wide : r # a => regs'[r] = regs[r]
           /\ \A h \in Spilled : h # a => mem'[h] = mem[h]
           /\ EntryCopies(e, a) => regs'[a] = EntryWordOf(e)
           /\ ~EntryCopies(e, a) => regs' = regs
           /\ a \in Spilled /\ e = STACK => mem' = mem
           /\ a \in Spilled /\ e # STACK /\ regs["BP"] = FrameBP =>
                 mem'[a][1] = EntryWordOf(e)[1] /\ (~IsByte(a) => mem'[a][2] = EntryWordOf(e)[2])
<1>1. ri \in DOMAIN fn.params
  <2>1. PICK T, ps : ps = fn.params /\ ps \in Seq(T)
    BY FnsAssumption
  <2>2. ri <= Len(ps)
    BY <2>1 DEF EntryMove
  <2>3. QED
    BY <2>1, <2>2
<1>2. /\ e \in Reg \cup {STACK} /\ a \in Reg \cup Spilled
      /\ e = STACK => a \in Spilled
  <2>1. a \in SpilledWords => a \in Spilled
    BY DEF Spilled
  <2>2. QED
    BY ONLY <1>1, <2>1, ParamIs, \E F \in Fns : fn \in F,
            e = fn.params[ri].exp, a = fn.params[ri].act
<1>3. STACK \notin Reg /\ Reg \cap Spilled = {} /\ Reg = Wide \cup ByteRegs /\ Wide \cap ByteRegs = {}
      /\ Reg \subseteq Preg /\ "BP" \in Wide
  BY SourcesAssumption, Kinds DEF STACK, Reg, Preg, WordRegs, ByteRegs, SegRegs
<1>4. PICK w : w = EntryWordOf(e)
  OBVIOUS
<1>5. ASSUME e # STACK PROVE DOMAIN w = 1 .. 2
  <2>1. CASE InFrameBP(e)
    BY <1>4, <2>1, FramePairs DEF EntryWordOf, InFrameBP, FramePair
  <2>2. CASE ~InFrameBP(e) /\ e \in ByteRegs
    <3>1. w = <<Byte(regs, e), Junk>>
      BY <1>4, <2>2 DEF EntryWordOf, ReadPlace
    <3>2. QED
      BY <3>1
  <2>3. CASE ~InFrameBP(e) /\ e \notin ByteRegs
    BY <1>2, <1>3, <1>4, <1>5, <2>3 DEF EntryWordOf, ReadPlace, Machine, RegFile
  <2>4. QED
    BY <2>1, <2>2, <2>3
<1>6. /\ mem' = IF a \in Spilled /\ e # STACK THEN Store(regs, mem, a, w) ELSE mem
      /\ regs' = IF EntryCopies(e, a) THEN Put16(regs, a, w) ELSE regs
      /\ stack' = stack /\ fn' = fn
  BY <1>4 DEF EntryMove, EntryWordOf, frameVars
<1>7. /\ RegFile(regs') /\ \A r \in Wide : r # a => regs'[r] = regs[r]
      /\ EntryCopies(e, a) => regs'[a] = w
      /\ ~EntryCopies(e, a) => regs' = regs
  <2>1. RegFile(regs)
    BY DEF Machine
  <2>2. CASE EntryCopies(e, a)
    <3>1. a \in Wide /\ a \notin Spilled
      <4>1. a \in WordRegs \cup SegRegs
        BY <2>2 DEF EntryCopies
      <4>2. QED
        BY <1>2, <1>3, <4>1, SourcesAssumption DEF Wide, WordRegs, ByteRegs, SegRegs, Reg, Preg, Spilled
    <3>2. regs' = Put16(regs, a, w) /\ DOMAIN w = 1 .. 2
      BY <1>2, <1>5, <1>6, <2>2, <3>1
    <3>3. RegFile(regs') /\ regs'[a] = w /\ \A q \in Wide : q # a => regs'[q] = regs[q]
      BY ONLY <2>1, <3>1, <3>2, PutWide
    <3>4. QED
      BY <2>2, <3>3
  <2>3. CASE ~EntryCopies(e, a)
    <3>1. regs' = regs
      BY <1>6, <2>3
    <3>2. QED
      BY <2>1, <2>3, <3>1
  <2>4. QED
    BY <2>2, <2>3
<1>8. /\ MemFile' /\ DOMAIN mem' = Spilled \cup {"temp"}
      /\ \A h \in Spilled : h # a => mem'[h] = mem[h]
      /\ a \in Spilled /\ e = STACK => mem' = mem
      /\ a \in Spilled /\ e # STACK /\ regs["BP"] = FrameBP =>
            mem'[a][1] = w[1] /\ (~IsByte(a) => mem'[a][2] = w[2])
  <2>1. RegFile(regs) /\ MemFile /\ DOMAIN mem = Spilled \cup {"temp"}
    BY DEF Machine
  <2>2. CASE a \in Spilled /\ e # STACK
    <3>1. mem' = Store(regs, mem, a, w) /\ DOMAIN w = 1 .. 2 /\ a \in Spilled
      BY <1>5, <1>6, <2>2
    <3>2. /\ DOMAIN mem' = Spilled \cup {"temp"}
          /\ \A h \in Spilled : DOMAIN mem'[h] = 1 .. 2 /\ (h # a => mem'[h] = mem[h])
          /\ regs["BP"] = FrameBP => mem'[a][1] = w[1] /\ (~IsByte(a) => mem'[a][2] = w[2])
      BY ONLY <2>1, <3>1, StoreEffect
    <3>3. QED
      BY <2>2, <3>2 DEF MemFile
  <2>3. CASE ~(a \in Spilled /\ e # STACK)
    <3>1. mem' = mem
      BY <1>6, <2>3
    <3>2. QED
      BY <2>1, <2>3, <3>1 DEF MemFile
  <2>4. QED
    BY <2>2, <2>3
<1>9. Machine'
  BY <1>6, <1>7, <1>8 DEF Machine, RegFile, MemFile, Sequence
<1>10. QED
  BY <1>1, <1>4, <1>5, <1>7, <1>8, <1>9

-----------------------------------------------------------------------------
(* The invariant, action by action. *)

FrameInv == CallBegins /\ FrameBegins /\ MovesInv

InitialWords == \A r \in Wide : regs[r] = EntryWord(r)

\* It holds where a call or a function begins.
LEMMA InitHolds ==
    ASSUME Init
    PROVE  FrameInv
<1>1. "BP" \in Wide
  BY DEF Wide, WordRegs
<1>2. PICK bp : InitMachine(bp) /\ (CallInit => bp = FrameBP) /\ (FrameInit => bp = EntryWord("BP"))
  <2>1. CASE CallInit /\ ~FrameInit
    BY <2>1 DEF CallInit
  <2>2. CASE FrameInit /\ ~CallInit
    BY <2>2 DEF FrameInit
  <2>3. ~(CallInit /\ FrameInit)
    BY DEF CallInit, FrameInit
  <2>4. QED
    BY <2>1, <2>2, <2>3 DEF Init
<1>3. DOMAIN bp = 1 .. 2
  <2>1. DOMAIN <<Orig("BP", 1), Orig("BP", 2)>> = 1 .. 2
    OBVIOUS
  <2>2. bp \in {FrameBP, CallerBP, <<Orig("BP", 1), Orig("BP", 2)>>}
    BY <1>2 DEF EntryWord, Init
  <2>3. QED
    BY <2>1, <2>2, FramePairs DEF FramePair
<1>4. RegFile(regs) /\ regs["BP"] = bp
      /\ \A r \in Wide : r # "BP" => regs[r] = <<Orig(r, 1), Orig(r, 2)>>
  <2>1. regs = [[r \in Wide |-> <<Orig(r, 1), Orig(r, 2)>>] EXCEPT !["BP"] = bp]
    BY <1>2 DEF InitMachine
  <2>2. \A r \in Wide : DOMAIN <<Orig(r, 1), Orig(r, 2)>> = 1 .. 2
    OBVIOUS
  <2>3. QED
    BY <1>1, <1>3, <2>1, <2>2 DEF RegFile
<1>5. MemFile /\ DOMAIN mem = Spilled \cup {"temp"}
  <2>1. mem = [h \in Spilled \cup {"temp"} |-> <<Orig(h, 1), Orig(h, 2)>>]
    BY <1>2 DEF InitMachine
  <2>2. \A h : DOMAIN <<Orig(h, 1), Orig(h, 2)>> = 1 .. 2
    OBVIOUS
  <2>3. QED
    BY <2>1, <2>2 DEF MemFile
<1>6. stack = << >> /\ Sequence(stack)
  <2>1. stack = << >>
    BY <1>2 DEF InitMachine
  <2>2. << >> \in Seq({})
    OBVIOUS
  <2>3. QED
    BY <2>1, <2>2 DEF Sequence
<1>7. Machine
  BY <1>4, <1>5, <1>6 DEF Machine
<1>8. CASE CallInit
  <2>1. pc = "saves" /\ (\E F \in Sites : site \in F) /\ regs["BP"] = FrameBP
    BY <1>2, <1>4, <1>8 DEF CallInit
  <2>2. QED
    BY <1>7, <2>1 DEF FrameInv, CallBegins, FrameBegins, MovesInv
<1>9. CASE FrameInit
  <2>1. pc = "prologue" /\ \E F \in Fns : fn \in F
    BY <1>9 DEF FrameInit
  <2>2. \A r \in Wide : regs[r] = EntryWord(r)
    BY <1>2, <1>4, <1>9 DEF EntryWord
  <2>3. FrameBegins
    BY <1>6, <1>7, <2>1, <2>2 DEF FrameBegins
  <2>4. QED
    BY <2>1, <2>3 DEF FrameInv, CallBegins, MovesInv
<1>10. QED
  BY <1>8, <1>9 DEF Init

\* The saves and the area of a call.
LEMMA CallStep ==
    ASSUME FrameInv, emit_call_saves \/ PushArea \/ MoveArgs
    PROVE  FrameInv'
<1>1. /\ \E F \in Sites : site \in F
      /\ Machine /\ regs["BP"] = FrameBP
  BY DEF FrameInv, CallBegins, emit_call_saves, PushArea, MoveArgs
<1>2. UNCHANGED <<regs, mem, site>>
  BY DEF emit_call_saves, PushArea, MoveArgs, siteVars
<1>3. CASE emit_call_saves \/ PushArea
  <2>1. pc' \in {"area", "args"}
    BY <1>3 DEF emit_call_saves, PushArea
  <2>2. Sequence(stack')
    <3>1. CASE emit_call_saves
      <4>1. PICK order : order = SaveOrder(call_saved(site)) /\ order \in Seq(Wide \cup {"SP"})
        BY ONLY <1>1, CallSavedOver, SaveOrderOver
      <4>2. stack' = Pushed(stack, regs, order)
        BY <3>1, <4>1 DEF emit_call_saves
      <4>3. RegFile(regs) /\ Sequence(stack)
        BY <1>1 DEF Machine
      <4>4. StackOn(stack', stack, Len(order))
        BY ONLY <4>1, <4>2, <4>3, PushedOn
      <4>5. QED
        BY <4>4 DEF StackOn
    <3>2. CASE PushArea
      <4>1. StackOn(stack', stack, call_area_words(site))
        BY <1>1, <3>2, AreaPushed DEF Machine
      <4>2. QED
        BY <4>1 DEF StackOn
    <3>3. QED
      BY <1>3, <3>1, <3>2
  <2>3. Machine'
    BY <1>1, <1>2, <2>2 DEF Machine, RegFile, MemFile, Sequence
  <2>4. (CallBegins /\ FrameBegins /\ MovesInv)'
    BY <1>1, <1>2, <2>1, <2>3 DEF CallBegins, FrameBegins, MovesInv
  <2>5. QED
    BY <2>4 DEF FrameInv
<1>4. CASE MoveArgs
  <2>1. PICK c : c = RegArgs(site)
    OBVIOUS
  <2>2. Callable(c, regs)
    BY ONLY <1>1, <2>1, SiteCallable
  <2>3. StartMoves(c) /\ UNCHANGED <<regs, mem, stack>>
    BY <1>4, <2>1 DEF MoveArgs
  <2>4. MovesInv'
    BY ONLY <1>1, <2>2, <2>3, StartInv, Machine DEF Machine
  <2>5. pc' = "moves"
    BY <2>3 DEF StartMoves
  <2>6. QED
    BY <2>4, <2>5 DEF FrameInv, CallBegins, FrameBegins
<1>5. QED
  BY <1>3, <1>4

\* The entry of a function.
LEMMA EntryStep ==
    ASSUME FrameInv, Prologue \/ EntryMove \/ EndParams \/ Body
    PROVE  FrameInv'
<1>1. (\E F \in Fns : fn \in F) /\ Machine /\ fn' = fn
  BY DEF FrameInv, FrameBegins, Prologue, EntryMove, EndParams, Body, frameVars
<1>2. CASE Prologue
  <2>1. /\ stack = << >> /\ (\A r \in Wide : regs[r] = EntryWord(r))
        /\ pc' = "params" /\ ri' = 1 /\ mem' = mem
    BY <1>2 DEF Prologue, FrameInv, FrameBegins
  <2>2. /\ RegFile(regs') /\ Sequence(stack')
        /\ fn.frame => regs'["BP"] = FrameBP /\ AtBP' = CallerBP
    BY <1>1, <1>2, <2>1, Entered
  <2>3. Machine'
    BY <1>1, <2>1, <2>2 DEF Machine, RegFile, MemFile, Sequence
  <2>4. FrameBegins'
    BY <1>1, <2>1, <2>2, <2>3 DEF FrameBegins, CallerBP
  <2>5. QED
    BY <2>1, <2>4 DEF FrameInv, CallBegins, MovesInv
<1>3. CASE EntryMove
  <2>1. /\ pc = "params" /\ pc' = "params" /\ ri' = ri + 1 /\ stack' = stack /\ fp' = fp
    BY <1>3 DEF EntryMove, frameVars
  <2>2. ri \in Nat \ {0} /\ (fn.frame => AtBP = CallerBP /\ regs["BP"] = FrameBP)
    BY <2>1 DEF FrameInv, FrameBegins
  <2>3. PICK e, a : e = fn.params[ri].exp /\ a = fn.params[ri].act
    OBVIOUS
  <2>4. /\ ri \in DOMAIN fn.params /\ Machine'
        /\ \A r \in Wide : r # a => regs'[r] = regs[r]
    BY <1>1, <1>3, <2>2, <2>3, EntryMoved
  <2>5. fn.frame => a # "BP"
    BY ONLY <1>1, <2>3, <2>4, ParamIs
  <2>6. fn.frame => regs'["BP"] = FrameBP
    BY <2>2, <2>4, <2>5, Kinds
  <2>7. fn.frame => AtBP' = CallerBP
    BY <2>1, <2>2 DEF AtBP
  <2>8. ri' \in Nat \ {0}
    BY <2>1, <2>2
  <2>9. FrameBegins'
    BY <1>1, <2>1, <2>4, <2>6, <2>7, <2>8 DEF FrameBegins, CallerBP
  <2>10. QED
    BY <2>1, <2>9 DEF FrameInv, CallBegins, MovesInv
<1>4. CASE EndParams
  <2>1. pc = "params" /\ pc' = "body" /\ UNCHANGED <<regs, mem, stack>>
    BY <1>4 DEF EndParams
  <2>2. Machine'
    BY <1>1, <2>1 DEF Machine, RegFile, MemFile, Sequence
  <2>3. FrameBegins'
    BY <1>1, <2>1, <2>2 DEF FrameInv, FrameBegins
  <2>4. QED
    BY <2>1, <2>3 DEF FrameInv, CallBegins, MovesInv
<1>5. CASE Body
  <2>1. pc = "body" /\ pc' = fn.exit /\ UNCHANGED <<mem, stack>>
    BY <1>5 DEF Body
  <2>2. fn.exit \in {"ret", "tail", "ntail"}
    BY <1>1, FnsAssumption
  <2>3. PICK changed :
          /\ fn.frame => "BP" \notin changed
          /\ regs' = [r \in Wide |-> IF r \in changed THEN Unknown ELSE regs[r]]
    <3>1. PICK kept :
            kept = {PushReg(b) : b \in Locs(fn) \ Spilled} \cup {"DS", "CS", "SS"}
                   \cup (IF fn.frame THEN {"BP"} ELSE {})
      OBVIOUS
    <3>2. PICK changed : changed = IF fn.isr THEN fn.used \ kept ELSE Wide \ kept
      OBVIOUS
    <3>3. fn.frame => "BP" \notin changed
      BY <3>1, <3>2
    <3>4. regs' = [r \in Wide |-> IF r \in changed THEN Unknown ELSE regs[r]]
      BY <1>5, <3>1, <3>2 DEF Body
    <3>5. QED
      BY <3>3, <3>4
  <2>4. RegFile(regs') /\ (fn.frame => regs'["BP"] = regs["BP"])
    <3>1. DOMAIN Unknown = 1 .. 2
      BY FramePairs DEF FramePair
    <3>2. "BP" \in Wide /\ \A r \in Wide : DOMAIN regs[r] = 1 .. 2
      BY <1>1, Kinds DEF Machine, RegFile
    <3>3. QED
      BY <2>3, <3>1, <3>2 DEF RegFile
  <2>5. Machine'
    BY <1>1, <2>1, <2>4 DEF Machine, RegFile, MemFile, Sequence
  <2>6. fn.frame => regs'["BP"] = FrameBP
    BY <2>1, <2>4 DEF FrameInv, FrameBegins
  <2>7. FrameBegins'
    BY <1>1, <2>1, <2>2, <2>5, <2>6 DEF FrameBegins
  <2>8. QED
    BY <2>1, <2>2, <2>7 DEF FrameInv, CallBegins, MovesInv
<1>6. QED
  BY <1>2, <1>3, <1>4, <1>5

\* Near indirect tail calls up to their moves.
LEMMA TailStep ==
    ASSUME FrameInv, StartTail \/ TailMoves
    PROVE  FrameInv'
<1>1. /\ \E F \in Fns : fn \in F
      /\ Machine /\ (fn.frame => regs["BP"] = FrameBP) /\ fn.exit = "ntail"
      /\ UNCHANGED <<regs, mem, fn>>
  BY DEF FrameInv, FrameBegins, StartTail, TailMoves, frameVars
<1>2. CASE StartTail
  <2>1. pc' = "ntailargs"
    BY <1>2 DEF StartTail
  <2>2. PICK w : stack' = stack \/ stack' = <<w>> \o stack
    BY <1>2 DEF StartTail
  <2>3. Sequence(stack')
    <3>1. PICK S : stack \in Seq(S)
      BY <1>1 DEF Machine, Sequence
    <3>2. PICK U : U = S \cup {w}
      OBVIOUS
    <3>3. stack \in Seq(U) /\ <<w>> \in Seq(U)
      BY <3>1, <3>2
    <3>4. <<w>> \o stack \in Seq(U)
      BY ONLY <3>3, ConcatProperties
    <3>5. QED
      BY <2>2, <3>3, <3>4 DEF Sequence
  <2>4. Machine'
    BY <1>1, <2>3 DEF Machine, RegFile, MemFile, Sequence
  <2>5. FrameBegins'
    BY <1>1, <2>1, <2>4 DEF FrameBegins
  <2>6. QED
    BY <2>1, <2>5 DEF FrameInv, CallBegins, MovesInv
<1>3. CASE TailMoves
  <2>1. PICK c : c = [k \in DOMAIN fn.out |-> [src |-> SrcLoc(k), dst |-> fn.out[k].dst]]
    OBVIOUS
  <2>2. Callable(c, regs)
    BY ONLY <1>1, <2>1, TailCallable
  <2>3. StartMoves(c) /\ UNCHANGED <<regs, mem, stack>>
    BY <1>3, <2>1 DEF TailMoves
  <2>4. MovesInv'
    BY ONLY <1>1, <2>2, <2>3, StartInv, Machine DEF Machine
  <2>5. pc' = "moves"
    BY <2>3 DEF StartMoves
  <2>6. QED
    BY <2>4, <2>5 DEF FrameInv, CallBegins, FrameBegins
<1>4. QED
  BY <1>2, <1>3

\* Every step keeps the invariant.
LEMMA InvStep ==
    ASSUME FrameInv, [Next]_fvars
    PROVE  FrameInv'
<1>1. CASE emit_call_saves \/ PushArea \/ MoveArgs
  BY <1>1, CallStep
<1>2. CASE Prologue \/ EntryMove \/ EndParams \/ Body
  BY <1>2, EntryStep
<1>3. CASE StartTail \/ TailMoves
  BY <1>3, TailStep
<1>4. CASE MoveStep
  <2>1. MovesInv'
    BY <1>4, MovesStep DEF FrameInv
  <2>2. pc' \in {"moves", "pops", "placed"}
    BY <1>4 DEF MoveStep, EmitMove, SaveMove, StartPops, PopSaved, EndPops
  <2>3. QED
    BY <2>1, <2>2 DEF FrameInv, CallBegins, FrameBegins
<1>5. CASE EmitCall \/ CaptureResult \/ EndCapture \/ DropArea \/ emit_call_restores
           \/ ReloadResult \/ EndCall
  <2>1. pc' \in {"capture", "cleanup", "restore", "reload", "end"}
    BY <1>5 DEF EmitCall, CaptureResult, EndCapture, DropArea, emit_call_restores,
                ReloadResult, EndCall
  <2>2. QED
    BY <2>1 DEF FrameInv, CallBegins, FrameBegins, MovesInv
<1>6. CASE StackReturn \/ TailArgs \/ PopOut \/ EndOut \/ PlanReturn \/ ReturnMove \/ EndReturn
           \/ PopTarget \/ emit_epilogue
  <2>1. pc' \in {"outs", "epilogue", "retmoves", "exit"}
    BY <1>6 DEF StackReturn, TailArgs, PushOut, PopOut, EndOut, PlanReturn, ReturnMove, EndReturn,
                PopTarget, emit_epilogue
  <2>2. QED
    BY <2>1 DEF FrameInv, CallBegins, FrameBegins, MovesInv
<1>7. CASE UNCHANGED fvars
  <2>1. /\ UNCHANGED <<pc, regs, mem, stack, site, ri, fn, fp>>
        /\ UNCHANGED <<call, moves, mi, base>>
    BY <1>7 DEF fvars, vars, siteVars, frameVars, moveVars
  <2>2. Machine => Machine'
    BY <2>1 DEF Machine, RegFile, MemFile, Sequence
  <2>3. CallBegins'
    BY <2>1, <2>2 DEF FrameInv, CallBegins
  <2>4. FrameBegins'
    BY <2>1, <2>2 DEF FrameInv, FrameBegins, EntryWord, AtBP
  <2>5. MovesInv'
    <3>1. ASSUME NEW u, Progress(regs, stack, moves, u) PROVE Progress(regs, stack, moves, u)'
      BY <2>1, <3>1, Carried
    <3>2. (pc' = pc /\ moves' = moves /\ mi' = mi)
      BY <2>1
    <3>3. /\ SourcesKept(moves) => SourcesKept(moves)'
          /\ SavedFirst(moves) => SavedFirst(moves)'
          /\ AllDone(moves) => AllDone(moves)'
      BY <3>2 DEF SourcesKept, SavedFirst, AllDone, Over, Made
    <3>4. CASE pc = "moves"
      BY <3>1, <3>2, <3>3, <3>4 DEF FrameInv, MovesInv
    <3>5. CASE pc = "pops"
      BY <3>1, <3>2, <3>3, <3>5 DEF FrameInv, MovesInv
    <3>6. CASE pc = "placed"
      BY <3>1, <3>2, <3>3, <3>6 DEF FrameInv, MovesInv
    <3>7. QED
      BY <3>2, <3>4, <3>5, <3>6 DEF MovesInv
  <2>6. QED
    BY <2>3, <2>4, <2>5 DEF FrameInv
<1>8. QED
  BY <1>1, <1>2, <1>3, <1>4, <1>5, <1>6, <1>7
     DEF Next, SiteStep, CallNext, SiteMoves, FrameStep

\* The invariant of calls, entries and exits that the theorems below follow from.
THEOREM InvHolds == Spec => []FrameInv
<1>1. Init => FrameInv
  BY InitHolds
<1>2. FrameInv /\ [Next]_fvars => FrameInv'
  BY InvStep
<1>3. QED
  BY <1>1, <1>2, PTL DEF Spec

\* When the moves are made, nothing that was saved for them is left on the stack.
LEMMA NoneLeft ==
    ASSUME FrameInv, pc = "placed"
    PROVE  /\ PlanFor(moves, call) /\ Callable(call, base.regs)
           /\ DataOK(regs, Over(moves, 0)) /\ stack = base.stack
           /\ ~BothHalvesOfAX => LandedInv(regs, stack, moves, 0)
           /\ \A i \in DOMAIN moves : i \in Made(moves, 0)
<1>1. Progress(regs, stack, moves, 0) /\ AllDone(moves)
  BY DEF FrameInv, MovesInv
<1>2. PlanFor(moves, call) /\ Callable(call, base.regs)
  BY <1>1 DEF Progress
<1>3. \A i \in DOMAIN moves : i \in Nat /\ 0 < i /\ ~(i <= 0)
  <2>1. moves \in Seq(Move)
    BY <1>2 DEF PlanFor
  <2>2. DOMAIN moves = 1 .. Len(moves) /\ Len(moves) \in Nat
    BY ONLY <2>1, LenProperties
  <2>3. QED
    BY <2>2
<1>4. SavedLeft(moves, 0) = {}
  BY <1>3 DEF SavedLeft
<1>5. StackOn(stack, base.stack, 0)
  BY <1>1, <1>4, FS_EmptySet DEF Progress
<1>6. stack = base.stack
  BY ONLY <1>5, Emptied
<1>7. \A i \in DOMAIN moves : i \in Made(moves, 0)
  BY <1>1, <1>3 DEF Made, AllDone
<1>8. QED
  BY <1>1, <1>2, <1>6, <1>7 DEF Progress

\* Scratch uses of AX and BP are undone: the moves leave the stack and every register
\* no part of which is a destination as they were.
LEMMA Untouched ==
    ASSUME FrameInv
    PROVE  OthersUntouched
<1>1. SUFFICES ASSUME pc = "placed", NEW r \in Wide \ {PushReg(call[a].dst) : a \in DOMAIN call}
               PROVE  stack = base.stack /\ regs[r] = base.regs[r]
  <2>1. pc = "placed" => stack = base.stack
    BY NoneLeft
  <2>2. QED
    BY <2>1 DEF OthersUntouched
<1>2. /\ PlanFor(moves, call) /\ Callable(call, base.regs)
      /\ DataOK(regs, Over(moves, 0)) /\ stack = base.stack
  BY <1>1, NoneLeft
<1>3. \A x \in Over(moves, 0) : \E a \in DOMAIN call : PushReg(x) = PushReg(call[a].dst)
  BY ONLY <1>2, OverIs
<1>4. \A x \in Over(moves, 0) : PushReg(x) # r
  BY <1>1, <1>3
<1>5. QED
  BY <1>2, <1>4 DEF DataOK

\* So they do for every call and near tail call (emit_planned_register_moves).
THEOREM OthersAreUntouched == Spec => []OthersUntouched
<1>1. FrameInv => OthersUntouched
  BY Untouched
<1>2. QED
  BY <1>1, InvHolds, PTL

\* When they are made the arguments are in their registers: those that are moved, and those
\* that were there already.
LEMMA PlacedNow ==
    ASSUME FrameInv
    PROVE  ArgumentsPlaced
<1>1. ASSUME pc = "placed", ~BothHalvesOfAX, NEW a, a \in DOMAIN call
      PROVE  Mismatched(call[a]) \/ Arrived(call[a])
  <2>1. /\ PlanFor(moves, call) /\ Callable(call, base.regs)
        /\ DataOK(regs, Over(moves, 0)) /\ LandedInv(regs, stack, moves, 0)
        /\ \A i \in DOMAIN moves : i \in Made(moves, 0)
    BY <1>1, NoneLeft
  <2>2. PICK d, s : d = call[a].dst /\ s = call[a].src
    OBVIOUS
  <2>3. d \in Reg /\ s \in Source
    BY <1>1, <2>1, <2>2 DEF Callable, Movable
  <2>4. CASE \E i \in DOMAIN moves : moves[i].dst_reg = d /\ moves[i].src = s
    <3>1. Landed(regs, d, s)
      BY <2>1, <2>4 DEF LandedInv
    <3>2. QED
      BY <2>2, <3>1 DEF Landed, Arrived, Mismatched
  <2>5. CASE ~\E i \in DOMAIN moves : moves[i].dst_reg = d /\ moves[i].src = s
    <3>1. pregs_alias(s, d)
      BY <1>1, <2>1, <2>2, <2>5 DEF PlanFor
    <3>2. \A x \in Over(moves, 0) : ~pregs_alias(x, d) /\ x \in Reg
      <4>1. SUFFICES ASSUME NEW i, i \in DOMAIN moves
                     PROVE  ~pregs_alias(Effect(moves[i]), d) /\ Effect(moves[i]) \in Reg
        BY DEF Over, Made
      <4>2. PICK b \in DOMAIN call : call[b].src = moves[i].src /\ call[b].dst = moves[i].dst_reg
        BY <2>1, <4>1 DEF PlanFor
      <4>3. b # a
        BY <2>2, <2>5, <4>1, <4>2
      <4>4. ~pregs_alias(moves[i].dst_reg, d)
        BY <1>1, <2>1, <2>2, <4>2, <4>3 DEF Callable
      <4>5. {moves[i].dst_reg, d} # Halves("AX")
        <5>1. Halves("AX") = {"AL", "AH"}
          BY DEF Halves, preg_alias_lo, preg_alias_hi
        <5>2. QED
          BY <1>1, <2>2, <4>2, <5>1 DEF BothHalvesOfAX
      <4>6. moves[i].saved => ~InAXHalf(moves[i].dst_reg)
        BY <2>1, <4>1 DEF LandedInv
      <4>7. QED
        BY <2>1, <2>3, <4>1, <4>4, <4>5, <4>6, MoveIs
    <3>3. \A w \in Wide, h \in 1 .. 2 : Part(d, w, h) => regs[w][h] = base.regs[w][h]
      <4>1. SUFFICES ASSUME NEW w \in Wide, NEW h \in 1 .. 2, Part(d, w, h)
                     PROVE  regs[w][h] = base.regs[w][h]
        OBVIOUS
      <4>2. \A x \in Over(moves, 0) : ~Part(x, w, h)
        BY <2>3, <3>2, <4>1, PartsAlias
      <4>3. QED
        BY <2>1, <4>2 DEF DataOK
    <3>4. s \in Reg
      <4>1. s \notin Spilled /\ s \notin Remats
        <5>1. s = d \/ s \in WordRegs \/ s \in ByteRegs
          <6>1. \A w \in SplitWords : Halves(w) \subseteq ByteRegs
            BY HalvesOf DEF Halves
          <6>2. QED
            BY <3>1, <6>1, Kinds DEF pregs_alias
        <5>2. QED
          BY <2>3, <5>1, Kinds
      <4>2. QED
        BY <2>3, <4>1, Kinds
    <3>5. /\ PushReg(s) = PushReg(d)
          /\ s \in ByteRegs /\ d \in ByteRegs => Half(s) = Half(d)
      BY <2>3, <3>1, <3>4, Sharing
    <3>6. CASE d \in ByteRegs
      <4>1. Byte(regs, d) = base.regs[PushReg(d)][Half(d)] /\ d \notin Wide
        BY <3>3, <3>6, BytesOf, Kinds DEF Byte
      <4>2. CASE s \in ByteRegs
        BY <2>2, <3>5, <3>6, <4>1, <4>2 DEF Arrived, Before
      <4>3. CASE s \in Wide /\ Half(d) = 2
        BY <2>2, <3>5, <3>6, <4>3, Kinds DEF Mismatched
      <4>4. CASE s \in Wide /\ Half(d) # 2
        <5>1. Half(d) = 1 /\ s \notin ByteRegs /\ PushReg(d) = s
          BY <3>5, <3>6, <4>4, HalfOf, Kinds
        <5>2. QED
          BY <2>2, <4>1, <4>4, <5>1 DEF Arrived, Before
      <4>5. QED
        BY <3>4, <4>2, <4>3, <4>4, Kinds
    <3>7. CASE d \in Wide
      <4>1. regs[d][1] = base.regs[d][1] /\ regs[d][2] = base.regs[d][2]
        BY <3>3, <3>7, BytesOf
      <4>2. Byte(regs, d) = regs[d][1] /\ PushReg(d) = d /\ d \notin ByteRegs
        BY <3>7, Kinds DEF Byte, Word
      <4>3. CASE s \in ByteRegs /\ Half(s) = 2
        BY <2>2, <3>5, <4>2, <4>3 DEF Mismatched
      <4>4. CASE s \in ByteRegs /\ Half(s) # 2
        <5>1. Half(s) = 1 /\ IsByte(s) /\ PushReg(s) = d
          BY <3>5, <4>2, <4>4, HalfOf DEF IsByte
        <5>2. QED
          BY <2>2, <4>1, <4>2, <4>4, <5>1 DEF Arrived, Before
      <4>5. CASE s \in Wide
        <5>1. s = d /\ s \notin ByteRegs
          BY <3>5, <4>2, <4>5, Kinds
        <5>2. QED
          BY <2>2, <4>1, <4>2, <4>5, <5>1 DEF Arrived, Before
      <4>6. QED
        BY <3>4, <4>3, <4>4, <4>5, Kinds
    <3>8. QED
      BY <2>3, <3>6, <3>7, Kinds
  <2>6. QED
    BY <2>4, <2>5
<1>2. QED
  BY <1>1 DEF ArgumentsPlaced

\* Every argument reaches its register, whatever cycles the moves form
\* (emit_call_arg_register_moves).
THEOREM ArgumentsArePlaced == Spec => []ArgumentsPlaced
<1>1. FrameInv => ArgumentsPlaced
  BY PlacedNow
<1>2. QED
  BY <1>1, InvHolds, PTL

-----------------------------------------------------------------------------
(* The parameters. *)

\* What is expected of parameter p before it is moved: it is where the ABI says.
AtHand(p) ==
    LET e == fn.params[p].exp IN
    IF e = STACK THEN mem[fn.params[p].act] = EntryValue(p)
    ELSE /\ EntryWordOf(e)[1] = EntryValue(p)[1]
         /\ e \notin ByteRegs => EntryWordOf(e)[2] = EntryValue(p)[2]

InPlace(p) == Holds(fn.params[p].act, EntryValue(p))

\* The parameters before ri are in place and the others where they came.
ParamsInv ==
    /\ pc = "prologue" => \A h \in Spilled : mem[h] = <<Orig(h, 1), Orig(h, 2)>>
    /\ pc \in {"params", "body"} =>
          /\ \A p \in DOMAIN fn.params : p < ri => InPlace(p) \/ ParamLost(p)
          /\ \A p \in DOMAIN fn.params : ~(p < ri) => AtHand(p) \/ ParamLost(p)
          /\ pc = "body" => ri = Len(fn.params) + 1

\* What depends on the function only.
LEMMA SameFn ==
    ASSUME fn' = fn, NEW p
    PROVE  EntryValue(p)' = EntryValue(p) /\ (ParamLost(p)' <=> ParamLost(p))
  BY DEF EntryValue, EntryWord, ParamLost, EntryCopies

\* After the prologue every parameter is where the ABI says.
LEMMA ParamsEnter ==
    ASSUME FrameInv, ParamsInv, Prologue
    PROVE  ParamsInv'
<1>1. /\ (\E F \in Fns : fn \in F) /\ Machine /\ stack = << >> /\ fn' = fn /\ mem' = mem
      /\ \A r \in Wide : regs[r] = EntryWord(r)
      /\ \A h \in Spilled : mem[h] = <<Orig(h, 1), Orig(h, 2)>>
      /\ pc' = "params" /\ ri' = 1
  BY DEF FrameInv, FrameBegins, ParamsInv, Prologue
<1>2. /\ fn.frame => AtBP' = CallerBP
      /\ \A r \in Wide : (r = "BP" => ~fn.frame) /\ (r = "DS" => ~fn.ds) => regs'[r] = EntryWord(r)
  BY <1>1, Entered
<1>3. ASSUME NEW p, p \in DOMAIN fn.params PROVE p \in Nat /\ ~(p < 1) /\ (AtHand(p)' \/ ParamLost(p))
  <2>1. PICK e, a : e = fn.params[p].exp /\ a = fn.params[p].act
    OBVIOUS
  <2>2. /\ e \in Reg \cup {STACK} /\ a \in Reg \cup Spilled /\ (e = STACK => a \in Spilled)
        /\ p \in Nat /\ ~(p < 1)
    <3>1. /\ e \in Reg \cup {STACK} /\ a \in Reg \cup Spilled /\ (e = STACK => a \in SpilledWords)
          /\ DOMAIN fn.params = 1 .. Len(fn.params) /\ Len(fn.params) \in Nat
      BY ONLY <1>1, <1>3, <2>1, ParamIs
    <3>2. QED
      BY <1>3, <3>1 DEF Spilled
  <2>3. CASE e = STACK
    <3>1. mem'[a] = <<Orig(a, 1), Orig(a, 2)>>
      BY <1>1, <2>2, <2>3
    <3>2. EntryValue(p) = <<Orig(a, 1), Orig(a, 2)>>
      BY <2>1, <2>3 DEF EntryValue
    <3>3. AtHand(p)'
      BY <1>1, <2>1, <2>3, <3>1, <3>2, SameFn DEF AtHand
    <3>4. QED
      BY <2>2, <3>3
  <2>4. CASE e # STACK /\ e = "DS" /\ fn.ds
    BY <2>1, <2>2, <2>4 DEF ParamLost
  <2>5. CASE e # STACK /\ ~(e = "DS" /\ fn.ds)
    <3>1. /\ e \in Reg /\ PushReg(e) \in Wide /\ (e \in Wide => e \notin ByteRegs)
          /\ e \in ByteRegs => PushReg(e) # "BP" /\ PushReg(e) # "DS"
      <4>1. "DS" \notin SplitWords
        BY DEF SplitWords
      <4>2. QED
        BY <2>2, <2>5, <4>1, Kinds
    <3>2. CASE e \in ByteRegs
      <4>1. regs'[PushReg(e)] = EntryWord(PushReg(e)) /\ ~InFrameBP(e)
        BY <1>2, <3>1, <3>2, Kinds DEF InFrameBP
      <4>2. EntryWordOf(e)' = <<regs'[PushReg(e)][Half(e)], Junk>>
        BY <1>1, <3>2, <4>1 DEF EntryWordOf, InFrameBP, ReadPlace, Byte
      <4>3. EntryValue(p) = <<EntryWord(PushReg(e))[Half(e)], Junk>>
        BY <2>1, <2>5, <3>2 DEF EntryValue
      <4>4. EntryWordOf(e)'[1] = EntryValue(p)[1]
        BY <4>1, <4>2, <4>3
      <4>5. AtHand(p)'
        BY <1>1, <2>1, <2>5, <3>2, <4>4, SameFn DEF AtHand
      <4>6. QED
        BY <2>2, <4>5
    <3>3. CASE e \notin ByteRegs
      <4>1. e \in Wide /\ EntryValue(p) = EntryWord(e)
        BY <2>1, <2>5, <3>1, <3>3, Kinds DEF EntryValue
      <4>2. EntryWordOf(e)' = EntryWord(e)
        <5>1. CASE InFrameBP(e)
          <6>1. AtBP' = CallerBP /\ EntryWord(e) = CallerBP
            BY <1>2, <5>1 DEF InFrameBP, EntryWord
          <6>2. QED
            BY <1>1, <5>1, <6>1 DEF EntryWordOf, InFrameBP
        <5>2. CASE ~InFrameBP(e)
          <6>1. regs'[e] = EntryWord(e)
            BY <1>2, <2>5, <4>1, <5>2 DEF InFrameBP
          <6>2. QED
            BY <1>1, <3>3, <5>2, <6>1 DEF EntryWordOf, InFrameBP, ReadPlace
        <5>3. QED
          BY <5>1, <5>2
      <4>3. AtHand(p)'
        BY <1>1, <2>1, <2>5, <4>1, <4>2, SameFn DEF AtHand
      <4>4. QED
        BY <2>2, <4>3
    <3>4. QED
      BY <3>2, <3>3
  <2>6. QED
    BY <2>3, <2>4, <2>5
<1>4. \A p \in DOMAIN fn.params : ~(p < 1) /\ (AtHand(p)' \/ ParamLost(p)')
  BY <1>1, <1>3, SameFn
<1>5. QED
  BY <1>1, <1>4 DEF ParamsInv

\* A value stays at h while h keeps its bytes.
LEMMA HoldsStay ==
    ASSUME NEW h, NEW w, Holds(h, w), h \in Spilled => mem'[h] = mem[h],
           h \in Reg => regs'[PushReg(h)] = regs[PushReg(h)], h \in Reg \cup Spilled
    PROVE  Holds(h, w)'
<1>1. CASE h \in Spilled
  BY <1>1 DEF Holds
<1>2. CASE h \notin Spilled /\ h \in Wide
  <2>1. regs'[h] = regs[h]
    BY <1>2, Kinds
  <2>2. QED
    BY <1>2, <2>1 DEF Holds
<1>3. CASE h \notin Spilled /\ h \notin Wide
  <2>1. h \in ByteRegs /\ h \in Reg
    BY <1>3, Kinds
  <2>2. Byte(regs, h)' = Byte(regs, h)
    BY <2>1 DEF Byte
  <2>3. QED
    BY <1>3, <2>2 DEF Holds
<1>4. QED
  BY <1>1, <1>2, <1>3

\* Two parameters are kept apart in the body.
LEMMA ParamsDiffer ==
    ASSUME NEW f, \E F \in Fns : f \in F, NEW p, NEW q,
           p \in DOMAIN f.params, q \in DOMAIN f.params, p # q
    PROVE  /\ f.params[p].act # f.params[q].act
           /\ ~pregs_alias(f.params[p].act, f.params[q].act)
  BY FnsAssumption

\* Moving one parameter puts it in place and neither disturbs those that are nor
\* takes away those still to come, but for those that ParamLost names.
LEMMA ParamsMove ==
    ASSUME FrameInv, ParamsInv, EntryMove
    PROVE  ParamsInv'
<1>1. /\ \E F \in Fns : fn \in F
      /\ Machine /\ fn' = fn /\ fp' = fp /\ stack' = stack
      /\ pc = "params" /\ pc' = "params" /\ ri' = ri + 1 /\ ri \in Nat \ {0}
      /\ fn.frame => AtBP = CallerBP /\ regs["BP"] = FrameBP
  BY DEF FrameInv, FrameBegins, EntryMove, frameVars
<1>2. PICK c, e, a : /\ c = ri /\ e = fn.params[ri].exp /\ a = fn.params[ri].act
                     /\ e = fn.params[c].exp /\ a = fn.params[c].act
  OBVIOUS
<1>3. /\ ri \in DOMAIN fn.params
      /\ e # STACK => DOMAIN EntryWordOf(e) = 1 .. 2
      /\ \A r \in Wide : r # a => regs'[r] = regs[r]
      /\ \A h \in Spilled : h # a => mem'[h] = mem[h]
      /\ EntryCopies(e, a) => regs'[a] = EntryWordOf(e)
      /\ ~EntryCopies(e, a) => regs' = regs
      /\ a \in Spilled /\ e = STACK => mem' = mem
      /\ a \in Spilled /\ e # STACK /\ regs["BP"] = FrameBP =>
            mem'[a][1] = EntryWordOf(e)[1] /\ (~IsByte(a) => mem'[a][2] = EntryWordOf(e)[2])
  BY <1>1, <1>2, EntryMoved
<1>4. /\ DOMAIN fn.params = 1 .. Len(fn.params) /\ Len(fn.params) \in Nat
      /\ e \in Reg \cup {STACK} /\ a \in Reg \cup Spilled
      /\ e = STACK => a \in SpilledWords
      /\ e # STACK => (e \in ByteRegs) = IsByte(a)
      /\ fn.frame => a # "BP"
      /\ a \in Spilled => fn.frame
  BY ONLY <1>1, <1>2, <1>3, ParamIs
<1>5. AtBP' = AtBP
  BY <1>1 DEF AtBP
<1>6. ASSUME AtHand(c), ~ParamLost(c) PROVE InPlace(c)'
  <2>1. PICK v : v = EntryValue(c) /\ v = EntryValue(c)'
    BY <1>1, SameFn
  <2>2. e # STACK => /\ EntryWordOf(e)[1] = v[1]
                     /\ e \notin ByteRegs => EntryWordOf(e)[2] = v[2]
    BY <1>2, <1>6, <2>1 DEF AtHand
  <2>3. CASE e = STACK
    <3>1. a \in Spilled /\ mem[a] = v /\ mem' = mem
      BY <1>2, <1>3, <1>4, <1>6, <2>1, <2>3 DEF AtHand, Spilled
    <3>2. Holds(a, v)'
      BY <3>1 DEF Holds
    <3>3. QED
      BY <1>1, <1>2, <2>1, <3>2 DEF InPlace
  <2>4. CASE e # STACK /\ a \in Spilled
    <3>1. mem'[a][1] = v[1] /\ (~IsByte(a) => mem'[a][2] = v[2])
      BY <1>1, <1>3, <1>4, <2>2, <2>4
    <3>2. Holds(a, v)'
      BY <2>4, <3>1 DEF Holds
    <3>3. QED
      BY <1>1, <1>2, <2>1, <3>2 DEF InPlace
  <2>5. CASE e # STACK /\ a \in ByteRegs
    <3>1. a = e /\ ~InFrameBP(e) /\ a \notin Spilled /\ a \notin Wide
      BY <1>2, <1>6, <2>5, Kinds DEF ParamLost, InFrameBP
    <3>2. regs' = regs
      BY <1>3, <3>1, <2>5, Kinds DEF EntryCopies
    <3>3. EntryWordOf(e) = <<Byte(regs, e), Junk>>
      BY <2>5, <3>1 DEF EntryWordOf, ReadPlace
    <3>4. Byte(regs, a)' = v[1] /\ IsByte(a)
      BY <2>2, <2>5, <3>1, <3>2, <3>3 DEF Byte, IsByte
    <3>5. Holds(a, v)'
      BY <3>1, <3>4 DEF Holds
    <3>6. QED
      BY <1>1, <1>2, <2>1, <3>5 DEF InPlace
  <2>6. CASE e # STACK /\ a \in Wide
    <3>1. a \notin Spilled /\ a \notin ByteRegs /\ ~IsByte(a) /\ e \notin ByteRegs /\ e \in Wide
          /\ a \in WordRegs \cup SegRegs /\ e \in WordRegs \cup SegRegs
      <4>1. a \notin Spilled /\ a \notin ByteRegs
        BY <2>6, Kinds
      <4>2. ~IsByte(a)
        BY <4>1, Kinds DEF IsByte
      <4>3. QED
        BY <1>4, <2>6, <4>1, <4>2, Kinds
    <3>2. regs'[a] = EntryWordOf(e)
      <4>1. CASE EntryCopies(e, a)
        BY <1>3, <4>1
      <4>2. CASE ~EntryCopies(e, a)
        <5>1. ~(a \in WordRegs /\ e \in SegRegs)
          BY <1>2, <1>6 DEF ParamLost
        <5>2. pregs_alias(a, e)
          BY <3>1, <4>2, <5>1 DEF EntryCopies
        <5>3. a = e
          BY <2>6, <3>1, <5>2, Kinds, Sharing
        <5>4. ~InFrameBP(e)
          BY <1>4, <5>3 DEF InFrameBP
        <5>5. EntryWordOf(e) = regs[e]
          BY <3>1, <5>4 DEF EntryWordOf, ReadPlace
        <5>6. QED
          BY <1>3, <4>2, <5>3, <5>5
      <4>3. QED
        BY <4>1, <4>2
    <3>3. Holds(a, v)'
      BY <2>2, <2>6, <3>1, <3>2 DEF Holds
    <3>4. QED
      BY <1>1, <1>2, <2>1, <3>3 DEF InPlace
  <2>7. QED
    BY <1>4, <2>3, <2>4, <2>5, <2>6, Kinds
<1>7. ASSUME NEW p, p \in DOMAIN fn.params, p # ri PROVE InPlace(p) => InPlace(p)'
  <2>1. PICK b, v : b = fn.params[p].act /\ v = EntryValue(p) /\ v = EntryValue(p)'
    BY <1>1, SameFn
  <2>2. b \in Reg \cup Spilled
    BY ONLY <1>1, <1>7, <2>1, ParamIs
  <2>3. b # a /\ ~pregs_alias(b, a)
    BY ONLY <1>1, <1>2, <1>3, <1>7, <2>1, ParamsDiffer
  <2>4. b \in Spilled => mem'[b] = mem[b]
    BY <1>3, <2>3
  <2>5. ASSUME b \in Reg PROVE regs'[PushReg(b)] = regs[PushReg(b)]
    <3>1. PushReg(b) \in Wide
      BY <2>5, Kinds
    <3>2. CASE a \in Wide
      <4>1. PushReg(b) # a
        BY <2>3, <2>5, <3>2, Kinds, Sharing
      <4>2. QED
        BY <1>3, <3>1, <4>1
    <3>3. CASE a \notin Wide
      BY <1>3, <3>1, <3>3
    <3>4. QED
      BY <3>2, <3>3
  <2>6. ASSUME InPlace(p) PROVE InPlace(p)'
    <3>1. Holds(b, v)
      BY <2>1, <2>6 DEF InPlace
    <3>2. Holds(b, v)'
      BY <2>2, <2>4, <2>5, <3>1, HoldsStay
    <3>3. QED
      BY <1>1, <2>1, <3>2 DEF InPlace
  <2>7. QED
    BY <2>6
<1>8. ASSUME NEW p, p \in DOMAIN fn.params, ~(p < ri + 1) PROVE AtHand(p) => AtHand(p)' \/ ParamLost(p)
  <2>1. PICK f, b, v : f = fn.params[p].exp /\ b = fn.params[p].act
                       /\ v = EntryValue(p) /\ v = EntryValue(p)'
    BY <1>1, SameFn
  <2>2. f \in Reg \cup {STACK} /\ (f = STACK => b \in SpilledWords)
    BY ONLY <1>1, <1>8, <2>1, ParamIs
  <2>3. p # ri /\ ri \in 1 .. p - 1
    BY <1>1, <1>4, <1>8
  <2>4. b # a
    BY ONLY <1>1, <1>2, <1>3, <1>8, <2>1, <2>3, ParamsDiffer
  <2>5. SUFFICES ASSUME AtHand(p), ~ParamLost(p) PROVE AtHand(p)'
    OBVIOUS
  <2>6. CASE f = STACK
    <3>1. mem'[b] = mem[b]
      BY <1>3, <2>2, <2>4, <2>6 DEF Spilled
    <3>2. QED
      BY <1>1, <2>1, <2>5, <2>6, <3>1 DEF AtHand
  <2>7. CASE f # STACK
    <3>1. EntryCopies(e, a) => ~pregs_alias(a, f)
      BY <1>2, <2>1, <2>3, <2>5 DEF ParamLost
    <3>2. f \in Reg /\ PushReg(f) \in Wide
      BY <2>2, <2>7, Kinds
    <3>3. regs'[PushReg(f)] = regs[PushReg(f)]
      <4>1. CASE EntryCopies(e, a) /\ a \in Wide
        <5>1. PushReg(f) # a
          BY <3>1, <3>2, <4>1, Kinds, Sharing
        <5>2. QED
          BY <1>3, <3>2, <5>1
      <4>2. CASE a \notin Wide
        BY <1>3, <3>2, <4>2
      <4>3. CASE ~EntryCopies(e, a)
        BY <1>3, <4>3
      <4>4. QED
        BY <4>1, <4>2, <4>3
    <3>4. EntryWordOf(f)' = EntryWordOf(f)
      <4>1. CASE InFrameBP(f)
        BY <1>1, <1>5, <4>1 DEF EntryWordOf, InFrameBP
      <4>2. CASE ~InFrameBP(f) /\ f \in ByteRegs
        BY <1>1, <3>3, <4>2 DEF EntryWordOf, InFrameBP, ReadPlace, Byte
      <4>3. CASE ~InFrameBP(f) /\ f \notin ByteRegs
        <5>1. PushReg(f) = f
          BY <4>3 DEF PushReg
        <5>2. QED
          BY <1>1, <3>3, <4>3, <5>1 DEF EntryWordOf, InFrameBP, ReadPlace
      <4>4. QED
        BY <4>1, <4>2, <4>3
    <3>5. QED
      BY <1>1, <2>1, <2>5, <2>7, <3>4 DEF AtHand
  <2>8. QED
    BY <2>6, <2>7
<1>9. /\ \A p \in DOMAIN fn.params : p < ri => InPlace(p) \/ ParamLost(p)
      /\ \A p \in DOMAIN fn.params : ~(p < ri) => AtHand(p) \/ ParamLost(p)
  BY <1>1 DEF ParamsInv
<1>10. ASSUME NEW p, p \in DOMAIN fn.params PROVE p < ri + 1 => InPlace(p)' \/ ParamLost(p)
  <2>1. p \in Nat
    BY <1>4, <1>10
  <2>2. p < ri + 1 => p < ri \/ p = ri
    BY <1>1, <2>1
  <2>3. ~(ri < ri)
    BY <1>1
  <2>4. CASE p = ri
    <3>1. p = c /\ (AtHand(c) \/ ParamLost(c))
      BY <1>2, <1>9, <1>10, <2>3, <2>4
    <3>2. QED
      BY <1>6, <3>1
  <2>5. CASE p # ri
    BY <1>7, <1>9, <1>10, <2>2, <2>5
  <2>6. QED
    BY <2>4, <2>5
<1>11. ASSUME NEW p, p \in DOMAIN fn.params PROVE ~(p < ri + 1) => AtHand(p)' \/ ParamLost(p)
  <2>1. ~(p < ri + 1) => ~(p < ri)
    BY <1>1, <1>4, <1>11
  <2>2. QED
    BY <1>8, <1>9, <1>11, <2>1
<1>12. QED
  BY <1>1, <1>10, <1>11, SameFn DEF ParamsInv

\* Every step keeps the parameters where they belong.
LEMMA ParamsStep ==
    ASSUME FrameInv, ParamsInv, [Next]_fvars
    PROVE  ParamsInv'
<1>1. CASE Prologue
  BY <1>1, ParamsEnter
<1>2. CASE EntryMove
  BY <1>2, ParamsMove
<1>3. CASE EndParams
  <2>1. /\ pc = "params" /\ pc' = "body" /\ ri = Len(fn.params) + 1
        /\ UNCHANGED <<regs, mem, stack, ri, fn, fp>>
    BY <1>3 DEF EndParams, siteVars, frameVars
  <2>2. ASSUME NEW p PROVE InPlace(p)' = InPlace(p) /\ AtHand(p)' = AtHand(p) /\ ParamLost(p)' = ParamLost(p)
    BY <2>1 DEF InPlace, AtHand, Holds, Byte, Word, EntryWordOf, InFrameBP, AtBP, ReadPlace,
                EntryValue, EntryWord, ParamLost, EntryCopies
  <2>3. QED
    BY <2>1, <2>2 DEF ParamsInv
<1>4. CASE Body
  <2>1. (\E F \in Fns : fn \in F) /\ pc' = fn.exit
    BY <1>4 DEF FrameInv, FrameBegins, Body
  <2>2. fn.exit \in {"ret", "tail", "ntail"}
    BY <2>1, FnsAssumption
  <2>3. QED
    BY <2>1, <2>2 DEF ParamsInv
<1>5. CASE SiteStep
  <2>1. pc' \notin {"prologue", "params", "body"}
    BY <1>5 DEF SiteStep, CallNext, emit_call_saves, PushArea, MoveArgs, StartMoves, SiteMoves,
                MoveStep, EmitMove, SaveMove, StartPops, PopSaved, EndPops, EmitCall,
                CaptureResult, EndCapture, DropArea, emit_call_restores, ReloadResult, EndCall
  <2>2. QED
    BY <2>1 DEF ParamsInv
<1>6. CASE StackReturn \/ TailArgs \/ PopOut \/ EndOut \/ PlanReturn \/ ReturnMove \/ EndReturn
           \/ StartTail \/ TailMoves \/ PopTarget \/ emit_epilogue
  <2>1. pc' \notin {"prologue", "params", "body"}
    BY <1>6 DEF StackReturn, TailArgs, PushOut, PopOut, EndOut, PlanReturn, ReturnMove, EndReturn,
                StartTail, TailMoves, StartMoves, PopTarget, emit_epilogue
  <2>2. QED
    BY <2>1 DEF ParamsInv
<1>7. CASE UNCHANGED fvars
  <2>1. UNCHANGED <<pc, regs, mem, stack, ri, fn, fp>>
    BY <1>7 DEF fvars, vars, siteVars, frameVars
  <2>2. ASSUME NEW p PROVE InPlace(p)' = InPlace(p) /\ AtHand(p)' = AtHand(p) /\ ParamLost(p)' = ParamLost(p)
    BY <2>1 DEF InPlace, AtHand, Holds, Byte, Word, EntryWordOf, InFrameBP, AtBP, ReadPlace,
                EntryValue, EntryWord, ParamLost, EntryCopies
  <2>3. QED
    BY <2>1, <2>2 DEF ParamsInv
<1>8. QED
  BY <1>1, <1>2, <1>3, <1>4, <1>5, <1>6, <1>7 DEF Next, FrameStep

\* No parameter has moved before the first step.
LEMMA ParamsFirst ==
    ASSUME Init
    PROVE  ParamsInv
<1>1. PICK bp : InitMachine(bp)
  BY DEF Init, CallInit, FrameInit
<1>2. \A h \in Spilled : mem[h] = <<Orig(h, 1), Orig(h, 2)>>
  BY <1>1 DEF InitMachine
<1>3. pc \in {"saves", "prologue"}
  BY DEF Init, CallInit, FrameInit
<1>4. QED
  BY <1>2, <1>3 DEF ParamsInv

\* After the entry moves of bind.c every parameter is where the allocator put it,
\* except those that ParamLost names, whatever the function and its allocation.
THEOREM ParamsArePlaced == Spec => []ParamsPlaced
<1>1. Init => ParamsInv
  BY ParamsFirst
<1>2. FrameInv /\ ParamsInv /\ [Next]_fvars => ParamsInv'
  BY ParamsStep
<1>3. FrameInv /\ ParamsInv => ParamsPlaced
  <2>1. ASSUME FrameInv, ParamsInv, pc = "body", NEW p, p \in DOMAIN fn.params
        PROVE  Holds(fn.params[p].act, EntryValue(p)) \/ ParamLost(p)
    <3>1. ri = Len(fn.params) + 1 /\ (p < ri => InPlace(p) \/ ParamLost(p))
      BY <2>1 DEF ParamsInv
    <3>2. DOMAIN fn.params = 1 .. Len(fn.params) /\ Len(fn.params) \in Nat
      <4>1. \E F \in Fns : fn \in F
        BY <2>1 DEF FrameInv, FrameBegins
      <4>2. QED
        BY ONLY <2>1, <4>1, ParamIs
    <3>3. p < ri
      BY <2>1, <3>1, <3>2
    <3>4. QED
      BY <3>1, <3>3 DEF InPlace
  <2>2. QED
    BY <2>1 DEF ParamsPlaced
<1>4. QED
  BY <1>1, <1>2, <1>3, InvHolds, PTL DEF Spec

-----------------------------------------------------------------------------
(* Words popped together. *)

\* The words of the registers order in rf lie on b, the last on top.
Lies(st, b, order, rf) ==
    /\ StackOn(st, b, Len(order))
    /\ \A k \in 1 .. Len(order) : order[k] # "SP" => st[Len(order) + 1 - k] = rf[order[k]]

\* A stack lies on itself.
LEMMA OnItself ==
    ASSUME NEW st, Sequence(st)
    PROVE  StackOn(st, st, 0)
<1>1. PICK S : st \in Seq(S)
  BY DEF Sequence
<1>2. Len(st) \in Nat
  BY <1>1
<1>3. \A k \in 1 .. Len(st) : 0 + k = k
  BY <1>2
<1>4. QED
  BY <1>2, <1>3 DEF StackOn

\* What lay on top is dropped.
LEMMA DropOn ==
    ASSUME NEW st, NEW b, NEW n, StackOn(st, b, n), NEW tt, tt = Drop(st, n)
    PROVE  tt = b
<1>1. PICK S, T : st \in Seq(S) /\ b \in Seq(T)
  BY DEF StackOn, Sequence
<1>2. PICK l, m : l = Len(st) /\ m = Len(b) /\ l = n + m /\ n \in Nat /\ m \in Nat
  BY <1>1 DEF StackOn
<1>3. tt = SubSeq(st, n + 1, l)
  BY <1>2 DEF Drop
<1>4. \A i \in n + 1 .. l : st[i] \in S
  <2>1. DOMAIN st = 1 .. l /\ \A i \in 1 .. l : st[i] \in S
    BY ONLY <1>1, <1>2, LenProperties, ElementsIn
  <2>2. \A i \in n + 1 .. l : i \in 1 .. l
    BY ONLY <1>2
  <2>3. QED
    BY ONLY <2>1, <2>2
<1>5. n + 1 \in Int /\ l \in Int /\ n + 1 >= 1 /\ n + 1 <= l + 1
  BY ONLY <1>2
<1>6. tt \in Seq(S) /\ Len(tt) = m /\ \A i \in 1 .. m : tt[i] = st[n + i]
  <2>1. l - (n + 1) + 1 = m /\ \A i \in 1 .. m : n + 1 + i - 1 = n + i
    BY ONLY <1>2
  <2>2. tt = [i \in 1 .. m |-> st[n + i]]
    BY ONLY <1>2, <1>3
  <2>3. \A i \in 1 .. m : n + i \in n + 1 .. l
    BY ONLY <1>2
  <2>4. tt \in [1 .. m -> S]
    BY ONLY <1>4, <2>2, <2>3
  <2>5. tt \in Seq(S) /\ Len(tt) = m
    BY ONLY <1>2, <2>4, FunctionSeq
  <2>6. QED
    BY ONLY <2>2, <2>5
<1>7. \A i \in 1 .. m : st[n + i] = b[i]
  BY <1>2 DEF StackOn
<1>8. QED
  BY <1>1, <1>2, <1>6, <1>7

\* Registers popped in the order they were pushed in get their words back.
LEMMA PoppedOff ==
    ASSUME NEW rf, RegFile(rf), NEW order, order \in Seq(Wide \cup {"SP"}), NEW st, NEW b,
           NEW was, RegFile(was), Lies(st, b, order, was), NEW rg, rg = Popped(rf, st, order)
    PROVE  /\ RegFile(rg)
           /\ \A r \in Wide : rg[r] = IF r \in ToSet(order) THEN was[r] ELSE rf[r]
<1>1. DOMAIN order = 1 .. Len(order) /\ Len(order) \in Nat
  BY ONLY order \in Seq(Wide \cup {"SP"}), LenProperties
<1>2. /\ DOMAIN rg = Wide
      /\ \A r \in Wide : rg[r] = IF r \in ToSet(order)
                                 THEN st[Len(order) + 1 - CHOOSE k \in DOMAIN order : order[k] = r]
                                 ELSE rf[r]
  BY DEF Popped
<1>3. ASSUME NEW r \in Wide, r \in ToSet(order) PROVE rg[r] = was[r]
  <2>1. \E k \in DOMAIN order : order[k] = r
    BY <1>3 DEF ToSet
  <2>2. PICK k : k = CHOOSE j \in DOMAIN order : order[j] = r
    OBVIOUS
  <2>3. k \in DOMAIN order /\ order[k] = r
    BY ONLY <2>1, <2>2
  <2>4. order[k] # "SP"
    BY <2>3, Kinds
  <2>5. st[Len(order) + 1 - k] = was[r]
    BY <1>1, <2>3, <2>4 DEF Lies
  <2>6. QED
    BY <1>2, <1>3, <2>2, <2>5
<1>4. \A r \in Wide : rg[r] = IF r \in ToSet(order) THEN was[r] ELSE rf[r]
  BY <1>2, <1>3
<1>5. QED
  BY <1>2, <1>4 DEF RegFile

-----------------------------------------------------------------------------
(* What the prologue lays down. *)

EntryRegs == [r \in Wide |-> EntryWord(r)]
FrameRegs == IF fn.frame THEN Put16(EntryRegs, "BP", FrameBP) ELSE EntryRegs

\* What the prologue pushes, a layer on the other.
Handled == Pushed(<< >>, EntryRegs, SaveOrder(isr_save(fn)))
Framed  == IF fn.frame THEN Push(CallerBP, Handled) ELSE Handled
Kept   == Pushed(Framed, FrameRegs, fn.saves)
OnEntry == IF ds_explicit_save(fn) THEN Push(EntryWord("DS"), Kept) ELSE Kept

\* The layers: the registers of an interrupt handler, BP, those the function
\* preserves, and DS.
LayersLie ==
    /\ RegFile(EntryRegs) /\ RegFile(FrameRegs)
    /\ \A r \in Wide : /\ EntryRegs[r] = EntryWord(r)
                       /\ FrameRegs[r] = IF r = "BP" /\ fn.frame THEN FrameBP ELSE EntryWord(r)
    /\ SaveOrder(isr_save(fn)) \in Seq(Wide \cup {"SP"})
    /\ fn.saves \in Seq(Wide \cup {"SP"})
    /\ Lies(Handled, << >>, SaveOrder(isr_save(fn)), EntryRegs)
    /\ StackOn(Framed, Handled, IF fn.frame THEN 1 ELSE 0)
    /\ fn.frame => Framed[1] = CallerBP
    /\ Lies(Kept, Framed, fn.saves, FrameRegs)
    /\ StackOn(OnEntry, Kept, IF ds_explicit_save(fn) THEN 1 ELSE 0)
    /\ ds_explicit_save(fn) => OnEntry[1] = EntryWord("DS")

\* It is so for every function.
LEMMA Layers ==
    ASSUME \E F \in Fns : fn \in F
    PROVE  LayersLie
<1>1. \A r \in Wide : DOMAIN EntryWord(r) = 1 .. 2
  <2>1. \A r : DOMAIN <<Orig(r, 1), Orig(r, 2)>> = 1 .. 2
    OBVIOUS
  <2>2. QED
    BY <2>1, FramePairs DEF EntryWord, FramePair
<1>2. RegFile(EntryRegs) /\ \A r \in Wide : EntryRegs[r] = EntryWord(r)
  BY <1>1 DEF EntryRegs, RegFile
<1>3. /\ RegFile(FrameRegs)
      /\ \A r \in Wide : FrameRegs[r] = IF r = "BP" /\ fn.frame THEN FrameBP ELSE EntryWord(r)
  <2>1. CASE fn.frame
    <3>1. PICK er, fr : er = EntryRegs /\ fr = FrameRegs /\ fr = Put16(er, "BP", FrameBP)
      BY <2>1 DEF FrameRegs
    <3>2. DOMAIN FrameBP = 1 .. 2 /\ "BP" \in Wide
      BY FramePairs, Kinds DEF FramePair
    <3>3. RegFile(er)
      BY <1>2, <3>1
    <3>4. RegFile(fr) /\ fr["BP"] = FrameBP /\ \A q \in Wide : q # "BP" => fr[q] = er[q]
      BY ONLY <3>1, <3>2, <3>3, PutWide
    <3>5. QED
      BY <1>2, <2>1, <3>1, <3>4
  <2>2. CASE ~fn.frame
    BY <1>2, <2>2 DEF FrameRegs
  <2>3. QED
    BY <2>1, <2>2
<1>4. PICK order : order = SaveOrder(isr_save(fn)) /\ order \in Seq(Wide \cup {"SP"})
  BY ONLY IsrSaveOver, SaveOrderOver
<1>5. Sequence(<< >>)
  <2>1. << >> \in Seq({})
    OBVIOUS
  <2>2. QED
    BY <2>1 DEF Sequence
<1>6. Lies(Handled, << >>, order, EntryRegs)
  <2>1. PICK rf, h : rf = EntryRegs /\ h = Handled /\ h = Pushed(<< >>, rf, order) /\ RegFile(rf)
    BY <1>2, <1>4 DEF Handled
  <2>2. PICK n : n = Len(order)
    OBVIOUS
  <2>3. /\ StackOn(h, << >>, n)
        /\ \A k \in 1 .. n : order[k] # "SP" => h[n + 1 - k] = rf[order[k]]
    BY ONLY <1>4, <1>5, <2>1, <2>2, PushedOn
  <2>4. QED
    BY <2>1, <2>2, <2>3 DEF Lies
<1>7. Sequence(Handled)
  BY <1>6 DEF Lies, StackOn
<1>8. StackOn(Framed, Handled, IF fn.frame THEN 1 ELSE 0) /\ (fn.frame => Framed[1] = CallerBP)
  <2>1. StackOn(Handled, Handled, 0)
    BY ONLY <1>7, OnItself
  <2>2. CASE fn.frame
    <3>1. PICK w, h, f : w = CallerBP /\ DOMAIN w = 1 .. 2 /\ h = Handled /\ f = Framed /\ f = Push(w, h)
      BY <2>2, FramePairs DEF FramePair, Framed
    <3>2. StackOn(h, h, 0)
      BY <2>1, <3>1
    <3>3. StackOn(f, h, 0 + 1) /\ f[1] = w
      BY ONLY <3>1, <3>2, PushOn
    <3>4. QED
      BY <2>2, <3>1, <3>3
  <2>3. CASE ~fn.frame
    BY <2>1, <2>3 DEF Framed
  <2>4. QED
    BY <2>2, <2>3
<1>9. Sequence(Framed)
  BY <1>8 DEF StackOn
<1>10. PICK saves : saves = fn.saves /\ saves \in Seq(Wide \cup {"SP"})
  <2>1. PICK saves : saves = fn.saves /\ saves \in Seq(Wide)
    BY FnsAssumption
  <2>2. QED
    BY <2>1
<1>11. Lies(Kept, Framed, saves, FrameRegs)
  <2>1. PICK rf, h, b : rf = FrameRegs /\ h = Kept /\ b = Framed /\ h = Pushed(b, rf, saves) /\ RegFile(rf)
    BY <1>3, <1>10 DEF Kept
  <2>2. PICK n : n = Len(saves)
    OBVIOUS
  <2>3. Sequence(b)
    BY <1>9, <2>1
  <2>4. /\ StackOn(h, b, n)
        /\ \A k \in 1 .. n : saves[k] # "SP" => h[n + 1 - k] = rf[saves[k]]
    BY ONLY <1>10, <2>1, <2>2, <2>3, PushedOn
  <2>5. QED
    BY <2>1, <2>2, <2>4 DEF Lies
<1>12. Sequence(Kept)
  BY <1>11 DEF Lies, StackOn
<1>13. /\ StackOn(OnEntry, Kept, IF ds_explicit_save(fn) THEN 1 ELSE 0)
       /\ ds_explicit_save(fn) => OnEntry[1] = EntryWord("DS")
  <2>1. StackOn(Kept, Kept, 0)
    BY ONLY <1>12, OnItself
  <2>2. CASE ds_explicit_save(fn)
    <3>1. PICK w, h, f : w = EntryWord("DS") /\ DOMAIN w = 1 .. 2 /\ h = Kept /\ f = OnEntry /\ f = Push(w, h)
      <4>1. "DS" \in Wide
        BY DEF Wide, SegRegs
      <4>2. QED
        BY <1>1, <2>2, <4>1 DEF OnEntry
    <3>2. StackOn(h, h, 0)
      BY <2>1, <3>1
    <3>3. StackOn(f, h, 0 + 1) /\ f[1] = w
      BY ONLY <3>1, <3>2, PushOn
    <3>4. QED
      BY <2>2, <3>1, <3>3
  <2>3. CASE ~ds_explicit_save(fn)
    BY <2>1, <2>3 DEF OnEntry
  <2>4. QED
    BY <2>2, <2>3
<1>14. QED
  BY <1>2, <1>3, <1>4, <1>6, <1>8, <1>10, <1>11, <1>13 DEF LayersLie

-----------------------------------------------------------------------------
(* What a function preserves, action by action. *)

\* From the end of the prologue to the start of the epilogue.
Within == pc \in {"params", "body", "ret", "outs", "retmoves", "tail", "ntail", "ntailargs",
                  "epilogue"}
\* The moves of the arguments of a near tail call.
Moving == pc \in {"moves", "pops", "placed"} /\ site = NoSite

FunctionAt == (Within \/ Moving) => (\E F \in Fns : fn \in F) /\ fp = Len(Framed)

\* The target of a near tail call may lie on what the prologue has pushed.
SafeTarget == ntailcall_target_reg_is_safe(fn, TargetLoc)
WithTarget(st) == IF SafeTarget THEN st = OnEntry ELSE StackOn(st, OnEntry, 1)

TailCallArgs == [k \in DOMAIN fn.out |-> [src |-> SrcLoc(k), dst |-> fn.out[k].dst]]

\* The stack is as the prologue left it, but for values on their way out.
LaidOut ==
    /\ pc \in {"params", "body", "ret", "retmoves", "tail", "ntail", "epilogue"} => stack = OnEntry
    /\ pc = "outs" => mi \in 0 .. Len(Leaving) /\ StackOn(stack, OnEntry, mi)
    /\ pc = "ntailargs" => WithTarget(stack)
    /\ Moving => WithTarget(base.stack) /\ fn.exit = "ntail"

\* A move of a result.
RetMove == {m \in [dst_reg : Outs(fn), src : Source, done : BOOLEAN] : Movable(m.dst_reg, m.src)}

\* What the epilogue does not restore: an interrupt handler keeps the registers it
\* does not use.
Unused == \A r \in WordRegs \ {"SP"} : r \notin ToSet(isr_save(fn)) => regs[r] = EntryWord(r)

\* BP is the frame pointer, and registers that are not restored are left alone.
RegsKept ==
    /\ pc = "prologue" => regs = EntryRegs
    /\ Within => RegFile(regs) /\ (fn.frame /\ ~FramePointerMoved => regs["BP"] = FrameBP)
    /\ pc \in {"outs", "retmoves"} => MemFile /\ DOMAIN mem = Spilled \cup {"temp"}
    /\ pc = "retmoves" => moves \in Seq(RetMove)
    /\ Moving => call = TailCallArgs /\ (fn.frame => base.regs["BP"] = FrameBP)
    /\ Within /\ fn.isr => Unused

KeptInv == FunctionAt /\ LaidOut /\ RegsKept

\* What depends on the function only.
LEMMA SameLayers ==
    ASSUME fn' = fn
    PROVE  /\ OnEntry' = OnEntry /\ Framed' = Framed /\ Leaving' = Leaving
           /\ TailCallArgs' = TailCallArgs /\ RetMove' = RetMove
           /\ (FramePointerMoved' <=> FramePointerMoved)
           /\ (SafeTarget' <=> SafeTarget)
           /\ \A r : EntryWord(r)' = EntryWord(r)
<1>1. (\A r : EntryWord(r)' = EntryWord(r)) /\ EntryRegs' = EntryRegs /\ FrameRegs' = FrameRegs
  BY DEF EntryWord, EntryRegs, FrameRegs
<1>2. Handled' = Handled
  BY <1>1 DEF Handled
<1>3. Framed' = Framed
  BY <1>2 DEF Framed
<1>4. Kept' = Kept
  BY <1>1, <1>3 DEF Kept
<1>5. OnEntry' = OnEntry
  BY <1>1, <1>4 DEF OnEntry
<1>6. Leaving' = Leaving /\ TailCallArgs' = TailCallArgs
  BY DEF Leaving, TailCallArgs, SrcLoc, SlotOf
<1>7. RetMove' = RetMove
  BY DEF RetMove, Outs
<1>8. FramePointerMoved' <=> FramePointerMoved
  BY DEF FramePointerMoved, Outs
<1>9. SafeTarget' <=> SafeTarget
  BY DEF SafeTarget, TargetLoc
<1>10. QED
  BY <1>1, <1>3, <1>5, <1>6, <1>7, <1>8, <1>9

\* An interrupt handler saves the registers it uses and BP under its frame.
LEMMA IsrSaves ==
    ASSUME NEW f, f.isr, NEW r, r \in WordRegs \ {"SP"}, r \in f.used \/ (f.frame /\ r = "BP")
    PROVE  r \in ToSet(isr_save(f))
<1>1. PICK general : general = <<"AX", "CX", "DX", "BX", "BP", "SI", "DI">>
  OBVIOUS
<1>2. general \in Seq(Wide) /\ Len(general) = 7 /\ DOMAIN general = 1 .. 7
  BY <1>1 DEF Wide, WordRegs
<1>3. PICK k \in 1 .. 7 : general[k] = r
  <2>1. r \in {"AX", "CX", "DX", "BX", "BP", "SI", "DI"}
    BY DEF WordRegs
  <2>2. /\ general[1] = "AX" /\ general[2] = "CX" /\ general[3] = "DX" /\ general[4] = "BX"
        /\ general[5] = "BP" /\ general[6] = "SI" /\ general[7] = "DI"
    BY <1>1
  <2>3. QED
    BY <2>1, <2>2
<1>4. PICK P : P = {j \in DOMAIN general :
                       f.isr /\ (general[j] \in f.used \/ (f.frame /\ general[j] = "BP"))}
  OBVIOUS
<1>5. P \in SUBSET (1 .. Len(general)) /\ k \in P /\ k <= Len(general)
  BY <1>2, <1>3, <1>4
<1>6. PICK t : t = Picked(general, P)
  OBVIOUS
<1>7. t \in Seq(Wide) /\ \E pos \in Seq(1 .. Len(general)) : Picks(general, P, Len(general), t, pos)
  BY ONLY <1>2, <1>5, <1>6, PickedIs
<1>8. PICK pos \in Seq(1 .. Len(general)) : Picks(general, P, Len(general), t, pos)
  BY <1>7
<1>9. PICK i \in 1 .. Len(pos) : pos[i] = k /\ t[i] = general[pos[i]] /\ Len(t) = Len(pos)
  BY <1>5, <1>8 DEF Picks
<1>10. i \in DOMAIN t
  BY ONLY <1>7, <1>9, LenProperties
<1>11. t[i] = r
  BY <1>3, <1>9
<1>12. isr_save(f) = t
  BY <1>1, <1>4, <1>6 DEF isr_save
<1>13. QED
  BY <1>10, <1>11, <1>12 DEF ToSet

\* What leaves on the stack are results or arguments.
LEMMA LeavingIs ==
    ASSUME \E F \in Fns : fn \in F
    PROVE  Leaving \in Seq(DOMAIN fn.out)
<1>1. PICK T, out : out = fn.out /\ out \in Seq(T)
  BY FnsAssumption
<1>2. PICK D, n : D = DOMAIN out /\ n = Len(out) /\ D = 1 .. n /\ n \in Nat
  BY <1>1
<1>3. PICK all : all = [k \in D |-> k]
  OBVIOUS
<1>4. all \in [1 .. n -> D]
  BY <1>2, <1>3
<1>5. all \in Seq(D) /\ Len(all) = n
  BY ONLY <1>2, <1>4, FunctionSeq
<1>6. PICK P : P = {k \in D : out[k].dst = STACK /\ SrcLoc(k) # SlotOf(k)}
  OBVIOUS
<1>7. P \in SUBSET (1 .. Len(all))
  BY <1>2, <1>5, <1>6
<1>8. Picked(all, P) \in Seq(D)
  BY ONLY <1>5, <1>7, PickedIs
<1>9. Leaving = IF fn.exit = "ret" THEN all ELSE Picked(all, P)
  BY <1>1, <1>2, <1>3, <1>6 DEF Leaving
<1>10. QED
  BY <1>1, <1>2, <1>5, <1>8, <1>9

\* The prologue.
LEMMA KeepPrologue ==
    ASSUME FrameInv, KeptInv, FrameInv', Prologue
    PROVE  KeptInv'
<1>1. /\ \E F \in Fns : fn \in F
      /\ stack = << >> /\ regs = EntryRegs /\ fn' = fn /\ pc' = "params"
  BY DEF FrameInv, FrameBegins, KeptInv, RegsKept, Prologue
<1>2. LayersLie
  BY <1>1, Layers
<1>3. regs["BP"] = EntryWord("BP") /\ (fn.frame => regs["BP"] = CallerBP)
  BY <1>1, <1>2, Kinds DEF LayersLie, EntryWord
<1>4. PICK isr, framed, inner, saved :
        /\ isr = Pushed(stack, regs, SaveOrder(isr_save(fn)))
        /\ framed = IF fn.frame THEN <<regs["BP"]>> \o isr ELSE isr
        /\ inner = IF fn.frame THEN [regs EXCEPT !["BP"] = FrameBP] ELSE regs
        /\ saved = Pushed(framed, inner, fn.saves)
  OBVIOUS
<1>5. isr = Handled
  BY <1>1, <1>4 DEF Handled
<1>6. framed = Framed
  BY <1>3, <1>4, <1>5 DEF Framed, Push
<1>7. inner = FrameRegs
  BY <1>1, <1>4 DEF FrameRegs, Put16
<1>8. saved = Kept
  BY <1>4, <1>6, <1>7 DEF Kept
<1>9. "DS" \in Wide /\ inner["DS"] = EntryWord("DS") /\ "DS" \notin WordRegs
  <2>1. "DS" \in Wide /\ "DS" # "BP" /\ "DS" \notin WordRegs
    BY DEF Wide, SegRegs, WordRegs
  <2>2. QED
    BY <1>2, <1>7, <2>1 DEF LayersLie
<1>10. stack' = OnEntry
  <2>1. stack' = IF ds_explicit_save(fn) THEN <<inner["DS"]>> \o saved ELSE saved
    BY <1>4 DEF Prologue
  <2>2. QED
    BY <1>8, <1>9, <2>1 DEF OnEntry, Push
<1>11. fp' = Len(Framed)
  BY <1>4, <1>6 DEF Prologue
<1>12. /\ RegFile(regs')
       /\ \A r \in Wide : r # "DS" => regs'[r] = FrameRegs[r]
  <2>1. regs' = IF fn.ds THEN Put16(inner, "DS", PolicyDS) ELSE inner
    BY <1>4 DEF Prologue, Put16
  <2>2. RegFile(inner)
    BY <1>2, <1>7 DEF LayersLie
  <2>3. CASE fn.ds
    <3>1. regs' = Put16(inner, "DS", PolicyDS) /\ DOMAIN PolicyDS = 1 .. 2
      BY <2>1, <2>3, FramePairs DEF FramePair
    <3>2. RegFile(regs') /\ \A q \in Wide : q # "DS" => regs'[q] = inner[q]
      BY ONLY <1>9, <2>2, <3>1, PutWide
    <3>3. QED
      BY <1>7, <3>2
  <2>4. CASE ~fn.ds
    BY <1>7, <2>1, <2>2, <2>4
  <2>5. QED
    BY <2>3, <2>4
<1>13. fn.frame => regs'["BP"] = FrameBP
  BY <1>1 DEF FrameInv, FrameBegins
<1>14. ASSUME fn.isr, NEW r \in WordRegs \ {"SP"}, r \notin ToSet(isr_save(fn))
       PROVE  regs'[r] = EntryWord(r)
  <2>1. ~(r = "BP" /\ fn.frame)
    BY <1>14, IsrSaves
  <2>2. r \in Wide /\ r # "DS"
    BY <1>9, Kinds
  <2>3. QED
    BY <1>2, <1>12, <2>1, <2>2 DEF LayersLie
<1>15. FunctionAt'
  BY <1>1, <1>11, SameLayers DEF FunctionAt
<1>16. LaidOut'
  BY <1>1, <1>10, SameLayers DEF LaidOut, Moving
<1>17. Unused' \/ ~fn.isr
  BY <1>1, <1>14, SameLayers DEF Unused
<1>18. RegsKept'
  BY <1>1, <1>12, <1>13, <1>17, SameLayers DEF RegsKept, Moving, Within
<1>19. QED
  BY <1>15, <1>16, <1>18 DEF KeptInv

\* An interrupt handler has no parameters, passes nothing on and does not jump.
LEMMA HandlerIs ==
    ASSUME \E F \in Fns : fn \in F, fn.isr
    PROVE  DOMAIN fn.params = {} /\ DOMAIN fn.out = {} /\ Outs(fn) = {} /\ fn.exit # "ntail"
<1>1. fn.params = << >> /\ fn.out = << >>
  BY FnsAssumption
<1>2. DOMAIN fn.params = {} /\ DOMAIN fn.out = {}
  BY <1>1
<1>3. fn.exit = "ntail" => fn.tgt \in DOMAIN fn.params
  BY FnsAssumption
<1>4. QED
  BY <1>2, <1>3 DEF Outs

\* The entry moves and the body.
LEMMA KeepBody ==
    ASSUME FrameInv, KeptInv, FrameInv', EntryMove \/ EndParams \/ Body
    PROVE  KeptInv'
<1>1. /\ \E F \in Fns : fn \in F
      /\ stack = OnEntry /\ fp = Len(Framed) /\ (fn.isr => Unused)
      /\ fn' = fn /\ fp' = fp /\ stack' = stack
  BY DEF FrameInv, FrameBegins, KeptInv, FunctionAt, LaidOut, RegsKept, Within,
         EntryMove, EndParams, Body, frameVars
<1>2. pc' \in {"params", "body", "ret", "tail", "ntail"}
  <2>1. fn.exit \in {"ret", "tail", "ntail"}
    BY <1>1, FnsAssumption
  <2>2. QED
    BY <2>1 DEF EntryMove, EndParams, Body
<1>3. RegFile(regs') /\ (fn.frame => regs'["BP"] = FrameBP)
  BY <1>1, <1>2 DEF FrameInv, FrameBegins, Machine
<1>4. ASSUME fn.isr, NEW r \in WordRegs \ {"SP"}, r \notin ToSet(isr_save(fn))
      PROVE  regs'[r] = EntryWord(r)
  <2>1. regs[r] = EntryWord(r)
    BY <1>1, <1>4 DEF Unused
  <2>2. CASE EntryMove
    <3>1. PICK e, a : e = fn.params[ri].exp /\ a = fn.params[ri].act
      OBVIOUS
    <3>2. Machine /\ ri \in Nat \ {0} /\ (fn.frame => AtBP = CallerBP)
      BY <2>2 DEF FrameInv, FrameBegins, EntryMove
    <3>3. ri \in DOMAIN fn.params
      BY <1>1, <2>2, <3>1, <3>2, EntryMoved
    <3>4. QED
      BY <1>1, <1>4, <3>3, HandlerIs
  <2>3. CASE EndParams
    BY <2>1, <2>3 DEF EndParams
  <2>4. CASE Body
    <3>1. PICK kept :
            kept = {PushReg(b) : b \in Locs(fn) \ Spilled} \cup {"DS", "CS", "SS"}
                   \cup (IF fn.frame THEN {"BP"} ELSE {})
      OBVIOUS
    <3>2. PICK changed : changed = fn.used \ kept
      OBVIOUS
    <3>3. regs' = [q \in Wide |-> IF q \in changed THEN Unknown ELSE regs[q]]
      BY <1>4, <2>4, <3>1, <3>2 DEF Body
    <3>4. r \notin fn.used
      BY <1>4, IsrSaves
    <3>5. r \in Wide
      BY Kinds
    <3>6. QED
      BY <2>1, <3>2, <3>3, <3>4, <3>5
  <2>5. QED
    BY <2>2, <2>3, <2>4
<1>5. FunctionAt'
  BY <1>1, SameLayers DEF FunctionAt
<1>6. LaidOut'
  BY <1>1, <1>2, SameLayers DEF LaidOut, Moving
<1>7. Unused' \/ ~fn.isr
  BY <1>1, <1>4, SameLayers DEF Unused
<1>8. RegsKept'
  BY <1>1, <1>2, <1>3, <1>7, SameLayers DEF RegsKept, Moving
<1>9. QED
  BY <1>5, <1>6, <1>8 DEF KeptInv

\* Where a value leaves from and to.
LEMMA OutIs ==
    ASSUME \E F \in Fns : fn \in F, NEW k, k \in DOMAIN fn.out
    PROVE  /\ SrcLoc(k) \in Reg \cup Spilled /\ SrcLoc(k) \in Source
           /\ fn.out[k].dst \in Reg \cup {STACK} /\ fn.out[k].dst \in Outs(fn)
           /\ fn.out[k].dst # STACK => Movable(fn.out[k].dst, SrcLoc(k))
           /\ DOMAIN fn.out = 1 .. Len(fn.out) /\ Len(fn.out) \in Nat
<1>1. PICK out, T : out = fn.out /\ T = [p : DOMAIN fn.params, dst : Reg \cup {STACK}] /\ out \in Seq(T)
  BY FnsAssumption
<1>2. out[k] \in T /\ DOMAIN out = 1 .. Len(out) /\ Len(out) \in Nat
  BY ONLY <1>1, ElementsIn, LenProperties, k \in DOMAIN fn.out
<1>3. out[k].p \in DOMAIN fn.params /\ out[k].dst \in Reg \cup {STACK}
  BY <1>1, <1>2
<1>4. SrcLoc(k) \in Reg \cup Spilled
  BY ONLY <1>1, <1>3, ParamIs, \E F \in Fns : fn \in F DEF SrcLoc
<1>5. fn.out[k].dst \in Outs(fn)
  BY DEF Outs
<1>6. fn.out[k].dst \in SegRegs => ~IsByte(SrcLoc(k))
  <2>1. PICK c : /\ c = [j \in DOMAIN fn.out |-> [src |-> fn.params[fn.out[j].p].act,
                                                  dst |-> fn.out[j].dst]]
                 /\ Passes(c)
    BY FnsAssumption
  <2>2. k \in DOMAIN c /\ c[k].dst = fn.out[k].dst /\ c[k].src = SrcLoc(k)
    BY <2>1 DEF SrcLoc
  <2>3. QED
    BY <2>1, <2>2 DEF Passes
<1>7. QED
  BY <1>1, <1>2, <1>3, <1>4, <1>5, <1>6, Kinds DEF Movable

\* The values that leave on the stack are pushed.
LEMMA KeepPush ==
    ASSUME FrameInv, KeptInv, StackReturn \/ TailArgs
    PROVE  KeptInv'
<1>1. /\ \E F \in Fns : fn \in F
      /\ Machine /\ (fn.frame => regs["BP"] = FrameBP)
      /\ stack = OnEntry /\ fp = Len(Framed) /\ (fn.isr => Unused)
      /\ UNCHANGED <<regs, mem, fn, fp>> /\ pc' = "outs" /\ mi' = Len(Leaving)
  BY DEF FrameInv, FrameBegins, KeptInv, FunctionAt, LaidOut, RegsKept, Within,
         StackReturn, TailArgs, PushOut, frameVars
<1>2. PICK ks, n : ks = Leaving /\ ks \in Seq(DOMAIN fn.out) /\ n = Len(ks) /\ n \in Nat
                   /\ DOMAIN ks = 1 .. n
  <2>1. PICK ks : ks = Leaving /\ ks \in Seq(DOMAIN fn.out)
    BY <1>1, LeavingIs
  <2>2. Len(ks) \in Nat /\ DOMAIN ks = 1 .. Len(ks)
    BY ONLY <2>1, LenProperties
  <2>3. QED
    BY <2>1, <2>2
<1>3. PICK W : W = {rins_push_vreg_temp(regs, s) : s \in Source}
  OBVIOUS
<1>4. Words(W)
  <2>1. \A s \in Source : DOMAIN rins_push_vreg_temp(regs, s) = 1 .. 2
    BY <1>1, PushWord DEF Machine
  <2>2. QED
    BY <1>3, <2>1 DEF Words
<1>5. PICK words : words = [j \in DOMAIN ks |-> rins_push_vreg_temp(regs, SrcLoc(ks[j]))]
  OBVIOUS
<1>6. words \in Seq(W) /\ Len(words) = n
  <2>1. \A j \in 1 .. n : ks[j] \in DOMAIN fn.out
    BY ONLY <1>2, ElementsIn
  <2>2. \A j \in 1 .. n : SrcLoc(ks[j]) \in Source
    BY ONLY <1>1, <2>1, OutIs
  <2>3. words \in [1 .. n -> W]
    BY <1>2, <1>3, <1>5, <2>2
  <2>4. QED
    BY ONLY <1>2, <2>3, FunctionSeq
<1>7. PICK rev : rev = Reverse(words)
  OBVIOUS
<1>8. rev \in Seq(W) /\ Len(rev) = n
  BY ONLY <1>6, <1>7, ReverseIs
<1>9. stack' = rev \o stack
  BY <1>2, <1>5, <1>7 DEF StackReturn, TailArgs, PushOut
<1>10. StackOn(stack', stack, n)
  <2>1. Sequence(stack) /\ n = Len(rev)
    BY <1>1, <1>8 DEF Machine
  <2>2. QED
    BY ONLY <1>4, <1>8, <1>9, <2>1, AllOn
<1>11. FunctionAt'
  BY <1>1, SameLayers DEF FunctionAt
<1>12. LaidOut'
  <2>1. mi' \in 0 .. Len(Leaving)
    BY <1>1, <1>2
  <2>2. StackOn(stack', OnEntry, mi')
    BY <1>1, <1>2, <1>10
  <2>3. (StackOn(stack, OnEntry, mi))'
    BY <1>1, <2>2, SameLayers
  <2>4. QED
    BY <1>1, <2>1, <2>3, SameLayers DEF LaidOut, Moving
<1>13. Unused' \/ ~fn.isr
  BY <1>1, SameLayers DEF Unused
<1>14. MemFile' /\ RegFile(regs')
  BY <1>1 DEF Machine, MemFile
<1>15. RegsKept'
  BY <1>1, <1>13, <1>14, SameLayers DEF RegsKept, Moving, Machine
<1>16. QED
  BY <1>11, <1>12, <1>15 DEF KeptInv

\* A word popped into a register.
LEMMA PopReg ==
    ASSUME NEW rf, RegFile(rf), NEW dst, dst \in Reg, NEW w, DOMAIN w = 1 .. 2,
           NEW rg, rg = PutPlace(rf, dst, w)
    PROVE  RegFile(rg) /\ \A q \in Wide : q # PushReg(dst) => rg[q] = rf[q]
<1>1. CASE dst \in ByteRegs
  BY <1>1, PutEffect DEF PutPlace, RegFile
<1>2. CASE dst \notin ByteRegs
  <2>1. dst \in Wide /\ PushReg(dst) = dst /\ rg = Put16(rf, dst, w)
    BY <1>2, Kinds DEF PutPlace
  <2>2. RegFile(rg) /\ \A q \in Wide : q # dst => rg[q] = rf[q]
    BY ONLY <2>1, RegFile(rf), DOMAIN w = 1 .. 2, PutWide
  <2>3. QED
    BY <2>1, <2>2
<1>3. QED
  BY <1>1, <1>2

\* Storing a word keeps the frame a frame, wherever it goes.
LEMMA StoreKeeps ==
    ASSUME MemFile, DOMAIN mem = Spilled \cup {"temp"}, NEW a, NEW w, DOMAIN w = 1 .. 2,
           NEW m, m = Store(regs, mem, a, w)
    PROVE  /\ DOMAIN m = Spilled \cup {"temp"}
           /\ \A h \in Spilled : DOMAIN m[h] = 1 .. 2
<1>1. CASE m = mem
  BY <1>1 DEF MemFile
<1>2. CASE a \in SpilledBytes /\ m = [mem EXCEPT ![a][1] = w[1]]
  <2>1. DOMAIN mem[a] = 1 .. 2 /\ a \in DOMAIN mem
    BY <1>2, Kinds DEF MemFile
  <2>2. m[a] = [mem[a] EXCEPT ![1] = w[1]] /\ DOMAIN m = DOMAIN mem
    BY <1>2, <2>1
  <2>3. DOMAIN m[a] = 1 .. 2
    BY <2>1, <2>2
  <2>4. \A h \in Spilled : h # a => m[h] = mem[h]
    BY <1>2
  <2>5. QED
    BY <2>2, <2>3, <2>4 DEF MemFile
<1>3. CASE m = [mem EXCEPT ![a] = w]
  BY <1>3 DEF MemFile
<1>4. QED
  BY <1>1, <1>2, <1>3 DEF Store

\* One of them is popped.
LEMMA KeepPop ==
    ASSUME FrameInv, KeptInv, PopOut
    PROVE  KeptInv'
<1>1. /\ \E F \in Fns : fn \in F
      /\ RegFile(regs) /\ (fn.frame /\ ~FramePointerMoved => regs["BP"] = FrameBP)
      /\ MemFile /\ DOMAIN mem = Spilled \cup {"temp"}
      /\ mi \in 0 .. Len(Leaving) /\ StackOn(stack, OnEntry, mi) /\ mi > 0
      /\ fp = Len(Framed) /\ (fn.isr => Unused)
      /\ UNCHANGED <<pc, fn, fp>> /\ pc = "outs" /\ mi' = mi - 1 /\ stack' = Tail(stack)
  BY DEF KeptInv, FunctionAt, LaidOut, RegsKept, Within, PopOut, frameVars
<1>2. PICK ks : ks = Leaving /\ ks \in Seq(DOMAIN fn.out)
  BY <1>1, LeavingIs
<1>3. PICK n \in Nat : n = mi - 1 /\ mi = n + 1 /\ mi \in 1 .. Len(ks) /\ n \in 0 .. Len(ks)
                      /\ DOMAIN ks = 1 .. Len(ks)
  <2>1. Len(ks) \in Nat /\ DOMAIN ks = 1 .. Len(ks)
    BY ONLY <1>2, LenProperties
  <2>2. QED
    BY <1>1, <1>2, <2>1
<1>4. PICK k : k = ks[mi] /\ k \in DOMAIN fn.out
  BY ONLY <1>2, <1>3, ElementsIn
<1>5. PICK dst : dst = fn.out[k].dst /\ dst \in Reg \cup {STACK} /\ dst \in Outs(fn)
  BY ONLY <1>1, <1>4, OutIs
<1>6. PICK w, st, t : w = Head(stack) /\ st = stack /\ t = Tail(st) /\ w = st[1] /\ DOMAIN w = 1 .. 2
                      /\ StackOn(t, OnEntry, n)
  <2>1. PICK st, b : st = stack /\ b = OnEntry /\ StackOn(st, b, n + 1)
    BY <1>1, <1>3
  <2>2. StackOn(Tail(st), b, n) /\ Head(st) = st[1] /\ DOMAIN st[1] = 1 .. 2
    BY ONLY n \in Nat, <2>1, PopOn
  <2>3. QED
    BY <2>1, <2>2
<1>7. PICK popped, byte :
        /\ byte = IsByte(SrcLoc(k))
        /\ popped = IF dst \in ByteRegs \/ (dst = STACK /\ byte)
                    THEN Put16(regs, "AX", w) ELSE regs
  OBVIOUS
<1>8. RegFile(popped) /\ popped["BP"] = regs["BP"]
  <2>1. "AX" \in Wide /\ "BP" \in Wide /\ "AX" # "BP"
    BY DEF Wide, WordRegs
  <2>2. CASE popped = Put16(regs, "AX", w)
    <3>1. RegFile(regs) /\ DOMAIN w = 1 .. 2
      BY <1>1, <1>6
    <3>2. RegFile(popped) /\ \A q \in Wide : q # "AX" => popped[q] = regs[q]
      BY ONLY <2>1, <2>2, <3>1, PutWide
    <3>3. QED
      BY <2>1, <3>2
  <2>3. QED
    BY <1>1, <1>7, <2>2
<1>9. RegFile(regs') /\ (fn.frame /\ ~FramePointerMoved => regs'["BP"] = FrameBP)
  <2>1. regs' = IF dst = STACK THEN popped ELSE PutPlace(popped, dst, w)
    BY <1>2, <1>4, <1>5, <1>6, <1>7 DEF PopOut
  <2>2. CASE dst = STACK
    BY <1>1, <1>8, <2>1, <2>2
  <2>3. CASE dst # STACK
    <3>1. dst \in Reg /\ regs' = PutPlace(popped, dst, w)
      BY <1>5, <2>1, <2>3
    <3>2. RegFile(regs') /\ \A q \in Wide : q # PushReg(dst) => regs'[q] = popped[q]
      <4>1. PICK rg : rg = regs' /\ rg = PutPlace(popped, dst, w)
        BY <3>1
      <4>2. RegFile(popped) /\ DOMAIN w = 1 .. 2 /\ dst \in Reg
        BY <1>6, <1>8, <3>1
      <4>3. RegFile(rg) /\ \A q \in Wide : q # PushReg(dst) => rg[q] = popped[q]
        BY ONLY <4>1, <4>2, PopReg
      <4>4. QED
        BY <4>1, <4>3
    <3>3. fn.frame /\ ~FramePointerMoved => dst # "BP"
      BY <1>5 DEF FramePointerMoved
    <3>4. dst # "BP" => PushReg(dst) # "BP"
      BY <3>1, Kinds
    <3>5. QED
      BY <1>1, <1>8, <3>2, <3>3, <3>4, Kinds
  <2>4. QED
    BY <2>2, <2>3
<1>10. MemFile' /\ DOMAIN mem' = Spilled \cup {"temp"}
  <2>1. PICK x : x = (IF byte THEN <<w[1], Junk>> ELSE w) /\ DOMAIN x = 1 .. 2
    <3>1. PICK x : x = IF byte THEN <<w[1], Junk>> ELSE w
      OBVIOUS
    <3>2. CASE byte
      <4>1. x = <<w[1], Junk>>
        BY <3>1, <3>2
      <4>2. QED
        BY <3>1, <4>1
    <3>3. CASE ~byte
      BY <1>6, <3>1, <3>3
    <3>4. QED
      BY <3>2, <3>3
  <2>2. mem' = IF dst = STACK THEN Store(regs, mem, SlotOf(k), x) ELSE mem
    BY <1>2, <1>4, <1>5, <1>6, <1>7, <2>1 DEF PopOut
  <2>3. CASE dst = STACK
    <3>1. PICK a, m : a = SlotOf(k) /\ m = mem' /\ m = Store(regs, mem, a, x)
      BY <2>2, <2>3
    <3>2. MemFile /\ DOMAIN mem = Spilled \cup {"temp"}
      BY <1>1
    <3>3. DOMAIN x = 1 .. 2
      BY <2>1
    <3>4. DOMAIN m = Spilled \cup {"temp"} /\ \A h \in Spilled : DOMAIN m[h] = 1 .. 2
      BY ONLY <3>1, <3>2, <3>3, StoreKeeps
    <3>5. QED
      BY <3>1, <3>4 DEF MemFile
  <2>4. CASE dst # STACK
    BY <1>1, <2>2, <2>4 DEF MemFile
  <2>5. QED
    BY <2>3, <2>4
<1>11. ~fn.isr
  BY <1>1, <1>4, HandlerIs
<1>12. FunctionAt'
  BY <1>1, SameLayers DEF FunctionAt
<1>13. LaidOut'
  <2>1. mi' \in 0 .. Len(Leaving) /\ StackOn(stack', OnEntry, mi')
    BY <1>1, <1>2, <1>3, <1>6
  <2>2. (StackOn(stack, OnEntry, mi))'
    BY <1>1, <2>1, SameLayers
  <2>3. QED
    BY <1>1, <2>1, <2>2, SameLayers DEF LaidOut, Moving
<1>14. RegsKept'
  BY <1>1, <1>9, <1>10, <1>11, SameLayers DEF RegsKept, Moving
<1>15. QED
  BY <1>12, <1>13, <1>14 DEF KeptInv

\* When all are popped the stack is as before.
LEMMA KeepEnd ==
    ASSUME FrameInv, KeptInv, EndOut \/ EndReturn
    PROVE  KeptInv'
<1>1. /\ Within /\ \E F \in Fns : fn \in F
      /\ RegFile(regs) /\ (fn.frame /\ ~FramePointerMoved => regs["BP"] = FrameBP)
      /\ fp = Len(Framed) /\ (fn.isr => Unused)
      /\ UNCHANGED <<regs, stack, fn, fp>> /\ pc' = "epilogue"
  BY DEF KeptInv, FunctionAt, RegsKept, Within, EndOut, EndReturn, frameVars
<1>2. stack = OnEntry
  <2>1. CASE EndOut
    <3>1. PICK st, b : st = stack /\ b = OnEntry /\ StackOn(st, b, 0)
      BY <2>1 DEF KeptInv, LaidOut, EndOut
    <3>2. st = b
      BY ONLY <3>1, Emptied
    <3>3. QED
      BY <3>1, <3>2
  <2>2. CASE EndReturn
    BY <2>2 DEF KeptInv, LaidOut, EndReturn
  <2>3. QED
    BY <2>1, <2>2
<1>3. FunctionAt'
  BY <1>1, SameLayers DEF FunctionAt
<1>4. LaidOut'
  BY <1>1, <1>2, SameLayers DEF LaidOut, Moving
<1>5. Unused' \/ ~fn.isr
  BY <1>1, SameLayers DEF Unused
<1>6. RegsKept'
  BY <1>1, <1>5, SameLayers DEF RegsKept, Moving
<1>7. QED
  BY <1>3, <1>4, <1>6 DEF KeptInv

\* The moves of the results are planned.
LEMMA KeepPlan ==
    ASSUME FrameInv, KeptInv, PlanReturn
    PROVE  KeptInv'
<1>1. /\ \E F \in Fns : fn \in F
      /\ Machine /\ (fn.frame => regs["BP"] = FrameBP)
      /\ stack = OnEntry /\ fp = Len(Framed) /\ (fn.isr => Unused)
      /\ UNCHANGED <<regs, mem, stack, fn, fp>> /\ pc' = "retmoves" /\ ~UsesStack(fn)
  BY DEF FrameInv, FrameBegins, KeptInv, FunctionAt, LaidOut, RegsKept, Within,
         PlanReturn, frameVars
<1>2. PICK T, out : out = fn.out /\ out \in Seq(T)
  BY <1>1, FnsAssumption
<1>3. PICK D, n : D = DOMAIN out /\ n = Len(out) /\ D = 1 .. n /\ n \in Nat
  BY <1>2
<1>4. PICK all : all = [k \in D |-> k]
  OBVIOUS
<1>5. all \in Seq(D) /\ Len(all) = n
  <2>1. all \in [1 .. n -> D]
    BY <1>3, <1>4
  <2>2. QED
    BY ONLY <1>3, <2>1, FunctionSeq
<1>6. PICK P : P = {k \in D : SrcLoc(k) # out[k].dst}
  OBVIOUS
<1>7. PICK ks, m : ks = Picked(all, P) /\ ks \in Seq(D) /\ m = Len(ks) /\ m \in Nat /\ DOMAIN ks = 1 .. m
  <2>1. P \in SUBSET (1 .. Len(all))
    BY <1>3, <1>5, <1>6
  <2>2. Picked(all, P) \in Seq(D)
    BY ONLY <1>5, <2>1, PickedIs
  <2>3. PICK ks : ks = Picked(all, P)
    OBVIOUS
  <2>4. ks \in Seq(D) /\ Len(ks) \in Nat /\ DOMAIN ks = 1 .. Len(ks)
    BY ONLY <2>2, <2>3, LenProperties
  <2>5. QED
    BY <2>3, <2>4
<1>8. PICK ms : /\ ms = moves'
                /\ ms = [i \in 1 .. m |-> [dst_reg |-> out[ks[i]].dst, src |-> SrcLoc(ks[i]),
                                           done |-> FALSE]]
  BY <1>2, <1>3, <1>4, <1>6, <1>7 DEF PlanReturn
<1>9. ASSUME NEW i \in 1 .. m
      PROVE  [dst_reg |-> out[ks[i]].dst, src |-> SrcLoc(ks[i]), done |-> FALSE] \in RetMove
  <2>1. PICK k : k = ks[i] /\ k \in DOMAIN fn.out
    BY ONLY <1>2, <1>3, <1>7, <1>9, ElementsIn
  <2>2. PICK d, s : d = out[k].dst /\ s = SrcLoc(k)
    OBVIOUS
  <2>3. d \in Outs(fn) /\ s \in Source /\ (d # STACK => Movable(d, s))
    BY ONLY <1>1, <1>2, <2>1, <2>2, OutIs
  <2>4. d # STACK
    BY <1>1, <2>3 DEF UsesStack
  <2>5. QED
    BY <2>1, <2>2, <2>3, <2>4 DEF RetMove
<1>10. ms \in Seq(RetMove)
  <2>1. ms \in [1 .. m -> RetMove]
    BY <1>8, <1>9
  <2>2. QED
    BY ONLY <1>7, <2>1, FunctionSeq
<1>11. FunctionAt'
  BY <1>1, SameLayers DEF FunctionAt
<1>12. LaidOut'
  BY <1>1, SameLayers DEF LaidOut, Moving
<1>13. Unused' \/ ~fn.isr
  BY <1>1, SameLayers DEF Unused
<1>14. MemFile' /\ RegFile(regs') /\ DOMAIN mem' = Spilled \cup {"temp"}
  BY <1>1 DEF Machine, MemFile
<1>15. moves' \in Seq(RetMove')
  BY <1>1, <1>8, <1>10, SameLayers
<1>16. RegsKept'
  BY <1>1, <1>13, <1>14, <1>15, SameLayers DEF RegsKept, Moving
<1>17. QED
  BY <1>11, <1>12, <1>16 DEF KeptInv

\* One of them is made.
LEMMA KeepReturnMove ==
    ASSUME FrameInv, KeptInv, ReturnMove
    PROVE  KeptInv'
<1>1. /\ \E F \in Fns : fn \in F
      /\ RegFile(regs) /\ (fn.frame /\ ~FramePointerMoved => regs["BP"] = FrameBP)
      /\ MemFile /\ DOMAIN mem = Spilled \cup {"temp"} /\ moves \in Seq(RetMove)
      /\ stack = OnEntry /\ fp = Len(Framed) /\ (fn.isr => Unused)
      /\ UNCHANGED <<mem, stack, fn, fp>> /\ pc' = "retmoves" /\ pc = "retmoves"
  BY DEF KeptInv, FunctionAt, LaidOut, RegsKept, Within, ReturnMove, frameVars
<1>2. PICK ms : ms = moves /\ ms \in Seq(RetMove)
  BY <1>1
<1>3. DOMAIN ms = 1 .. Len(ms) /\ Len(ms) \in Nat
  BY ONLY <1>2, LenProperties
<1>4. PICK k : /\ k = RetPick /\ regs' = rins_mov_preg_from_vreg(regs, ms[k].dst_reg, ms[k].src)
               /\ moves' = [ms EXCEPT ![k].done = TRUE]
  BY <1>2 DEF ReturnMove
<1>5. k \in DOMAIN ms
  <2>1. PICK free, pending :
           /\ pending = Pending
           /\ free = {j \in Pending : \A l \in Pending \ {j} :
                        ~pregs_alias(moves[j].dst_reg, moves[l].src)}
    OBVIOUS
  <2>2. k = Lowest(IF free = {} THEN pending ELSE free)
    BY <1>4, <2>1 DEF RetPick
  <2>3. pending # {} /\ free \subseteq pending /\ pending \subseteq DOMAIN ms
    BY <1>2, <2>1 DEF ReturnMove, Pending
  <2>4. PICK S : S = (IF free = {} THEN pending ELSE free) /\ S # {} /\ S \subseteq DOMAIN ms
    BY <2>3
  <2>5. S \subseteq Nat
    BY <1>3, <2>4
  <2>6. k \in S
    BY ONLY <2>2, <2>4, <2>5, LowestIs
  <2>7. QED
    BY <2>4, <2>6
<1>6. PICK x : x = ms[k] /\ x \in RetMove
  BY ONLY <1>2, <1>5, ElementsIn
<1>7. PICK d, s : /\ d = x.dst_reg /\ s = x.src /\ d \in Outs(fn) /\ Movable(d, s)
                  /\ d \in Reg
  BY <1>6 DEF RetMove, Movable
<1>8. moves' \in Seq(RetMove)
  <2>1. PICK y : y = [x EXCEPT !.done = TRUE] /\ y \in RetMove
    <3>1. PICK y : y = [x EXCEPT !.done = TRUE]
      OBVIOUS
    <3>2. x \in [dst_reg : Outs(fn), src : Source, done : BOOLEAN]
      BY <1>6 DEF RetMove
    <3>3. /\ y \in [dst_reg : Outs(fn), src : Source, done : BOOLEAN]
          /\ y.dst_reg = d /\ y.src = s
      BY <1>7, <3>1, <3>2
    <3>4. QED
      BY <1>7, <3>1, <3>3 DEF RetMove
  <2>2. moves' = [ms EXCEPT ![k] = y]
    BY <1>4, <1>6, <2>1
  <2>3. [ms EXCEPT ![k] = y] \in Seq(RetMove)
    BY ONLY <1>2, <1>3, <1>5, <2>1, ChangeOne
  <2>4. QED
    BY <2>2, <2>3
<1>9. PICK c : c = planned_move_clobber_reg(d, s)
  OBVIOUS
<1>10. PICK rg : rg = regs' /\ Moved(regs, rg, d, s, c)
  <2>1. RegFile(regs) /\ MemFile /\ Movable(d, s)
    BY <1>1, <1>7
  <2>2. Moved(regs, rins_mov_preg_from_vreg(regs, d, s), d, s, c)
    BY ONLY <1>9, <2>1, MoveEffect
  <2>3. QED
    BY <1>4, <1>6, <1>7, <2>2
<1>11. PushReg(c) = PushReg(d)
  BY ONLY <1>7, <1>9, ClobberOf
<1>12. RegFile(regs') /\ (fn.frame /\ ~FramePointerMoved => regs'["BP"] = FrameBP)
  <2>1. fn.frame /\ ~FramePointerMoved => d # "BP"
    BY <1>7 DEF FramePointerMoved
  <2>2. d # "BP" => PushReg(d) # "BP"
    BY <1>7, Kinds
  <2>3. QED
    BY <1>1, <1>10, <1>11, <2>1, <2>2, Kinds DEF Moved
<1>13. ~fn.isr
  BY <1>1, <1>7, HandlerIs
<1>14. FunctionAt'
  BY <1>1, SameLayers DEF FunctionAt
<1>15. LaidOut'
  BY <1>1, SameLayers DEF LaidOut, Moving
<1>16. MemFile'
  BY <1>1 DEF MemFile
<1>17. moves' \in Seq(RetMove')
  BY <1>1, <1>8, SameLayers
<1>18. RegsKept'
  BY <1>1, <1>12, <1>13, <1>16, <1>17, SameLayers DEF RegsKept, Moving
<1>19. QED
  BY <1>14, <1>15, <1>18 DEF KeptInv

-----------------------------------------------------------------------------
(* What a near tail call preserves. *)

\* The target and its location.
LEMMA TargetIs ==
    ASSUME \E F \in Fns : fn \in F, fn.exit = "ntail"
    PROVE  fn.tgt # 0 /\ TargetLoc \in Source
<1>1. fn.tgt # 0 /\ fn.tgt \in DOMAIN fn.params
  BY FnsAssumption
<1>2. fn.params[fn.tgt].act \in Reg \cup Spilled
  BY ONLY <1>1, ParamIs, \E F \in Fns : fn \in F
<1>3. QED
  BY <1>1, <1>2 DEF TargetLoc, Source

\* The target is pushed, or stays where it is.
LEMMA KeepTarget ==
    ASSUME FrameInv, KeptInv, StartTail
    PROVE  KeptInv'
<1>1. /\ \E F \in Fns : fn \in F
      /\ Machine /\ (fn.frame => regs["BP"] = FrameBP) /\ fn.exit = "ntail"
      /\ stack = OnEntry /\ fp = Len(Framed) /\ (fn.isr => Unused)
      /\ UNCHANGED <<regs, mem, fn, fp>> /\ pc' = "ntailargs"
  BY DEF FrameInv, FrameBegins, KeptInv, FunctionAt, LaidOut, RegsKept, Within,
         StartTail, frameVars
<1>2. WithTarget(stack')
  <2>1. CASE SafeTarget
    BY <1>1, <2>1 DEF StartTail, SafeTarget, WithTarget
  <2>2. CASE ~SafeTarget
    <3>1. PICK w, b, v : /\ w = rins_push_vreg_temp(regs, TargetLoc)
                         /\ b = stack /\ v = stack' /\ v = Push(w, b)
      BY <2>2 DEF StartTail, SafeTarget, Push
    <3>2. RegFile(regs) /\ MemFile /\ Sequence(b)
      BY <1>1, <3>1 DEF Machine
    <3>3. TargetLoc \in Source
      BY ONLY <1>1, TargetIs
    <3>4. DOMAIN w = 1 .. 2
      BY ONLY <3>1, <3>2, <3>3, PushWord
    <3>5. StackOn(b, b, 0)
      BY ONLY <3>2, OnItself
    <3>6. StackOn(v, b, 0 + 1)
      BY ONLY <3>1, <3>4, <3>5, PushOn
    <3>7. QED
      BY <1>1, <2>2, <3>1, <3>6 DEF WithTarget
  <2>3. QED
    BY <2>1, <2>2
<1>3. FunctionAt'
  BY <1>1, SameLayers DEF FunctionAt
<1>4. WithTarget(stack)'
  BY <1>1, <1>2, SameLayers DEF WithTarget
<1>5. LaidOut'
  BY <1>1, <1>4 DEF LaidOut, Moving
<1>6. Unused' \/ ~fn.isr
  BY <1>1, SameLayers DEF Unused
<1>7. RegFile(regs')
  BY <1>1 DEF Machine
<1>8. RegsKept'
  BY <1>1, <1>6, <1>7, SameLayers DEF RegsKept, Moving
<1>9. QED
  BY <1>3, <1>5, <1>8 DEF KeptInv

\* The moves of the arguments are planned.
LEMMA KeepTailMoves ==
    ASSUME FrameInv, KeptInv, TailMoves
    PROVE  KeptInv'
<1>1. /\ \E F \in Fns : fn \in F
      /\ (fn.frame => regs["BP"] = FrameBP) /\ fn.exit = "ntail"
      /\ WithTarget(stack) /\ fp = Len(Framed)
      /\ UNCHANGED <<fn, fp>>
  BY DEF FrameInv, FrameBegins, KeptInv, FunctionAt, LaidOut, Within, TailMoves, frameVars
<1>2. PICK b : b = base'
  OBVIOUS
<1>3. pc' = "moves" /\ call' = TailCallArgs /\ b.regs = regs /\ b.stack = stack
  BY <1>2 DEF TailMoves, StartMoves, TailCallArgs
<1>4. WithTarget(b.stack)
  BY <1>1, <1>3
<1>5. WithTarget(base.stack)'
  BY <1>1, <1>2, <1>4, SameLayers DEF WithTarget
<1>6. FunctionAt'
  BY <1>1, SameLayers DEF FunctionAt
<1>7. LaidOut'
  BY <1>1, <1>3, <1>5 DEF LaidOut
<1>8. RegsKept'
  BY <1>1, <1>2, <1>3, SameLayers DEF RegsKept, Within
<1>9. QED
  BY <1>6, <1>7, <1>8 DEF KeptInv

\* They are made, here and at a call.
LEMMA KeepMoves ==
    ASSUME KeptInv, SiteMoves, UNCHANGED frameVars
    PROVE  KeptInv'
<1>1. /\ pc \in {"moves", "pops"} /\ pc' \in {"moves", "pops", "placed"}
      /\ UNCHANGED <<call, base, site, fn, fp>>
  BY DEF SiteMoves, MoveStep, EmitMove, SaveMove, StartPops, PopSaved, EndPops, siteVars, frameVars
<1>2. (Moving' => Moving) /\ ~Within'
  BY <1>1 DEF Moving, Within
<1>3. Moving =>
         /\ \E F \in Fns : fn \in F
         /\ fp = Len(Framed) /\ WithTarget(base.stack) /\ fn.exit = "ntail"
         /\ call = TailCallArgs /\ (fn.frame => base.regs["BP"] = FrameBP)
  BY DEF KeptInv, FunctionAt, LaidOut, RegsKept
<1>4. FunctionAt'
  BY <1>1, <1>2, <1>3, SameLayers DEF FunctionAt
<1>5. WithTarget(base.stack) => WithTarget(base.stack)'
  BY <1>1, SameLayers DEF WithTarget
<1>6. LaidOut'
  BY <1>1, <1>2, <1>3, <1>5 DEF LaidOut
<1>7. RegsKept'
  BY <1>1, <1>2, <1>3, SameLayers DEF RegsKept
<1>8. QED
  BY <1>4, <1>6, <1>7 DEF KeptInv

\* The register for the target is a word register other than BP.
LEMMA TargetRegister ==
    ASSUME NEW f, NEW r, r = choose_ntailcall_target_reg(f)
    PROVE  r \in Wide /\ r # "BP"
<1>1. PICK temps : temps = <<"DI", "SI", "BX", "DX", "CX", "AX">>
  OBVIOUS
<1>2. PICK ok : ok = {k \in DOMAIN temps :
                        /\ temps[k] \notin collect_register_arg_parents(f)
                        /\ \A j \in DOMAIN f.saves : ~pregs_alias(f.saves[j], temps[k])}
  OBVIOUS
<1>3. r = IF ok = {} THEN "AX" ELSE temps[Lowest(ok)]
  BY <1>1, <1>2 DEF choose_ntailcall_target_reg
<1>4. ok \subseteq 1 .. 6
  BY <1>1, <1>2
<1>5. r \in {"DI", "SI", "BX", "DX", "CX", "AX"}
  <2>1. CASE ok = {}
    BY <1>3, <2>1
  <2>2. CASE ok # {}
    <3>1. Lowest(ok) \in ok
      <4>1. ok \subseteq Nat
        BY <1>4
      <4>2. QED
        BY ONLY <2>2, <4>1, LowestIs
    <3>2. PICK k : k = Lowest(ok) /\ k \in 1 .. 6
      BY <1>4, <3>1
    <3>3. \A j \in 1 .. 6 : temps[j] \in {"DI", "SI", "BX", "DX", "CX", "AX"}
      BY <1>1
    <3>4. QED
      BY <1>3, <2>2, <3>2, <3>3
  <2>3. QED
    BY <2>1, <2>2
<1>6. QED
  BY <1>5 DEF Wide, WordRegs

\* The target is taken from the stack, and BP is what it was before the moves.
LEMMA KeepPopTarget ==
    ASSUME FrameInv, KeptInv, PopTarget
    PROVE  KeptInv'
<1>1. /\ \E F \in Fns : fn \in F
      /\ pc = "placed" /\ fp = Len(Framed) /\ WithTarget(base.stack) /\ fn.exit = "ntail"
      /\ call = TailCallArgs /\ (fn.frame => base.regs["BP"] = FrameBP)
      /\ UNCHANGED <<fn, fp>> /\ pc' = "epilogue"
  BY DEF KeptInv, FunctionAt, LaidOut, RegsKept, Moving, PopTarget, frameVars
<1>2. /\ RegFile(regs) /\ stack = base.stack /\ Callable(call, base.regs)
      /\ \A r \in Wide \ {PushReg(call[a].dst) : a \in DOMAIN call} : regs[r] = base.regs[r]
  BY <1>1, NoneLeft, Untouched DEF DataOK, OthersUntouched
<1>3. ~FramePointerMoved => ~fn.frame \/ regs["BP"] = FrameBP
  <2>1. SUFFICES ASSUME ~FramePointerMoved, fn.frame, NEW a, a \in DOMAIN call
                 PROVE  PushReg(call[a].dst) # "BP"
    BY <1>1, <1>2, Kinds
  <2>2. PICK d : d = call[a].dst /\ d \in Reg
    BY <1>2, <2>1 DEF Callable, Movable
  <2>3. d \in Outs(fn)
    BY <1>1, <2>1, <2>2 DEF TailCallArgs, Outs
  <2>4. d # "BP"
    BY <2>1, <2>3 DEF FramePointerMoved
  <2>5. QED
    BY <2>2, <2>4, Kinds
<1>4. /\ stack' = OnEntry /\ RegFile(regs')
      /\ regs'["BP"] = regs["BP"]
  <2>1. CASE SafeTarget
    BY <1>1, <1>2, <2>1 DEF PopTarget, SafeTarget, WithTarget
  <2>2. CASE ~SafeTarget
    <3>1. PICK st, b, r, w : /\ st = stack /\ b = OnEntry /\ StackOn(st, b, 0 + 1)
                             /\ r = choose_ntailcall_target_reg(fn) /\ w = Head(stack)
      <4>1. StackOn(stack, OnEntry, 1)
        BY <1>1, <1>2, <2>2 DEF WithTarget
      <4>2. 0 + 1 = 1
        OBVIOUS
      <4>3. StackOn(stack, OnEntry, 0 + 1)
        BY ONLY <4>1, <4>2
      <4>4. QED
        BY <4>3
    <3>2. StackOn(Tail(st), b, 0) /\ Head(st) = st[1] /\ DOMAIN st[1] = 1 .. 2
      BY ONLY <3>1, PopOn, 0 \in Nat
    <3>3. Tail(st) = b
      BY ONLY <3>2, Emptied
    <3>4. r \in Wide /\ r # "BP"
      BY ONLY <3>1, TargetRegister
    <3>5. PICK rg : rg = regs' /\ rg = Put16(regs, r, w)
      BY <2>2, <3>1 DEF PopTarget, SafeTarget
    <3>6. RegFile(regs) /\ DOMAIN w = 1 .. 2
      BY <1>2, <3>1, <3>2
    <3>7. RegFile(rg) /\ \A q \in Wide : q # r => rg[q] = regs[q]
      BY ONLY <3>4, <3>5, <3>6, PutWide
    <3>8. stack' = Tail(stack)
      BY <2>2 DEF PopTarget, SafeTarget
    <3>9. QED
      BY <3>1, <3>3, <3>4, <3>5, <3>7, <3>8, Kinds
  <2>3. QED
    BY <2>1, <2>2
<1>5. ~fn.isr
  BY <1>1, HandlerIs
<1>6. FunctionAt'
  BY <1>1, SameLayers DEF FunctionAt
<1>7. LaidOut'
  BY <1>1, <1>4, SameLayers DEF LaidOut, Moving
<1>8. RegsKept'
  BY <1>1, <1>3, <1>4, <1>5, SameLayers DEF RegsKept, Moving
<1>9. QED
  BY <1>6, <1>7, <1>8 DEF KeptInv

-----------------------------------------------------------------------------
(* The epilogue. *)

\* Every element of two sequences is one of the two together.
LEMMA InConcat ==
    ASSUME NEW S, NEW s, s \in Seq(S), NEW t, t \in Seq(S), NEW x, x \in ToSet(s) \cup ToSet(t)
    PROVE  x \in ToSet(s \o t)
<1>1. PICK m, n, u : m = Len(s) /\ n = Len(t) /\ u = s \o t
  OBVIOUS
<1>2. /\ u \in Seq(S) /\ Len(u) = m + n
      /\ \A i \in 1 .. m + n : u[i] = IF i <= m THEN s[i] ELSE t[i - m]
  BY ONLY <1>1, ConcatProperties, s \in Seq(S), t \in Seq(S)
<1>3. /\ m \in Nat /\ DOMAIN s = 1 .. m /\ n \in Nat /\ DOMAIN t = 1 .. n
      /\ DOMAIN u = 1 .. Len(u)
  BY ONLY <1>1, <1>2, LenProperties, s \in Seq(S), t \in Seq(S)
<1>4. DOMAIN u = 1 .. m + n
  BY ONLY <1>2, <1>3
<1>5. \E i \in DOMAIN u : u[i] = x
  <2>1. CASE x \in ToSet(s)
    <3>1. PICK i \in 1 .. m : s[i] = x
      BY <1>3, <2>1 DEF ToSet
    <3>2. i \in 1 .. m + n /\ i <= m
      BY ONLY <1>3, i \in 1 .. m
    <3>3. QED
      BY ONLY <1>2, <1>4, <3>1, <3>2
  <2>2. CASE x \in ToSet(t)
    <3>1. PICK i \in 1 .. n : t[i] = x
      BY <1>3, <2>2 DEF ToSet
    <3>2. m + i \in 1 .. m + n /\ ~(m + i <= m) /\ m + i - m = i
      BY ONLY <1>3, i \in 1 .. n
    <3>3. u[m + i] = x
      <4>1. PICK j : j = m + i
        OBVIOUS
      <4>2. j \in 1 .. m + n /\ ~(j <= m) /\ j - m = i
        BY ONLY <1>3, <4>1, i \in 1 .. n
      <4>3. u[j] = t[j - m]
        BY ONLY <1>2, <4>2
      <4>4. QED
        BY ONLY <3>1, <4>1, <4>2, <4>3
    <3>4. QED
      BY ONLY <1>4, <3>2, <3>3
  <2>3. QED
    BY <2>1, <2>2
<1>6. QED
  BY <1>1, <1>5 DEF ToSet

\* What is to be saved is pushed, one by one or with PUSHA.
LEMMA SaveOrderHas ==
    ASSUME NEW saved, saved \in Seq(Wide), NEW r, r \in ToSet(saved)
    PROVE  r \in ToSet(SaveOrder(saved))
<1>1. PICK U : U = Wide \cup {"SP"}
  OBVIOUS
<1>2. PushaOrder \in Seq(U)
  <2>1. {"AX", "CX", "DX", "BX", "SP", "BP", "SI", "DI"} \subseteq U
    BY <1>1 DEF Wide, WordRegs
  <2>2. QED
    BY <2>1 DEF PushaOrder
<1>3. saved \in Seq(U) /\ DOMAIN saved = 1 .. Len(saved) /\ Len(saved) \in Nat
  <2>1. saved \in Seq(U)
    BY ONLY <1>1, saved \in Seq(Wide), SeqMonotonic, Wide \subseteq Wide \cup {"SP"}
  <2>2. QED
    BY ONLY <2>1, LenProperties
<1>4. PICK P, t : P = {k \in DOMAIN saved : ~preg_covered_by_pusha(saved[k])} /\ t = Picked(saved, P)
  OBVIOUS
<1>5. P \in SUBSET (1 .. Len(saved))
  BY <1>3, <1>4
<1>6. t \in Seq(U) /\ \E pos \in Seq(1 .. Len(saved)) : Picks(saved, P, Len(saved), t, pos)
  BY ONLY <1>3, <1>4, <1>5, PickedIs
<1>7. PICK k \in 1 .. Len(saved) : saved[k] = r
  BY <1>3 DEF ToSet
<1>8. r \in ToSet(t) \cup ToSet(PushaOrder)
  <2>1. CASE preg_covered_by_pusha(r)
    BY <2>1 DEF preg_covered_by_pusha
  <2>2. CASE ~preg_covered_by_pusha(r)
    <3>1. PICK pos \in Seq(1 .. Len(saved)) : Picks(saved, P, Len(saved), t, pos)
      BY <1>6
    <3>2. k \in P /\ k <= Len(saved)
      BY <1>3, <1>4, <1>7, <2>2
    <3>3. PICK i \in 1 .. Len(pos) : pos[i] = k /\ t[i] = saved[pos[i]] /\ Len(t) = Len(pos)
      BY <3>1, <3>2 DEF Picks
    <3>4. i \in DOMAIN t
      BY ONLY <1>6, <3>3, LenProperties
    <3>5. t[i] = r
      BY <1>7, <3>3
    <3>6. QED
      BY <3>4, <3>5 DEF ToSet
  <2>3. QED
    BY <2>1, <2>2
<1>9. r \in ToSet(t \o PushaOrder)
  BY ONLY <1>2, <1>6, <1>8, InConcat
<1>10. QED
  BY <1>4, <1>9 DEF SaveOrder

\* DS, the registers the function preserves, BP and an interrupt handler's registers
\* are popped off the layers the prologue pushed.
LEMMA Unwound ==
    ASSUME FrameInv, KeptInv, emit_epilogue, ~FramePointerMoved
    PROVE  /\ stack' = << >>
           /\ \A r \in Wide :
                 IF r \in ToSet(SaveOrder(isr_save(fn))) \cup ToSet(fn.saves)
                    \/ (r = "BP" /\ fn.frame) \/ (r = "DS" /\ ds_explicit_save(fn))
                 THEN regs'[r] = EntryWord(r) ELSE regs'[r] = regs[r]
<1>1. /\ \E F \in Fns : fn \in F
      /\ stack = OnEntry /\ fp = Len(Framed) /\ RegFile(regs)
      /\ (fn.frame => regs["BP"] = FrameBP)
  BY DEF KeptInv, FunctionAt, LaidOut, RegsKept, Within, emit_epilogue
<1>2. LayersLie
  BY <1>1, Layers
<1>3. PICK rf0, st0, saves :
         /\ rf0 = IF ds_explicit_save(fn) THEN Put16(regs, "DS", Head(stack)) ELSE regs
         /\ st0 = IF ds_explicit_save(fn) THEN Tail(stack) ELSE stack
         /\ saves = fn.saves
  OBVIOUS
<1>4. PICK kept, framed, handled : kept = Kept /\ framed = Framed /\ handled = Handled
  OBVIOUS
<1>5. "DS" \in Wide /\ "BP" \in Wide /\ "DS" # "BP"
  BY DEF Wide, WordRegs, SegRegs
<1>6. /\ st0 = kept /\ RegFile(rf0)
      /\ \A r \in Wide : IF r = "DS" /\ ds_explicit_save(fn) THEN rf0[r] = EntryWord(r)
                         ELSE rf0[r] = regs[r]
  <2>1. CASE ds_explicit_save(fn)
    <3>1. PICK st, w : st = stack /\ w = Head(st) /\ st = OnEntry /\ w = Head(stack)
      BY <1>1
    <3>2. StackOn(st, kept, 0 + 1)
      <4>1. StackOn(st, kept, 1) /\ 0 + 1 = 1
        BY <1>2, <1>4, <2>1, <3>1 DEF LayersLie
      <4>2. QED
        BY ONLY <4>1
    <3>3. StackOn(Tail(st), kept, 0) /\ Head(st) = st[1] /\ DOMAIN st[1] = 1 .. 2
      BY ONLY <3>2, PopOn, 0 \in Nat
    <3>4. Tail(st) = kept
      BY ONLY <3>3, Emptied
    <3>5. w = EntryWord("DS") /\ DOMAIN w = 1 .. 2
      BY <1>2, <2>1, <3>1, <3>3 DEF LayersLie
    <3>6. rf0 = Put16(regs, "DS", w)
      BY <1>3, <2>1, <3>1
    <3>7. RegFile(rf0) /\ rf0["DS"] = w /\ \A r \in Wide : r # "DS" => rf0[r] = regs[r]
      BY ONLY <1>1, <1>5, <3>5, <3>6, PutWide
    <3>8. QED
      BY <1>3, <2>1, <3>1, <3>4, <3>5, <3>7
  <2>2. CASE ~ds_explicit_save(fn)
    <3>1. StackOn(stack, kept, 0)
      BY <1>1, <1>2, <1>4, <2>2 DEF LayersLie
    <3>2. stack = kept
      BY ONLY <3>1, Emptied
    <3>3. QED
      BY <1>1, <1>3, <2>2, <3>2
  <2>3. QED
    BY <2>1, <2>2
<1>7. PICK rf1, st1 : rf1 = Popped(rf0, st0, saves) /\ st1 = Drop(st0, Len(saves))
  OBVIOUS
<1>8. /\ st1 = framed /\ RegFile(rf1)
      /\ \A r \in Wide : IF r \in ToSet(saves) \/ (r = "DS" /\ ds_explicit_save(fn))
                         THEN rf1[r] = FrameRegs[r] ELSE rf1[r] = regs[r]
  <2>1. PICK was : was = FrameRegs /\ RegFile(was) /\ Lies(st0, framed, saves, was)
                   /\ saves \in Seq(Wide \cup {"SP"})
    BY <1>2, <1>3, <1>4, <1>6 DEF LayersLie
  <2>2. RegFile(rf1) /\ \A r \in Wide : rf1[r] = IF r \in ToSet(saves) THEN was[r] ELSE rf0[r]
    BY ONLY <1>6, <1>7, <2>1, PoppedOff
  <2>3. PICK n : n = Len(saves)
    OBVIOUS
  <2>4. StackOn(st0, framed, n) /\ st1 = Drop(st0, n)
    BY <1>7, <2>1, <2>3 DEF Lies
  <2>5. st1 = framed
    BY ONLY <2>4, DropOn
  <2>6. FrameRegs["DS"] = EntryWord("DS")
    BY <1>2, <1>5 DEF LayersLie
  <2>7. QED
    BY <1>6, <2>1, <2>2, <2>5, <2>6
<1>9. fn.frame => rf1["BP"] = FrameBP
  BY <1>1, <1>2, <1>5, <1>8 DEF LayersLie
<1>10. PICK st2 : st2 = IF ~fn.frame THEN st1
                        ELSE IF rf1["BP"] = FrameBP
                        THEN SubSeq(st1, Len(st1) + 1 - fp, Len(st1)) ELSE <<Unknown>>
  OBVIOUS
<1>11. Sequence(framed) /\ StackOn(framed, framed, 0)
  <2>1. Sequence(framed)
    BY <1>2, <1>4 DEF LayersLie, StackOn
  <2>2. QED
    BY ONLY <2>1, OnItself
<1>12. st2 = framed
  <2>1. CASE fn.frame
    <3>1. PICK n : n = Len(framed) /\ n \in Nat
      BY <1>11 DEF Sequence
    <3>2. n + 1 - n = 0 + 1
      BY ONLY <3>1
    <3>3. st2 = Drop(framed, 0)
      BY <1>1, <1>4, <1>8, <1>9, <1>10, <2>1, <3>1, <3>2 DEF Drop
    <3>4. QED
      BY ONLY <1>11, <3>3, DropOn
  <2>2. CASE ~fn.frame
    BY <1>8, <1>10, <2>2
  <2>3. QED
    BY <2>1, <2>2
<1>13. PICK rf2, st3 : /\ rf2 = IF fn.frame THEN Put16(rf1, "BP", Head(st2)) ELSE rf1
                       /\ st3 = IF fn.frame THEN Tail(st2) ELSE st2
  OBVIOUS
<1>14. /\ st3 = handled /\ RegFile(rf2)
       /\ fn.frame => rf2["BP"] = EntryWord("BP")
       /\ \A r \in Wide : ~(r = "BP" /\ fn.frame) => rf2[r] = rf1[r]
  <2>1. CASE fn.frame
    <3>1. StackOn(st2, handled, 0 + 1)
      <4>1. StackOn(st2, handled, 1) /\ 0 + 1 = 1
        BY <1>2, <1>4, <1>12, <2>1 DEF LayersLie
      <4>2. QED
        BY ONLY <4>1
    <3>2. StackOn(Tail(st2), handled, 0) /\ Head(st2) = st2[1] /\ DOMAIN st2[1] = 1 .. 2
      BY ONLY <3>1, PopOn, 0 \in Nat
    <3>3. Tail(st2) = handled
      BY ONLY <3>2, Emptied
    <3>4. PICK w : w = Head(st2) /\ DOMAIN w = 1 .. 2 /\ w = CallerBP
      BY <1>2, <1>4, <1>12, <2>1, <3>2 DEF LayersLie
    <3>5. rf2 = Put16(rf1, "BP", w)
      BY <1>13, <2>1, <3>4
    <3>6. RegFile(rf2) /\ rf2["BP"] = w /\ \A r \in Wide : r # "BP" => rf2[r] = rf1[r]
      BY ONLY <1>5, <1>8, <3>4, <3>5, PutWide
    <3>7. EntryWord("BP") = CallerBP
      BY <2>1 DEF EntryWord
    <3>8. QED
      BY <1>13, <2>1, <3>3, <3>4, <3>6, <3>7
  <2>2. CASE ~fn.frame
    <3>1. StackOn(framed, handled, 0)
      BY <1>2, <1>4, <2>2 DEF LayersLie
    <3>2. framed = handled
      BY ONLY <3>1, Emptied
    <3>3. QED
      BY <1>8, <1>12, <1>13, <2>2, <3>2
  <2>3. QED
    BY <2>1, <2>2
<1>15. PICK isr, final : isr = SaveOrder(isr_save(fn)) /\ final = Popped(rf2, st3, isr)
  OBVIOUS
<1>16. PICK was : was = EntryRegs /\ RegFile(was) /\ Lies(st3, << >>, isr, was)
                  /\ isr \in Seq(Wide \cup {"SP"})
  BY <1>2, <1>4, <1>14, <1>15 DEF LayersLie
<1>17. RegFile(final) /\ \A r \in Wide : final[r] = IF r \in ToSet(isr) THEN was[r] ELSE rf2[r]
  BY ONLY <1>14, <1>15, <1>16, PoppedOff
<1>18. Drop(st3, Len(isr)) = << >>
  <2>1. PICK n, t : n = Len(isr) /\ t = Drop(st3, n)
    OBVIOUS
  <2>2. StackOn(st3, << >>, n)
    BY <1>16, <2>1 DEF Lies
  <2>3. t = << >>
    BY ONLY <2>1, <2>2, DropOn
  <2>4. QED
    BY <2>1, <2>3
<1>19. regs' = final /\ stack' = Drop(st3, Len(isr))
  BY <1>3, <1>7, <1>10, <1>13, <1>15 DEF emit_epilogue
<1>20. ASSUME NEW r \in Wide
       PROVE  IF r \in ToSet(isr) \cup ToSet(saves) \/ (r = "BP" /\ fn.frame)
                 \/ (r = "DS" /\ ds_explicit_save(fn))
              THEN final[r] = EntryWord(r) ELSE final[r] = regs[r]
  <2>1. was[r] = EntryWord(r)
    BY <1>2, <1>16 DEF LayersLie
  <2>2. ~(r = "BP" /\ fn.frame) => FrameRegs[r] = EntryWord(r)
    BY <1>2 DEF LayersLie
  <2>3. CASE r \in ToSet(isr)
    BY <1>17, <2>1, <2>3
  <2>4. CASE r \notin ToSet(isr) /\ r = "BP" /\ fn.frame
    BY <1>14, <1>17, <2>4
  <2>5. CASE r \notin ToSet(isr) /\ ~(r = "BP" /\ fn.frame)
    <3>1. final[r] = rf1[r]
      BY <1>14, <1>17, <2>5
    <3>2. QED
      BY <1>8, <2>2, <2>5, <3>1
  <2>6. QED
    BY <2>3, <2>4, <2>5
<1>21. QED
  BY <1>3, <1>15, <1>18, <1>19, <1>20

\* So the function's contract is kept.
LEMMA KeepContract ==
    ASSUME FrameInv, KeptInv, emit_epilogue
    PROVE  ContractKept' /\ KeptInv'
<1>1. /\ \E F \in Fns : fn \in F
      /\ (fn.isr => Unused) /\ fn' = fn /\ pc' = "exit"
  BY DEF KeptInv, FunctionAt, RegsKept, Within, emit_epilogue, frameVars
<1>2. KeptInv'
  BY <1>1 DEF KeptInv, FunctionAt, LaidOut, RegsKept, Within, Moving
<1>3. ASSUME ~FramePointerMoved
      PROVE  /\ \A k \in DOMAIN fn.saves : regs'[fn.saves[k]] = EntryWord(fn.saves[k])
             /\ fn.frame => regs'["BP"] = EntryWord("BP")
             /\ fn.ds => regs'["DS"] = EntryWord("DS")
             /\ fn.isr => \A r \in WordRegs \ {"SP"} : regs'[r] = EntryWord(r)
             /\ stack' = << >>
  <2>1. /\ stack' = << >>
        /\ \A r \in Wide :
              IF r \in ToSet(SaveOrder(isr_save(fn))) \cup ToSet(fn.saves)
                 \/ (r = "BP" /\ fn.frame) \/ (r = "DS" /\ ds_explicit_save(fn))
              THEN regs'[r] = EntryWord(r) ELSE regs'[r] = regs[r]
    BY <1>3, Unwound
  <2>2. "DS" \in Wide /\ "BP" \in Wide
    BY DEF Wide, WordRegs, SegRegs
  <2>3. ASSUME NEW k, k \in DOMAIN fn.saves PROVE regs'[fn.saves[k]] = EntryWord(fn.saves[k])
    <3>1. PICK saves : saves = fn.saves /\ saves \in Seq(Wide)
      BY <1>1, FnsAssumption
    <3>2. saves[k] \in Wide
      BY ONLY <2>3, <3>1, ElementsIn
    <3>3. saves[k] \in ToSet(saves)
      BY <2>3, <3>1 DEF ToSet
    <3>4. QED
      BY <2>1, <3>1, <3>2, <3>3
  <2>4. fn.frame => regs'["BP"] = EntryWord("BP")
    BY <2>1, <2>2
  <2>5. fn.ds => regs'["DS"] = EntryWord("DS")
    BY <2>1, <2>2 DEF ds_explicit_save
  <2>6. ASSUME fn.isr, NEW r, r \in WordRegs \ {"SP"} PROVE regs'[r] = EntryWord(r)
    <3>1. r \in Wide
      BY <2>6 DEF Wide
    <3>2. CASE r \in ToSet(isr_save(fn))
      <4>1. PICK saved : saved = isr_save(fn) /\ saved \in Seq(Wide)
        BY ONLY IsrSaveOver
      <4>2. r \in ToSet(SaveOrder(saved))
        BY ONLY <3>2, <4>1, SaveOrderHas
      <4>3. QED
        BY <2>1, <3>1, <4>1, <4>2
    <3>3. CASE r \notin ToSet(isr_save(fn))
      <4>1. regs[r] = EntryWord(r)
        BY <1>1, <2>6, <3>3 DEF Unused
      <4>2. QED
        BY <2>1, <3>1, <4>1
    <3>4. QED
      BY <3>2, <3>3
  <2>7. QED
    BY <2>1, <2>3, <2>4, <2>5, <2>6
<1>4. ContractKept'
  BY <1>1, <1>3, SameLayers DEF ContractKept
<1>5. QED
  BY <1>2, <1>4

\* Every step keeps what a function preserves.
LEMMA KeptStep ==
    ASSUME FrameInv, KeptInv, ContractKept, [Next]_fvars
    PROVE  KeptInv' /\ ContractKept'
<1>1. FrameInv'
  BY InvStep
<1>2. CASE Prologue
  <2>1. KeptInv'
    BY <1>1, <1>2, KeepPrologue
  <2>2. pc' # "exit"
    BY <1>2 DEF Prologue
  <2>3. QED
    BY <2>1, <2>2 DEF ContractKept
<1>3. CASE EntryMove \/ EndParams \/ Body
  <2>1. KeptInv'
    BY <1>1, <1>3, KeepBody
  <2>2. \E F \in Fns : fn \in F
    BY <1>3 DEF KeptInv, FunctionAt, Within, EntryMove, EndParams, Body
  <2>3. fn.exit # "exit"
    BY <2>2, FnsAssumption
  <2>4. pc' # "exit"
    BY <1>3, <2>3 DEF EntryMove, EndParams, Body
  <2>5. QED
    BY <2>1, <2>4 DEF ContractKept
<1>4. CASE StackReturn \/ TailArgs \/ PopOut \/ EndOut \/ EndReturn
  <2>1. KeptInv'
    BY <1>4, KeepPush, KeepPop, KeepEnd
  <2>2. pc' \in {"outs", "epilogue"}
    BY <1>4 DEF StackReturn, TailArgs, PushOut, PopOut, EndOut, EndReturn
  <2>3. QED
    BY <2>1, <2>2 DEF ContractKept
<1>5. CASE PlanReturn \/ ReturnMove
  <2>1. KeptInv'
    BY <1>5, KeepPlan, KeepReturnMove
  <2>2. pc' = "retmoves"
    BY <1>5 DEF PlanReturn, ReturnMove
  <2>3. QED
    BY <2>1, <2>2 DEF ContractKept
<1>6. CASE StartTail \/ TailMoves \/ PopTarget
  <2>1. KeptInv'
    BY <1>6, KeepTarget, KeepTailMoves, KeepPopTarget
  <2>2. pc' \in {"ntailargs", "moves", "epilogue"}
    BY <1>6 DEF StartTail, TailMoves, StartMoves, PopTarget
  <2>3. QED
    BY <2>1, <2>2 DEF ContractKept
<1>7. CASE SiteMoves /\ UNCHANGED frameVars
  <2>1. KeptInv'
    BY <1>7, KeepMoves
  <2>2. pc' \in {"moves", "pops", "placed"}
    BY <1>7 DEF SiteMoves, MoveStep, EmitMove, SaveMove, StartPops, PopSaved, EndPops
  <2>3. QED
    BY <2>1, <2>2 DEF ContractKept
<1>8. CASE emit_epilogue
  BY <1>8, KeepContract
<1>9. CASE MoveArgs
  <2>1. pc' = "moves" /\ pc = "args" /\ site' = site
    BY <1>9 DEF MoveArgs, StartMoves, siteVars
  <2>2. \E F \in Sites : site \in F
    BY <2>1 DEF FrameInv, CallBegins
  <2>3. site # NoSite
    BY <2>2, SitesAssumption DEF NoSite
  <2>4. ~Moving' /\ ~Within'
    BY <2>1, <2>3 DEF Moving, Within, NoSite
  <2>5. KeptInv'
    BY <2>1, <2>4 DEF KeptInv, FunctionAt, LaidOut, RegsKept
  <2>6. QED
    BY <2>1, <2>5 DEF ContractKept
<1>10. CASE emit_call_saves \/ PushArea \/ EmitCall \/ CaptureResult \/ EndCapture \/ DropArea
            \/ emit_call_restores \/ ReloadResult \/ EndCall
  <2>1. pc' \in {"area", "args", "capture", "cleanup", "restore", "reload", "end"}
    BY <1>10 DEF emit_call_saves, PushArea, EmitCall, CaptureResult, EndCapture, DropArea,
                 emit_call_restores, ReloadResult, EndCall
  <2>2. KeptInv'
    BY <2>1 DEF KeptInv, FunctionAt, LaidOut, RegsKept, Moving, Within
  <2>3. QED
    BY <2>1, <2>2 DEF ContractKept
<1>11. CASE UNCHANGED fvars
  <2>1. /\ UNCHANGED <<pc, regs, mem, stack, site, ri, fn, fp>>
        /\ UNCHANGED <<call, moves, mi, base>>
    BY <1>11 DEF fvars, vars, siteVars, frameVars, moveVars
  <2>2. (Within' <=> Within) /\ (Moving' <=> Moving)
    BY <2>1 DEF Within, Moving
  <2>3. FunctionAt'
    BY <2>1, <2>2, SameLayers DEF KeptInv, FunctionAt
  <2>4. /\ WithTarget(stack)' <=> WithTarget(stack)
        /\ WithTarget(base.stack)' <=> WithTarget(base.stack)
    BY <2>1, SameLayers DEF WithTarget
  <2>5. StackOn(stack, OnEntry, mi)' <=> StackOn(stack, OnEntry, mi)
    BY <2>1, SameLayers
  <2>6. LaidOut'
    BY <2>1, <2>2, <2>4, <2>5, SameLayers DEF KeptInv, LaidOut
  <2>7. Unused' <=> Unused
    BY <2>1, SameLayers DEF Unused
  <2>8. EntryRegs' = EntryRegs
    BY <2>1, SameLayers DEF EntryRegs
  <2>9. MemFile' <=> MemFile
    BY <2>1 DEF MemFile
  <2>10. RegsKept'
    BY <2>1, <2>2, <2>7, <2>8, <2>9, SameLayers DEF KeptInv, RegsKept
  <2>11. ContractKept'
    BY <2>1, SameLayers DEF ContractKept
  <2>12. QED
    BY <2>3, <2>6, <2>10, <2>11 DEF KeptInv
<1>12. QED
  BY <1>2, <1>3, <1>4, <1>5, <1>6, <1>7, <1>8, <1>9, <1>10, <1>11
     DEF Next, SiteStep, CallNext, FrameStep

\* It holds before the first step.
LEMMA KeptFirst ==
    ASSUME Init
    PROVE  KeptInv /\ ContractKept
<1>1. pc \in {"saves", "prologue"}
  BY DEF Init, CallInit, FrameInit
<1>2. pc = "prologue" => regs = EntryRegs
  <2>1. SUFFICES ASSUME pc = "prologue" PROVE regs = EntryRegs
    OBVIOUS
  <2>2. PICK e : /\ e = EntryWord("BP")
                 /\ regs = [[r \in Wide |-> <<Orig(r, 1), Orig(r, 2)>>] EXCEPT !["BP"] = e]
    BY <2>1 DEF Init, CallInit, FrameInit, InitMachine
  <2>3. \A r \in Wide : r # "BP" => EntryWord(r) = <<Orig(r, 1), Orig(r, 2)>>
    BY DEF EntryWord
  <2>4. regs = [r \in Wide |-> EntryWord(r)]
    BY <2>2, <2>3
  <2>5. QED
    BY <2>4 DEF EntryRegs
<1>3. QED
  BY <1>1, <1>2 DEF KeptInv, FunctionAt, LaidOut, RegsKept, Moving, Within, ContractKept

\* Whatever way a function is left, the registers it preserves, BP, the caller's DS and
\* the stack are as they were on entry, and an interrupt handler restores every general
\* register (emit_epilogue, "Callee-save POP in reverse order").
THEOREM ContractIsKept == Spec => []ContractKept
<1> DEFINE Inv == FrameInv /\ KeptInv /\ ContractKept
<1>1. Init => Inv
  BY InitHolds, KeptFirst
<1>2. Inv /\ [Next]_fvars => Inv'
  BY InvStep, KeptStep
<1>3. Inv => ContractKept
  OBVIOUS
<1> HIDE DEF Inv
<1>4. QED
  BY <1>1, <1>2, <1>3, PTL DEF Spec
=============================================================================
