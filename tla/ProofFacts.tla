------------------------------ MODULE ProofFacts ------------------------------
(***************************************************************************)
(* Facts about numbers, iterated functions and sequences that the proofs   *)
(* about the tools keep needing; nothing here is about one of the tools.   *)
(***************************************************************************)
EXTENDS SequencesExt, FiniteSetTheorems, SequenceTheorems, WellFoundedInduction,
        TLAPS

-----------------------------------------------------------------------------
(* Induction.  A set of counterexamples has a smallest element: this is how *)
(* the proofs argue by induction on a number.                               *)

\* A set of numbers that is not empty has a smallest element.
LEMMA SmallestElement ==
    ASSUME NEW T, T \subseteq Nat, T # {}
    PROVE  \E n \in T : \A m \in T : n <= m
<1> DEFINE U == {1 .. n : n \in T}
           R == StrictSubsetOrdering(Nat)
<1>1. IsWellFoundedOn(R, FiniteSubsetsOf(Nat))
  BY FS_StrictSubsetOrderingWellFounded
<1>2. U \subseteq FiniteSubsetsOf(Nat) /\ U # {}
  <2>1. \A n \in Nat : 1 .. n \subseteq Nat /\ IsFiniteSet(1 .. n)
    BY FS_Interval
  <2>2. QED
    BY <2>1 DEF FiniteSubsetsOf
<1>3. PICK x \in U : \A y \in U : ~(<<y, x>> \in R)
  BY <1>1, <1>2, WFMin
<1>4. PICK n \in T : x = 1 .. n
  OBVIOUS
<1>5. ASSUME NEW m \in T, m < n PROVE FALSE
  <2>1. 1 .. m \subseteq 1 .. n /\ 1 .. m # 1 .. n
    BY <1>5
  <2>2. <<1 .. m, 1 .. n>> \in R
    BY <2>1 DEF StrictSubsetOrdering
  <2>3. QED
    BY <1>3, <1>4, <2>2
<1>6. QED
  BY <1>5

\* Iterating a function from a start value: the sequence of iterates exists.
LEMMA Iterates ==
    ASSUME NEW S, NEW a \in S, NEW nxt \in [S -> S]
    PROVE  \E f \in [Nat -> S] : f[0] = a /\ \A n \in Nat : f[n + 1] = nxt[f[n]]
<1> DEFINE Upto(n) == {g \in [0 .. n -> S] :
                         g[0] = a /\ \A m \in 0 .. n - 1 : g[m + 1] = nxt[g[m]]}
           Bad == {n \in Nat : Upto(n) = {}}
<1>1. Bad = {}
  <2> SUFFICES ASSUME Bad # {} PROVE FALSE
    OBVIOUS
  <2>1. PICK n \in Bad : \A m \in Bad : n <= m
    BY SmallestElement
  <2>2. n # 0
    <3>1. [k \in 0 .. 0 |-> a] \in Upto(0)
      OBVIOUS
    <3>2. QED
      BY <3>1
  <2>3. PICK g \in Upto(n - 1) : TRUE
    <3> HIDE DEF Upto
    <3>1. n - 1 \in Nat /\ n - 1 \notin Bad
      BY <2>1, <2>2
    <3>2. QED
      BY <3>1
  <2>4. g[n - 1] \in S
    BY <2>1, <2>2
  <2> DEFINE h == [k \in 0 .. n |-> IF k = n THEN nxt[g[n - 1]] ELSE g[k]]
  <2>5. h \in Upto(n)
    BY <2>1, <2>2, <2>4
  <2>6. QED
    BY <2>1, <2>5
<1>2. ASSUME NEW n \in Nat, NEW m \in 0 .. n, NEW g \in Upto(n), NEW h \in Upto(m)
      PROVE  g[m] = h[m]
  <2> DEFINE Differ == {k \in 0 .. m : g[k] # h[k]}
  <2> SUFFICES ASSUME Differ # {} PROVE FALSE
    OBVIOUS
  <2>1. PICK k \in Differ : \A j \in Differ : k <= j
    <3>1. Differ \subseteq Nat
      OBVIOUS
    <3>2. QED
      BY <3>1, SmallestElement
  <2>2. k # 0
    OBVIOUS
  <2>3. k - 1 \in 0 .. m - 1 /\ g[k - 1] = h[k - 1]
    BY <2>1, <2>2
  <2>4. g[k - 1 + 1] = nxt[g[k - 1]] /\ h[k - 1 + 1] = nxt[h[k - 1]]
    BY <2>3
  <2>5. k - 1 + 1 = k
    OBVIOUS
  <2>6. QED
    BY <2>3, <2>4, <2>5
<1> DEFINE pick == [n \in Nat |-> CHOOSE g \in Upto(n) : TRUE]
           f == [n \in Nat |-> pick[n][n]]
<1>3. \A n \in Nat : pick[n] \in Upto(n)
  <2> HIDE DEF Upto
  <2>1. \A n \in Nat : Upto(n) # {}
    BY <1>1
  <2>2. \A n \in Nat : (CHOOSE g \in Upto(n) : TRUE) \in Upto(n)
    BY <2>1
  <2>3. QED
    BY <2>2
<1> HIDE DEF pick
<1>4. f \in [Nat -> S] /\ f[0] = a
  BY <1>3
<1>5. ASSUME NEW n \in Nat PROVE f[n + 1] = nxt[f[n]]
  <2>1. pick[n + 1] \in Upto(n + 1) /\ pick[n] \in Upto(n) /\ n \in 0 .. n + 1
    BY <1>3
  <2>2. pick[n + 1][n] = pick[n][n]
    <3> HIDE DEF Upto
    <3>1. n + 1 \in Nat /\ n \in 0 .. n + 1
      OBVIOUS
    <3>2. QED
      BY <1>2, <2>1, <3>1
  <2>3. pick[n + 1][n + 1] = nxt[pick[n + 1][n]]
    BY <2>1
  <2>4. QED
    BY <2>2, <2>3
<1>6. QED
  BY <1>4, <1>5

\* The values f of an iteration in which step n + 1 takes the value v to nxt[<<n + 1, v>>].
Iteration(f, S, a, nxt) ==
    f \in [Nat -> S] /\ f[0] = a /\ \A n \in Nat : f[n + 1] = nxt[<<n + 1, f[n]>>]

\* They exist.
LEMMA StepsIterate ==
    ASSUME NEW S, NEW a, NEW nxt, a \in S, \A n \in Nat, x \in S : nxt[<<n, x>>] \in S
    PROVE  \E f : Iteration(f, S, a, nxt)
<1>1. PICK R, start, step :
          /\ R = Nat \X S /\ start = <<0, a>>
          /\ step = [x \in R |-> <<x[1] + 1, nxt[<<x[1] + 1, x[2]>>]>>]
  OBVIOUS
<1>2. start \in R /\ step \in [R -> R]
  BY <1>1
<1>3. PICK f \in [Nat -> R] : f[0] = start /\ \A n \in Nat : f[n + 1] = step[f[n]]
  BY ONLY <1>2, Iterates
<1>4. \A n \in Nat :
         f[n] \in R /\ f[n + 1] = <<f[n][1] + 1, nxt[<<f[n][1] + 1, f[n][2]>>]>>
  BY <1>1, <1>3
<1>5. \A n \in Nat : f[n][1] = n
  <2> DEFINE Bad == {n \in Nat : f[n][1] # n}
  <2>1. SUFFICES ASSUME Bad # {} PROVE FALSE
    OBVIOUS
  <2>2. PICK n \in Bad : \A m \in Bad : n <= m
    <3>1. Bad \subseteq Nat
      OBVIOUS
    <3>2. QED
      BY ONLY <2>1, <3>1, SmallestElement
  <2>3. n \in Nat /\ n # 0
    BY <1>1, <1>3, <2>2
  <2>4. PICK m \in Nat : n = m + 1
    <3>1. n - 1 \in Nat /\ n = n - 1 + 1
      BY ONLY <2>3
    <3>2. QED
      BY <3>1
  <2>5. f[m][1] = m
    BY <2>2, <2>4
  <2>6. f[n][1] = n
    <3>1. f[m + 1] = <<f[m][1] + 1, nxt[<<f[m][1] + 1, f[m][2]>>]>>
      BY <1>4
    <3>2. QED
      BY <2>4, <2>5, <3>1
  <2>7. QED
    BY <2>2, <2>6
<1>6. PICK g \in [Nat -> S] : \A n \in Nat : g[n] = f[n][2]
  <2>1. [n \in Nat |-> f[n][2]] \in [Nat -> S]
    BY <1>1, <1>3
  <2>2. QED
    BY <2>1
<1>7. g[0] = a /\ \A n \in Nat : g[n + 1] = nxt[<<n + 1, g[n]>>]
  BY <1>1, <1>3, <1>4, <1>5, <1>6
<1>8. Iteration(g, S, a, nxt)
  BY <1>7 DEF Iteration
<1>9. QED
  BY <1>8

\* A growing iteration within a finite set is at rest after as many steps as the
\* set has elements.
LEMMA ChainRests ==
    ASSUME NEW S, IsFiniteSet(S), NEW R \in [Nat -> SUBSET S],
           NEW nxt \in [SUBSET S -> SUBSET S],
           \A n \in Nat : R[n + 1] = nxt[R[n]] /\ R[n] \subseteq R[n + 1]
    PROVE  R[Cardinality(S) + 1] = R[Cardinality(S)]
<1> DEFINE N == Cardinality(S)
<1>1. N \in Nat /\ \A n \in Nat : IsFiniteSet(R[n]) /\ Cardinality(R[n]) \in Nat /\ Cardinality(R[n]) <= N
  <2>1. \A n \in Nat : R[n] \subseteq S
    OBVIOUS
  <2>2. QED
    BY <2>1, FS_Subset, FS_CardinalityType
<1> HIDE DEF N
<1>2. ASSUME NEW k \in Nat, R[k + 1] = R[k], NEW n \in Nat, k <= n
      PROVE  R[n] = R[k]
  <2> DEFINE Bad == {m \in Nat : k <= m /\ R[m] # R[k]}
  <2> SUFFICES ASSUME Bad # {} PROVE FALSE
    BY <1>2
  <2>1. PICK m \in Bad : \A l \in Bad : m <= l
    <3>1. Bad \subseteq Nat
      OBVIOUS
    <3>2. QED
      BY <3>1, SmallestElement
  <2>2. m # k /\ m - 1 \in Nat /\ k <= m - 1 /\ m - 1 + 1 = m
    BY <1>2
  <2>3. R[m - 1] = R[k]
    BY <2>1, <2>2
  <2>4. R[m] = nxt[R[m - 1]] /\ R[k + 1] = nxt[R[k]]
    BY <2>2
  <2>5. QED
    BY <1>2, <2>3, <2>4
<1>3. \E k \in 0 .. N : R[k + 1] = R[k]
  <2> SUFFICES ASSUME \A k \in 0 .. N : R[k + 1] # R[k] PROVE FALSE
    OBVIOUS
  <2> DEFINE Bad == {m \in 0 .. N + 1 : Cardinality(R[m]) < m}
  <2>1. Bad = {}
    <3> SUFFICES ASSUME Bad # {} PROVE FALSE
      OBVIOUS
    <3>1. PICK m \in Bad : \A l \in Bad : m <= l
      <4>1. Bad \subseteq Nat
        BY <1>1
      <4>2. QED
        BY <4>1, SmallestElement
    <3>2. m # 0 /\ m \in Nat /\ m - 1 \in 0 .. N /\ m - 1 + 1 = m
      BY <1>1
    <3>3. ~(Cardinality(R[m - 1]) < m - 1)
      BY <1>1, <3>1, <3>2
    <3>4. R[m - 1] \subseteq R[m] /\ R[m - 1] # R[m]
      BY <3>2
    <3>5. Cardinality(R[m - 1]) < Cardinality(R[m])
      <4>1. IsFiniteSet(R[m]) /\ R[m - 1] \in SUBSET R[m]
        BY <1>1, <3>2, <3>4
      <4>2. Cardinality(R[m - 1]) <= Cardinality(R[m])
            /\ (Cardinality(R[m - 1]) = Cardinality(R[m]) => R[m - 1] = R[m])
        BY <4>1, FS_Subset
      <4>3. m - 1 \in Nat /\ Cardinality(R[m - 1]) \in Nat /\ Cardinality(R[m]) \in Nat
        BY <1>1, <3>2
      <4>4. QED
        BY <3>4, <4>2, <4>3
    <3>6. QED
      BY <1>1, <3>2, <3>3, <3>5
  <2>2. N + 1 \notin Bad /\ N + 1 \in 0 .. N + 1 /\ N + 1 \in Nat
    BY <1>1, <2>1
  <2>3. QED
    BY <1>1, <2>2
<1>4. PICK k \in 0 .. N : R[k + 1] = R[k]
  BY <1>3
<1>5. R[N] = R[k] /\ R[N + 1] = R[k]
  BY <1>1, <1>2, <1>4
<1>6. QED
  BY <1>5 DEF N

-----------------------------------------------------------------------------
(* Ranks. *)

RankOf(S, f) == [s \in S |-> Cardinality({t \in S : f[t] < f[s]})]

\* Numbering the elements of a finite set in the order of different keys uses each
\* number below its size once.
LEMMA Ranks ==
    ASSUME NEW S, IsFiniteSet(S), NEW f \in [S -> Nat],
           \A a, b \in S : f[a] = f[b] => a = b,
           NEW rank, rank = RankOf(S, f)
    PROVE  /\ \A a, b \in S : rank[a] = rank[b] => a = b
           /\ {rank[s] : s \in S} = 0 .. Cardinality(S) - 1
<1> DEFINE Lower(s) == {t \in S : f[t] < f[s]}
           N == Cardinality(S)
<1>1. N \in Nat
  BY FS_CardinalityType
<1>2. \A s \in S : IsFiniteSet(Lower(s)) /\ Cardinality(Lower(s)) \in Nat /\ rank[s] = Cardinality(Lower(s))
  <2>1. \A s \in S : Lower(s) \subseteq S
    OBVIOUS
  <2>2. \A s \in S : IsFiniteSet(Lower(s))
    BY <2>1, FS_Subset
  <2>3. QED
    BY <2>2, FS_CardinalityType DEF RankOf
<1>3. ASSUME NEW a \in S, NEW b \in S, f[a] < f[b] PROVE rank[a] < rank[b]
  <2>1. Lower(a) \subseteq Lower(b) /\ a \in Lower(b) /\ a \notin Lower(a)
    BY <1>3
  <2>2. Lower(a) \in SUBSET Lower(b) /\ Lower(a) # Lower(b)
    BY <2>1
  <2>3. Cardinality(Lower(a)) <= Cardinality(Lower(b))
        /\ (Cardinality(Lower(a)) = Cardinality(Lower(b)) => Lower(a) = Lower(b))
    <3> HIDE DEF Lower
    <3>1. QED
      BY <1>2, <2>2, FS_Subset
  <2>4. QED
    <3> HIDE DEF Lower
    <3>1. QED
      BY ONLY <1>2, <2>2, <2>3, a \in S, b \in S
<1>4. \A a, b \in S : rank[a] = rank[b] => a = b
  <2> SUFFICES ASSUME NEW a \in S, NEW b \in S, rank[a] = rank[b], a # b PROVE FALSE
    OBVIOUS
  <2>1. f[a] \in Nat /\ f[b] \in Nat /\ f[a] # f[b]
    OBVIOUS
  <2>2. f[a] < f[b] \/ f[b] < f[a]
    BY <2>1
  <2>3. rank[a] \in Nat /\ rank[b] \in Nat
    BY <1>2
  <2>4. rank[a] < rank[b] \/ rank[b] < rank[a]
    BY ONLY <1>3, <2>2, a \in S, b \in S
  <2>5. QED
    BY ONLY <2>3, <2>4, rank[a] = rank[b]
<1>5. ASSUME NEW s \in S PROVE rank[s] \in 0 .. N - 1
  <2>1. Lower(s) \in SUBSET S /\ Lower(s) # S
    OBVIOUS
  <2>2. Cardinality(Lower(s)) <= N /\ (Cardinality(Lower(s)) = N => Lower(s) = S)
    <3> HIDE DEF Lower
    <3>1. QED
      BY <2>1, FS_Subset
  <2>3. QED
    <3>1. rank[s] = Cardinality(Lower(s)) /\ rank[s] \in Nat /\ N \in Nat
      BY <1>1, <1>2
    <3>2. rank[s] # N /\ rank[s] <= N
      BY ONLY <2>1, <2>2, <3>1
    <3>3. QED
      BY ONLY <3>1, <3>2
<1>6. rank \in Injection(S, 0 .. N - 1)
  BY <1>4, <1>5 DEF Injection, IsInjective, RankOf
<1>7. IsFiniteSet(0 .. N - 1) /\ Cardinality(0 .. N - 1) = N
  <2>1. 0 \in Int /\ N - 1 \in Int /\ N - 1 - 0 + 1 = N /\ (0 > N - 1 => N = 0)
    BY <1>1
  <2>2. QED
    BY <2>1, FS_Interval
<1>8. rank \in Surjection(S, 0 .. N - 1)
  BY <1>6, <1>7, FS_Injection
<1>9. \A k \in 0 .. N - 1 : \E s \in S : rank[s] = k
  BY <1>8 DEF Surjection
<1>10. {rank[s] : s \in S} = 0 .. N - 1
  BY ONLY <1>5, <1>9
<1>11. QED
  BY ONLY <1>4, <1>10

-----------------------------------------------------------------------------
(* Sequences in which nothing occurs twice. *)

Distinct(s) == \A j, k \in 1 .. Len(s) : s[j] = s[k] => j = k

\* Appending a new element adds it to the elements and keeps them distinct.
LEMMA AppendNew ==
    ASSUME NEW S, NEW s \in Seq(S), NEW x \in S
    PROVE  /\ Append(s, x) \in Seq(S) /\ Len(Append(s, x)) = Len(s) + 1
           /\ ToSet(Append(s, x)) = ToSet(s) \cup {x}
           /\ x \notin ToSet(s) /\ Distinct(s) => Distinct(Append(s, x))
BY DEF ToSet, Distinct

\* A sequence without repetition is no longer than its elements are many.
LEMMA DistinctLen ==
    ASSUME NEW S, NEW s \in Seq(S), Distinct(s), IsFiniteSet(S)
    PROVE  /\ Len(s) <= Cardinality(S)
           /\ Len(s) = Cardinality(ToSet(s))
<1>1. Len(s) \in Nat /\ IsFiniteSet(1 .. Len(s)) /\ Cardinality(1 .. Len(s)) = Len(s)
  <2>1. Len(s) \in Nat /\ Len(s) \in Int /\ 1 \in Int
    OBVIOUS
  <2>2. QED
    BY <2>1, FS_Interval
<1>2. s \in Injection(1 .. Len(s), S)
  BY DEF Distinct, Injection, IsInjective
<1>3. s \in Injection(1 .. Len(s), ToSet(s)) /\ s \in Surjection(1 .. Len(s), ToSet(s))
  BY DEF Distinct, Injection, IsInjective, Surjection, ToSet
<1>4. Len(s) <= Cardinality(S)
  BY <1>1, <1>2, FS_Injection
<1>5. Len(s) = Cardinality(ToSet(s))
  BY <1>1, <1>3, FS_Surjection
<1>6. QED
  BY <1>4, <1>5

\* Changing one element of a sequence.
LEMMA ChangeOne ==
    ASSUME NEW S, NEW s \in Seq(S), NEW i \in 1 .. Len(s), NEW x \in S
    PROVE  /\ [s EXCEPT ![i] = x] \in Seq(S) /\ Len([s EXCEPT ![i] = x]) = Len(s)
           /\ \A k \in 1 .. Len(s) : [s EXCEPT ![i] = x][k] = IF k = i THEN x ELSE s[k]
BY ExceptSeq

\* All but the last element of a sequence.
LEMMA FrontOf ==
    ASSUME NEW S, NEW s \in Seq(S), Len(s) > 0
    PROVE  /\ Front(s) \in Seq(S) /\ Len(Front(s)) = Len(s) - 1
           /\ \A k \in 1 .. Len(s) - 1 : Front(s)[k] = s[k]
           /\ Last(s) = s[Len(s)] /\ Last(s) \in S
<1>1. Len(s) \in Nat /\ s[Len(s)] \in S /\ Len(s) - 1 \in Nat
  OBVIOUS
<1>2. Last(s) = s[Len(s)] /\ Last(s) \in S
  BY <1>1 DEF Last
<1>3. \A k \in 1 .. Len(s) - 1 : s[k] \in S
  OBVIOUS
<1>4. Front(s) = [k \in 1 .. Len(s) - 1 |-> s[k]]
  BY <1>1 DEF Front, SubSeq
<1>5. QED
  BY <1>1, <1>2, <1>3, <1>4
=============================================================================
