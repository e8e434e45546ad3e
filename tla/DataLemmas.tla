----------------------------- MODULE DataLemmas -----------------------------
(***************************************************************************)
(* Lemmas about numbers, sequences and recursive functions that the proofs *)
(* about the data of the program keep needing.  Induction is stated with a *)
(* set, a recursive definition with the function of its steps.             *)
(***************************************************************************)
EXTENDS Integers, Sequences, SequencesExt, Ordering, FiniteSetTheorems, WellFoundedInduction, TLAPS

LEMMA SmallestNumber ==
  ASSUME NEW T \in SUBSET Nat, T # {}
  PROVE  \E m \in T : \A n \in T : m <= n
<1>1. PICK m \in T : \A n \in T : ~(<<n, m>> \in OpToRel(<, Nat))
  BY NatLessThanWellFounded, WFMin, Zenon
<1>2. \A n \in T : ~(n < m)
  BY <1>1 DEF OpToRel
<1>3. \A n \in T : m <= n
  BY <1>2
<1> QED
  BY <1>3

LEMMA LargestNumber ==
  ASSUME NEW n \in Nat, NEW T \in SUBSET (0 .. n), T # {}
  PROVE  \E m \in T : \A k \in T : k <= m
<1> DEFINE U == {x \in Nat : x <= n /\ n - x \in T}
<1>1. U # {} /\ U \in SUBSET Nat
  <2>1. PICK k \in T : TRUE
    OBVIOUS
  <2>2. n - k \in Nat /\ n - k <= n /\ n - (n - k) = k
    BY <2>1
  <2> QED
    BY <2>1, <2>2
<1>2. PICK u \in U : \A x \in U : u <= x
  BY <1>1, SmallestNumber
<1>3. n - u \in T /\ u \in Nat
  BY <1>2
<1>4. ASSUME NEW k \in T PROVE k <= n - u
  <2>1. k \in Nat /\ n - k \in Nat /\ n - k <= n /\ n - (n - k) = k
    OBVIOUS
  <2>2. u <= n - k
    BY <1>2, <2>1
  <2> QED
    BY <1>3, <2>1, <2>2
<1> QED
  BY <1>3, <1>4

LEMMA SingletonSeq ==
  ASSUME NEW X, NEW x \in X
  PROVE  /\ <<x>> \in Seq(X) /\ Len(<<x>>) = 1 /\ DOMAIN <<x>> = 1 .. 1
         /\ <<x>>[1] = x /\ <<x>> # << >>
OBVIOUS

LEMMA NatInductionOnSet ==
  ASSUME NEW T, 0 \in T, \A n \in Nat : n \in T => n + 1 \in T
  PROVE  \A n \in Nat : n \in T
<1> DEFINE Missing == {n \in Nat : n \notin T}
<1>1. SUFFICES ASSUME Missing # {} PROVE FALSE
  OBVIOUS
<1>2. PICK m \in Missing : \A n \in Missing : m <= n
  BY <1>1, SmallestNumber
<1>3. m - 1 \in Nat /\ m - 1 \in T
  BY <1>2
<1> QED
  BY <1>2, <1>3

\* The quotient by its remainder.
LEMMA Division ==
  ASSUME NEW x \in Nat, NEW d \in Nat \ {0}
  PROVE  /\ x \div d \in Nat
         /\ (x \div d) * d <= x /\ x < (x \div d) * d + d
         /\ \A q \in Nat : q * d <= x /\ x < q * d + d => x \div d = q
<1>1. x \div d \in Nat /\ (x \div d) * d <= x /\ x < (x \div d) * d + d
  OBVIOUS
<1>2. ASSUME NEW p \in Nat, NEW q \in Nat, p < q PROVE p * d + d <= q * d
  <2>1. PICK r \in Nat : q = p + 1 + r
    <3>1. q - (p + 1) \in Nat /\ q = p + 1 + (q - (p + 1))
      BY <1>2
    <3> QED
      BY <3>1
  <2>2. q * d = p * d + d + r * d
    BY <2>1
  <2>3. r * d \in Nat /\ p * d \in Nat
    OBVIOUS
  <2> QED
    BY <2>2, <2>3
<1>3. ASSUME NEW q \in Nat, q * d <= x, x < q * d + d PROVE x \div d = q
  <2> DEFINE p == x \div d
  <2>1. p \in Nat /\ p * d <= x /\ x < p * d + d
    BY <1>1
  <2> HIDE DEF p
  <2>2. p * d \in Nat /\ q * d \in Nat
    BY <2>1
  <2>3. ~(p < q) /\ ~(q < p)
    BY <1>2, <1>3, <2>1, <2>2
  <2>4. p = q
    BY <2>1, <2>3
  <2> QED
    BY <2>4 DEF p
<1> QED
  BY <1>1, <1>3

\* The functions that iterate the steps over 0 .. n from the base.
Runs(X, base, step, n) ==
  {g \in [0 .. n -> X] : g[0] = base /\ \A k \in 1 .. n : g[k] = step[<<k, g[k - 1]>>]}

\* A recursive definition over 0 .. n has a solution.
LEMMA Iteration ==
  ASSUME NEW X, NEW base \in X, NEW step \in [Nat \X X -> X], NEW m \in Nat
  PROVE  \E g \in [0 .. m -> X] : g \in Runs(X, base, step, m)
<1> DEFINE Solves(g, n) == g[0] = base /\ \A k \in 1 .. n : g[k] = step[<<k, g[k - 1]>>]
           T == {n \in Nat : \E g \in [0 .. n -> X] : Solves(g, n)}
<1>1. 0 \in T
  <2>1. [k \in 0 .. 0 |-> base] \in [0 .. 0 -> X] /\ Solves([k \in 0 .. 0 |-> base], 0)
    OBVIOUS
  <2> QED
    BY <2>1
<1>2. ASSUME NEW n \in Nat, n \in T PROVE n + 1 \in T
  <2>1. PICK g \in [0 .. n -> X] : Solves(g, n)
    BY <1>2
  <2> DEFINE h == [k \in 0 .. n + 1 |-> IF k = n + 1 THEN step[<<n + 1, g[n]>>] ELSE g[k]]
  <2>2. h \in [0 .. n + 1 -> X]
    OBVIOUS
  <2>3. Solves(h, n + 1)
    <3>1. h[0] = base
      BY <2>1
    <3>2. ASSUME NEW k \in 1 .. n + 1 PROVE h[k] = step[<<k, h[k - 1]>>]
      <4>1. CASE k = n + 1
        <5>1. h[k] = step[<<n + 1, g[n]>>] /\ h[k - 1] = g[n]
          BY <4>1
        <5> QED
          BY <4>1, <5>1
      <4>2. CASE k # n + 1
        <5>1. k \in 1 .. n /\ h[k] = g[k] /\ h[k - 1] = g[k - 1]
          BY <4>2
        <5> QED
          BY <2>1, <5>1
      <4> QED
        BY <4>1, <4>2
    <3> QED
      BY <3>1, <3>2
  <2>4. \E f \in [0 .. n + 1 -> X] : Solves(f, n + 1)
    <3> HIDE DEF Solves, h
    <3> QED
      BY <2>2, <2>3
  <2> QED
    BY <2>4
<1>3. \A n \in Nat : n \in T
  <2> HIDE DEF T
  <2> QED
    BY <1>1, <1>2, NatInductionOnSet
<1> QED
  <2>1. PICK g \in [0 .. m -> X] : Solves(g, m)
    BY <1>3
  <2>2. g \in Runs(X, base, step, m)
    BY <2>1 DEF Runs
  <2> QED
    BY <2>2

-----------------------------------------------------------------------------
(* Ordering. *)

LEMMA MoreBelow ==
  ASSUME NEW S, IsFiniteSet(S), NEW order, StrictOrder(S, order),
         NEW x \in S, NEW y \in S, <<x, y>> \in order
  PROVE  /\ Cardinality(Below(S, order, x)) < Cardinality(Below(S, order, y))
         /\ Cardinality(Below(S, order, x)) \in Nat /\ Cardinality(Below(S, order, y)) \in Nat
<1> DEFINE B == Below(S, order, x)
           C == Below(S, order, y)
<1>1. B \in SUBSET S /\ C \in SUBSET S /\ B \in SUBSET C
  BY DEF Below, StrictOrder
<1>2. x \in C /\ x \notin B
  BY DEF Below, StrictOrder
<1>3. IsFiniteSet(B) /\ IsFiniteSet(C)
  BY <1>1, FS_Subset
<1>4. Cardinality(B) <= Cardinality(C) /\ (Cardinality(B) = Cardinality(C) => B = C)
  BY <1>1, <1>3, FS_Subset
<1>5. Cardinality(B) \in Nat /\ Cardinality(C) \in Nat
  BY <1>3, FS_CardinalityType
<1> HIDE DEF B, C
<1>6. Cardinality(B) < Cardinality(C)
  BY <1>2, <1>4, <1>5
<1> QED
  BY <1>5, <1>6 DEF B, C

\* Every place is taken.
LEMMA EveryPlace ==
  ASSUME NEW S, IsFiniteSet(S), NEW order, StrictOrder(S, order)
  PROVE  \A k \in 1 .. Cardinality(S) : \E x \in S : Cardinality(Below(S, order, x)) = k - 1
<1> DEFINE n == Cardinality(S)
           rank == [x \in S |-> Cardinality(Below(S, order, x))]
<1>1. n \in Nat
  BY FS_CardinalityType
<1>2. \A x \in S : rank[x] \in 0 .. n - 1
  <2> TAKE x \in S
  <2>1. Below(S, order, x) \in SUBSET (S \ {x})
    BY DEF Below, StrictOrder
  <2>2. IsFiniteSet(S \ {x}) /\ Cardinality(S \ {x}) = n - 1
    BY FS_RemoveElement
  <2>3. /\ IsFiniteSet(Below(S, order, x))
        /\ Cardinality(Below(S, order, x)) <= Cardinality(S \ {x})
    BY <2>1, <2>2, FS_Subset
  <2>4. Cardinality(Below(S, order, x)) \in Nat
    BY <2>3, FS_CardinalityType
  <2> QED
    BY <1>1, <2>2, <2>3, <2>4
<1>3. \A x, y \in S : rank[x] = rank[y] => x = y
  <2> SUFFICES ASSUME NEW x \in S, NEW y \in S, x # y PROVE rank[x] # rank[y]
    OBVIOUS
  <2>1. CASE <<x, y>> \in order
    BY <2>1, MoreBelow
  <2>2. CASE <<y, x>> \in order
    BY <2>2, MoreBelow
  <2> QED
    BY <2>1, <2>2 DEF StrictOrder
<1>4. rank \in Injection(S, 0 .. n - 1)
  BY <1>2, <1>3 DEF Injection, IsInjective
<1>5. IsFiniteSet(0 .. n - 1) /\ Cardinality(0 .. n - 1) = n
  BY <1>1, FS_Interval
<1>6. rank \in Surjection(S, 0 .. n - 1)
  <2> HIDE DEF rank
  <2> QED
    BY <1>4, <1>5, FS_Injection
<1>7. \A j \in 0 .. n - 1 : \E x \in S : rank[x] = j
  BY <1>6 DEF Surjection
<1> QED
  BY <1>1, <1>7

LEMMA InOrderFacts ==
  ASSUME NEW S, IsFiniteSet(S), NEW order, StrictOrder(S, order)
  PROVE  LET q == InOrder(S, order)
         IN /\ Cardinality(S) \in Nat /\ q \in [1 .. Cardinality(S) -> S]
            /\ \A x \in S : \E k \in 1 .. Cardinality(S) : q[k] = x
            /\ \A i, j \in 1 .. Cardinality(S) : i < j => <<q[i], q[j]>> \in order /\ q[i] # q[j]
<1> DEFINE n == Cardinality(S)
           q == InOrder(S, order)
           rank(x) == Cardinality(Below(S, order, x))
<1>0. n \in Nat
  BY FS_CardinalityType
<1>1. \A k \in 1 .. n : q[k] \in S /\ rank(q[k]) = k - 1
  BY EveryPlace DEF InOrder
<1>2. q \in [1 .. n -> S]
  BY <1>1 DEF InOrder
<1>3. ASSUME NEW i \in 1 .. n, NEW j \in 1 .. n, i < j
      PROVE  <<q[i], q[j]>> \in order /\ q[i] # q[j]
  <2>1. q[i] # q[j]
    BY <1>0, <1>1, <1>3
  <2>2. ASSUME <<q[j], q[i]>> \in order PROVE FALSE
    <3>1. rank(q[j]) < rank(q[i])
      BY <1>1, <2>2, MoreBelow
    <3> QED
      BY <1>0, <1>1, <1>3, <3>1
  <2> QED
    BY <1>1, <2>1, <2>2 DEF StrictOrder
<1>4. ASSUME NEW x \in S PROVE \E k \in 1 .. n : q[k] = x
  <2>1. \A i, j \in 1 .. n : q[i] = q[j] => i = j
    <3> SUFFICES ASSUME NEW i \in 1 .. n, NEW j \in 1 .. n, i # j PROVE q[i] # q[j]
      OBVIOUS
    <3>1. i < j \/ j < i
      BY <1>0
    <3> QED
      BY <1>3, <3>1
  <2>2. q \in Injection(1 .. n, S)
    BY <1>2, <2>1 DEF Injection, IsInjective
  <2>3. IsFiniteSet(1 .. n) /\ Cardinality(1 .. n) = n
    BY <1>0, FS_Interval
  <2>4. q \in Surjection(1 .. n, S)
    <3> HIDE DEF q
    <3> QED
      BY <2>2, <2>3, FS_Injection
  <2> QED
    BY <2>4 DEF Surjection
<1> QED
  BY <1>0, <1>2, <1>3, <1>4

LEMMA IncreasingOrder ==
  ASSUME NEW I \in SUBSET Nat
  PROVE  StrictOrder(I, Increasing(I))
BY DEF StrictOrder, Increasing

\* Where the elements of At(s, I) stand in s.
LEMMA AtFacts ==
  ASSUME NEW V, NEW s \in Seq(V), NEW I \in SUBSET DOMAIN s
  PROVE  LET q == InOrder(I, Increasing(I))
         IN /\ IsFiniteSet(I) /\ Cardinality(I) \in Nat
            /\ At(s, I) \in Seq(V) /\ Len(At(s, I)) = Cardinality(I)
            /\ q \in [1 .. Cardinality(I) -> I]
            /\ \A k \in 1 .. Cardinality(I) : At(s, I)[k] = s[q[k]]
            /\ \A i \in I : \E k \in 1 .. Cardinality(I) : q[k] = i
            /\ \A j, k \in 1 .. Cardinality(I) : j < k => q[j] < q[k]
<1> DEFINE q == InOrder(I, Increasing(I))
           n == Cardinality(I)
<1>1. Len(s) \in Nat /\ DOMAIN s = 1 .. Len(s) /\ I \in SUBSET Nat
  OBVIOUS
<1>2. IsFiniteSet(I)
  <2>1. IsFiniteSet(1 .. Len(s))
    BY <1>1, FS_Interval
  <2> QED
    BY <1>1, <2>1, FS_Subset
<1>3. StrictOrder(I, Increasing(I))
  BY <1>1, IncreasingOrder
<1>4. /\ n \in Nat /\ q \in [1 .. n -> I]
      /\ \A i \in I : \E k \in 1 .. n : q[k] = i
      /\ \A j, k \in 1 .. n : j < k => <<q[j], q[k]>> \in Increasing(I)
  BY <1>2, <1>3, InOrderFacts
<1>5. \A j, k \in 1 .. n : j < k => q[j] < q[k]
  BY <1>4 DEF Increasing
<1>6. At(s, I) = [k \in 1 .. n |-> s[q[k]]]
  BY DEF At
<1> HIDE DEF q, n
<1>7. At(s, I) \in [1 .. n -> V]
  BY <1>1, <1>4, <1>6
<1>8. At(s, I) \in Seq(V) /\ Len(At(s, I)) = n
  BY <1>4, <1>7
<1> QED
  BY <1>2, <1>4, <1>5, <1>6, <1>8 DEF q, n

\* A part of an interval and the rest of it.
LEMMA PartsOfInterval ==
  ASSUME NEW n \in Nat, NEW S \in SUBSET (1 .. n)
  PROVE  LET T == (1 .. n) \ S
         IN /\ IsFiniteSet(S) /\ IsFiniteSet(T)
            /\ Cardinality(S) \in Nat /\ Cardinality(T) \in Nat
            /\ Cardinality(S) + Cardinality(T) = n
            /\ S = {} <=> Cardinality(S) = 0
            /\ T = {} <=> Cardinality(T) = 0
<1> DEFINE T == (1 .. n) \ S
<1>1. IsFiniteSet(1 .. n)
  BY FS_Interval
<1>2. Cardinality(1 .. n) = n
  BY FS_Interval
<1>3. IsFiniteSet(S) /\ IsFiniteSet(T)
  BY <1>1, FS_Subset
<1>4. Cardinality(S) \in Nat /\ Cardinality(T) \in Nat /\ Cardinality({}) = 0
  BY <1>3, FS_CardinalityType, FS_EmptySet
<1>5. S \cup T = 1 .. n /\ S \cap T = {}
  OBVIOUS
<1> HIDE DEF T
<1>6. n = Cardinality(S) + Cardinality(T) - 0
  <2>1. Cardinality(S \cup T) = Cardinality(S) + Cardinality(T) - Cardinality(S \cap T)
    BY <1>3, FS_Union
  <2> QED
    BY <1>2, <1>4, <1>5, <2>1
<1>7. Cardinality(S) + Cardinality(T) = n
  BY <1>4, <1>6
<1>8. (S = {} <=> Cardinality(S) = 0) /\ (T = {} <=> Cardinality(T) = 0)
  BY <1>3, FS_EmptySet
<1> QED
  BY <1>3, <1>4, <1>7, <1>8 DEF T

\* An interval in its order.
LEMMA IntervalPlaces ==
  ASSUME NEW a \in Nat, NEW n \in Nat, NEW s
  PROVE  LET I == a + 1 .. a + n
         IN /\ IsFiniteSet(I) /\ Cardinality(I) = n
            /\ \A k \in 1 .. n : InOrder(I, Increasing(I))[k] = a + k
            /\ At(s, I) = [k \in 1 .. n |-> s[a + k]]
<1> DEFINE I == a + 1 .. a + n
           order == Increasing(I)
           q == InOrder(I, order)
<1>1. IsFiniteSet(I) /\ Cardinality(I) = n
  <2>1. IsFiniteSet(a + 1 .. a + n)
    BY FS_Interval
  <2>2. Cardinality(a + 1 .. a + n) = IF a + 1 > a + n THEN 0 ELSE a + n - (a + 1) + 1
    BY FS_Interval
  <2> QED
    BY <2>1, <2>2
<1>2. ASSUME NEW j \in 1 .. n PROVE Cardinality(Below(I, order, a + j)) = j - 1
  <2>1. Below(I, order, a + j) = a + 1 .. a + j - 1
    BY DEF Below, Increasing
  <2>2. Cardinality(a + 1 .. a + j - 1) = IF a + 1 > a + j - 1 THEN 0 ELSE a + j - 1 - (a + 1) + 1
    BY FS_Interval
  <2> HIDE DEF I, order
  <2> QED
    BY <2>1, <2>2
<1>3. \A x \in I : x - a \in 1 .. n /\ x = a + (x - a)
  OBVIOUS
<1>4. \A k \in 1 .. n : a + k \in I
  OBVIOUS
<1> HIDE DEF I, order
<1>5. ASSUME NEW k \in 1 .. n PROVE q[k] = a + k
  <2>1. q[k] = CHOOSE x \in I : Cardinality(Below(I, order, x)) = k - 1
    BY <1>1 DEF InOrder
  <2>2. q[k] \in I /\ Cardinality(Below(I, order, q[k])) = k - 1
    BY <1>2, <1>4, <2>1
  <2> DEFINE j == q[k] - a
  <2>3. j \in 1 .. n /\ q[k] = a + j
    BY <1>3, <2>2
  <2> HIDE DEF j
  <2>4. j - 1 = k - 1
    BY <1>2, <2>2, <2>3
  <2> QED
    BY <2>3, <2>4
<1>6. At(s, I) = [k \in 1 .. n |-> s[a + k]]
  <2>1. At(s, I) = [k \in 1 .. n |-> s[q[k]]]
    BY <1>1 DEF At, order
  <2> HIDE DEF q
  <2> QED
    BY <1>5, <2>1
<1> QED
  BY <1>1, <1>5, <1>6 DEF I, order

-----------------------------------------------------------------------------
(* Sequences one after the other. *)

Earlier(a, b) == a[1] < b[1] \/ (a[1] = b[1] /\ a[2] < b[2])

\* at[p] tells of which of the first n sequences the p-th element of f is which.
Places(at, f, seqs, n) ==
  /\ at \in [1 .. Len(f) -> Nat \X Nat]
  /\ \A p \in 1 .. Len(f) : /\ at[p][1] \in 1 .. n
                           /\ at[p][2] \in 1 .. Len(seqs[at[p][1]])
                           /\ f[p] = seqs[at[p][1]][at[p][2]]
  /\ \A p, q \in 1 .. Len(f) : p < q => Earlier(at[p], at[q])
  /\ \A i \in 1 .. n : \A j \in 1 .. Len(seqs[i]) : \E p \in 1 .. Len(f) : at[p] = <<i, j>>

LEMMA PlacesGrow ==
  ASSUME NEW V, NEW seqs \in Seq(Seq(V)), NEW n \in Nat, n + 1 <= Len(seqs),
         NEW f \in Seq(V), NEW at, Places(at, f, seqs, n)
  PROVE  \E b : Places(b, f \o seqs[n + 1], seqs, n + 1)
<1> DEFINE s == seqs[n + 1]
           u == f \o s
           b == [p \in 1 .. Len(u) |-> IF p <= Len(f) THEN at[p] ELSE <<n + 1, p - Len(f)>>]
<1>1. s \in Seq(V) /\ Len(s) \in Nat /\ Len(f) \in Nat
  OBVIOUS
<1>2. /\ Len(u) = Len(f) + Len(s)
      /\ \A p \in 1 .. Len(f) : u[p] = f[p]
      /\ \A p \in 1 .. Len(u) : p > Len(f) => u[p] = s[p - Len(f)]
  BY <1>1
<1>3. /\ at \in [1 .. Len(f) -> Nat \X Nat]
      /\ \A p \in 1 .. Len(f) : /\ at[p][1] \in 1 .. n
                               /\ at[p][2] \in 1 .. Len(seqs[at[p][1]])
                               /\ f[p] = seqs[at[p][1]][at[p][2]]
      /\ \A p, q \in 1 .. Len(f) : p < q => Earlier(at[p], at[q])
      /\ \A i \in 1 .. n : \A j \in 1 .. Len(seqs[i]) : \E p \in 1 .. Len(f) : at[p] = <<i, j>>
  BY DEF Places
<1>4. \A p \in 1 .. Len(u) : \/ p \in 1 .. Len(f) /\ b[p] = at[p]
                             \/ p > Len(f) /\ p - Len(f) \in 1 .. Len(s) /\ b[p] = <<n + 1, p - Len(f)>>
  <2> TAKE p \in 1 .. Len(u)
  <2>1. CASE p <= Len(f)
    <3>1. b[p] = at[p]
      BY <2>1
    <3>2. Len(u) \in Nat
      BY <1>1, <1>2
    <3> HIDE DEF u, b
    <3> QED
      BY <1>1, <2>1, <3>1, <3>2
  <2>2. CASE ~(p <= Len(f))
    <3>1. b[p] = <<n + 1, p - Len(f)>>
      BY <2>2
    <3>2. p > Len(f) /\ p - Len(f) \in 1 .. Len(s)
      <4>1. Len(u) \in Nat
        BY <1>1, <1>2
      <4> HIDE DEF u, s
      <4> QED
        BY <1>1, <1>2, <2>2, <4>1
    <3> QED
      BY <3>1, <3>2
  <2> QED
    BY <2>1, <2>2
<1>5. DOMAIN b = 1 .. Len(u) /\ b = [p \in DOMAIN b |-> b[p]]
  OBVIOUS
<1> HIDE DEF b, u
<1>6. b \in [1 .. Len(u) -> Nat \X Nat]
  <2>1. ASSUME NEW p \in 1 .. Len(u) PROVE b[p] \in Nat \X Nat
    <3>1. CASE p \in 1 .. Len(f) /\ b[p] = at[p]
      BY <1>3, <3>1
    <3>2. CASE p > Len(f) /\ p - Len(f) \in 1 .. Len(s) /\ b[p] = <<n + 1, p - Len(f)>>
      <4>1. n + 1 \in Nat /\ p - Len(f) \in Nat
        BY <1>1, <3>2
      <4> QED
        BY <3>2, <4>1
    <3> QED
      BY <1>4, <3>1, <3>2
  <2> QED
    BY <1>5, <2>1
<1>7. ASSUME NEW p \in 1 .. Len(u)
      PROVE  /\ b[p][1] \in 1 .. n + 1
             /\ b[p][2] \in 1 .. Len(seqs[b[p][1]])
             /\ u[p] = seqs[b[p][1]][b[p][2]]
  <2>1. CASE p \in 1 .. Len(f) /\ b[p] = at[p]
    <3>1. u[p] = f[p] /\ at[p][1] \in 1 .. n + 1
      BY <1>2, <1>3, <2>1
    <3> QED
      BY <1>3, <2>1, <3>1
  <2>2. CASE p > Len(f) /\ p - Len(f) \in 1 .. Len(s) /\ b[p] = <<n + 1, p - Len(f)>>
    <3>1. b[p][1] = n + 1 /\ b[p][2] = p - Len(f) /\ u[p] = s[p - Len(f)]
      BY <1>2, <2>2
    <3> QED
      BY <2>2, <3>1
  <2> QED
    BY <1>4, <2>1, <2>2
<1>8. ASSUME NEW p \in 1 .. Len(u), NEW q \in 1 .. Len(u), p < q PROVE Earlier(b[p], b[q])
  <2>1. CASE q \in 1 .. Len(f)
    <3>1. p \in 1 .. Len(f) /\ b[p] = at[p] /\ b[q] = at[q]
      BY <1>1, <1>4, <1>8, <2>1
    <3> QED
      BY <1>3, <1>8, <2>1, <3>1
  <2>2. CASE q \notin 1 .. Len(f) /\ p \in 1 .. Len(f)
    <3>1. b[q][1] = n + 1
      BY <1>4, <2>2
    <3>2. b[p] = at[p]
      BY <1>1, <1>4, <2>2
    <3>3. b[p][1] \in 1 .. n
      BY <1>3, <2>2, <3>2
    <3>4. b[p][1] < b[q][1]
      BY <3>1, <3>3
    <3> QED
      BY <3>4 DEF Earlier
  <2>3. CASE q \notin 1 .. Len(f) /\ p \notin 1 .. Len(f)
    <3>1. b[p] = <<n + 1, p - Len(f)>> /\ b[q] = <<n + 1, q - Len(f)>>
      BY <1>4, <2>3
    <3>2. p - Len(f) < q - Len(f)
      BY <1>1, <1>2, <1>8
    <3> QED
      BY <3>1, <3>2 DEF Earlier
  <2> QED
    BY <2>1, <2>2, <2>3
<1>9. ASSUME NEW i \in 1 .. n + 1, NEW j \in 1 .. Len(seqs[i])
      PROVE  \E p \in 1 .. Len(u) : b[p] = <<i, j>>
  <2>1. CASE i \in 1 .. n
    <3>1. PICK p \in 1 .. Len(f) : at[p] = <<i, j>>
      BY <1>3, <2>1
    <3>2. p \in 1 .. Len(u) /\ b[p] = at[p]
      BY <1>1, <1>2, <1>4
    <3> QED
      BY <3>1, <3>2
  <2>2. CASE i = n + 1
    <3>1. j \in 1 .. Len(s) /\ Len(f) + j \in 1 .. Len(u) /\ ~(Len(f) + j \in 1 .. Len(f))
      BY <1>1, <1>2, <2>2
    <3>2. b[Len(f) + j] = <<n + 1, Len(f) + j - Len(f)>>
      BY <1>4, <3>1
    <3>3. Len(f) + j - Len(f) = j
      BY <1>1
    <3> QED
      BY <2>2, <3>1, <3>2, <3>3
  <2> QED
    BY <2>1, <2>2
<1>10. Places(b, u, seqs, n + 1)
  BY <1>6, <1>7, <1>8, <1>9 DEF Places
<1> QED
  BY <1>10 DEF u

LEMMA ConcatFacts ==
  ASSUME NEW S, NEW s \in Seq(S), NEW t \in Seq(S)
  PROVE  LET u == s \o t
         IN /\ u \in Seq(S) /\ Len(s) \in Nat /\ Len(t) \in Nat /\ Len(u) = Len(s) + Len(t)
            /\ DOMAIN s = 1 .. Len(s) /\ DOMAIN t = 1 .. Len(t) /\ DOMAIN u = 1 .. Len(s) + Len(t)
            /\ \A k \in 1 .. Len(s) : u[k] = s[k]
            /\ \A k \in 1 .. Len(t) : u[Len(s) + k] = t[k]
OBVIOUS

\* u is t after s
FollowedBy(s, t, u) ==
  /\ Len(s) \in Nat /\ Len(t) \in Nat /\ Len(u) = Len(s) + Len(t)
  /\ \A k \in 1 .. Len(s) : u[k] = s[k]
  /\ \A k \in 1 .. Len(t) : u[Len(s) + k] = t[k]

LEMMA FollowedByFacts ==
  ASSUME NEW S, NEW s \in Seq(S), NEW t \in Seq(S)
  PROVE  s \o t \in Seq(S) /\ FollowedBy(s, t, s \o t)
BY ConcatFacts DEF FollowedBy

LEMMA PairJoins ==
  ASSUME NEW A, NEW t \in Seq(A), NEW x \in A, NEW y \in A
  PROVE  LET s == <<x>> \o <<y>>
         IN /\ Len(s) = 2
            /\ t \o s \in Seq(A) /\ Len(t \o s) = Len(t) + 2
            /\ (t \o s)[Len(t) + 2] = y
<1> DEFINE a == <<x>>
           b == <<y>>
           s == a \o b
           u == t \o s
<1>1. a \in Seq(A) /\ b \in Seq(A) /\ Len(a) = 1 /\ Len(b) = 1 /\ b[1] = y
  BY SingletonSeq
<1> HIDE DEF a, b
<1>2. s \in Seq(A) /\ FollowedBy(a, b, s)
  BY <1>1, FollowedByFacts
<1> HIDE DEF s
<1>3. u \in Seq(A) /\ FollowedBy(t, s, u)
  BY <1>2, FollowedByFacts
<1> HIDE DEF u
<1>4. s[1 + 1] = b[1] /\ Len(s) = 2
  BY <1>1, <1>2 DEF FollowedBy
<1>5. u[Len(t) + 2] = s[2] /\ Len(u) = Len(t) + 2
  BY <1>3, <1>4 DEF FollowedBy
<1> QED
  BY <1>1, <1>3, <1>4, <1>5 DEF s, a, b, u

\* Sequences are put together one by one.
LEMMA FlattenSteps ==
  ASSUME NEW V, NEW seqs \in Seq(Seq(V))
  PROVE  \E g \in [0 .. Len(seqs) -> Seq(V)] :
           /\ g[0] = << >>
           /\ \A k \in 1 .. Len(seqs) : g[k] = g[k - 1] \o seqs[k]
           /\ FlattenSeq(seqs) = g[Len(seqs)]
<1> DEFINE n == Len(seqs)
           step == [a \in Nat \X Seq(V) |-> IF a[1] \in 1 .. n THEN a[2] \o seqs[a[1]] ELSE a[2]]
<1>1. n \in Nat /\ step \in [Nat \X Seq(V) -> Seq(V)] /\ << >> \in Seq(V)
  OBVIOUS
<1>2. PICK g \in [0 .. n -> Seq(V)] : g[0] = << >> /\ \A k \in 1 .. n : g[k] = g[k - 1] \o seqs[k]
  <2>1. PICK g \in [0 .. n -> Seq(V)] : g \in Runs(Seq(V), << >>, step, n)
    <3> HIDE DEF step
    <3> QED
      BY <1>1, Iteration
  <2>2. g[0] = << >> /\ \A k \in 1 .. n : g[k] = step[<<k, g[k - 1]>>]
    BY <2>1 DEF Runs
  <2>3. \A k \in 1 .. n : <<k, g[k - 1]>> \in Nat \X Seq(V)
    <3>1. \A k \in 1 .. n : k \in Nat /\ k - 1 \in 0 .. n
      BY <1>1
    <3> QED
      BY <2>1, <3>1
  <2>4. \A k \in 1 .. n : step[<<k, g[k - 1]>>] = g[k - 1] \o seqs[k]
    BY <2>3
  <2> QED
    BY <2>2, <2>4
<1> HIDE DEF step
<1>3. \A k \in 0 .. n : \A j \in 1 .. n : j = k + 1 => g[j] = g[k] \o seqs[j]
  <2> SUFFICES ASSUME NEW k \in 0 .. n, NEW j \in 1 .. n, j = k + 1 PROVE g[j] = g[k] \o seqs[j]
    OBVIOUS
  <2>1. j - 1 = k
    BY <1>1
  <2>2. g[j] = g[j - 1] \o seqs[j]
    BY <1>2
  <2> QED
    BY <2>1, <2>2
<1>4. FlattenSeq(seqs) = g[n]
  <2>1. CASE n = 0
    BY <1>2, <2>1 DEF FlattenSeq
  <2>2. CASE n # 0
    <3> DEFINE Solves(h) == h = [i \in 1 .. n |-> IF i = 1 THEN seqs[i] ELSE h[i - 1] \o seqs[i]]
               first == [i \in 1 .. n |-> g[i]]
    <3>1. g[1] = seqs[1]
      <4>1. 1 \in 1 .. n /\ seqs[1] \in Seq(V)
        BY <1>1, <2>2
      <4>2. g[1] = << >> \o seqs[1]
        BY <1>1, <1>2, <1>3, <4>1
      <4> QED
        BY <4>1, <4>2
    <3>2. Solves(first)
      <4>1. ASSUME NEW i \in 1 .. n PROVE first[i] = IF i = 1 THEN seqs[i] ELSE first[i - 1] \o seqs[i]
        <5>1. CASE i = 1
          BY <3>1, <5>1
        <5>2. CASE i # 1
          <6>1. i - 1 \in 1 .. n
            BY <1>1, <5>2
          <6> QED
            BY <1>2, <5>2, <6>1
        <5> QED
          BY <5>1, <5>2
      <4> QED
        BY <4>1
    <3>3. Solves(CHOOSE h : Solves(h))
      <4> HIDE DEF Solves, first
      <4> QED
        BY <3>2
    <3> DEFINE h == CHOOSE h : Solves(h)
    <3>4. FlattenSeq(seqs) = h[n]
      BY <2>2 DEF FlattenSeq
    <3>5. \A i \in 1 .. n : h[i] = IF i = 1 THEN seqs[i] ELSE h[i - 1] \o seqs[i]
      <4> HIDE DEF h
      <4> QED
        BY <3>3 DEF h
    <3> HIDE DEF h, Solves, first
    <3> DEFINE T == {k \in Nat : k \in 1 .. n => h[k] = g[k]}
    <3>6. 0 \in T
      BY <1>1
    <3>7. ASSUME NEW k \in Nat, k \in T PROVE k + 1 \in T
      <4>1. CASE k + 1 = 1
        BY <3>1, <3>5, <4>1
      <4>2. CASE k + 1 \in 2 .. n
        <5> DEFINE j == k + 1
        <5>1. k \in 1 .. n /\ j \in 1 .. n /\ j # 1 /\ j - 1 = k
          BY <1>1, <4>2
        <5>2. h[k] = g[k] /\ k \in 0 .. n /\ j = k + 1 /\ j \in Nat
          BY <3>7, <5>1
        <5> HIDE DEF j
        <5>3. g[j] = g[k] \o seqs[j]
          BY <1>3, <5>1, <5>2
        <5>4. h[j] = h[j - 1] \o seqs[j]
          BY <3>5, <5>1
        <5>5. h[j] = g[j]
          BY <5>1, <5>2, <5>3, <5>4
        <5> QED
          BY <5>2, <5>5
      <4> QED
        BY <1>1, <4>1, <4>2
    <3>8. n \in T
      <4> HIDE DEF T
      <4> QED
        BY <1>1, <3>6, <3>7, NatInductionOnSet
    <3> QED
      BY <1>1, <2>2, <3>4, <3>8
  <2> QED
    BY <2>1, <2>2
<1> QED
  BY <1>2, <1>4

LEMMA FlattenOne ==
  ASSUME NEW V, NEW s \in Seq(V)
  PROVE  FlattenSeq(<<s>>) = s
<1> DEFINE seqs == <<s>>
<1>1. seqs \in Seq(Seq(V)) /\ Len(seqs) = 1 /\ seqs[1] = s
  BY SingletonSeq
<1> HIDE DEF seqs
<1>2. PICK g \in [0 .. 1 -> Seq(V)] : g[0] = << >> /\ g[1] = g[0] \o seqs[1] /\ FlattenSeq(seqs) = g[1]
  <2>1. PICK g \in [0 .. Len(seqs) -> Seq(V)] :
          /\ g[0] = << >>
          /\ \A k \in 1 .. Len(seqs) : g[k] = g[k - 1] \o seqs[k]
          /\ FlattenSeq(seqs) = g[Len(seqs)]
    BY <1>1, FlattenSteps
  <2>2. g[1] = g[1 - 1] \o seqs[1]
    BY <1>1, <2>1
  <2>3. 1 - 1 = 0
    OBVIOUS
  <2>4. g[1] = g[0] \o seqs[1]
    BY <2>2, <2>3
  <2>5. g \in [0 .. 1 -> Seq(V)] /\ FlattenSeq(seqs) = g[1]
    BY <1>1, <2>1
  <2> QED
    BY <2>1, <2>4, <2>5
<1>3. << >> \o s = s
  OBVIOUS
<1> QED
  BY <1>1, <1>2, <1>3 DEF seqs

\* Every element of the sequences is in the long sequence once, in order.
LEMMA FlattenFacts ==
  ASSUME NEW V, NEW seqs \in Seq(Seq(V))
  PROVE  /\ FlattenSeq(seqs) \in Seq(V)
         /\ \E at : Places(at, FlattenSeq(seqs), seqs, Len(seqs))
<1> DEFINE n == Len(seqs)
<1>1. n \in Nat
  OBVIOUS
<1>2. PICK g \in [0 .. n -> Seq(V)] : /\ g[0] = << >>
                                      /\ \A k \in 1 .. n : g[k] = g[k - 1] \o seqs[k]
                                      /\ FlattenSeq(seqs) = g[n]
  BY FlattenSteps
<1>3. \A k \in 0 .. n : \A j \in 1 .. n : j = k + 1 => g[j] = g[k] \o seqs[j]
  <2> SUFFICES ASSUME NEW k \in 0 .. n, NEW j \in 1 .. n, j = k + 1 PROVE g[j] = g[k] \o seqs[j]
    OBVIOUS
  <2>1. j - 1 = k
    BY <1>1
  <2>2. g[j] = g[j - 1] \o seqs[j]
    BY <1>2
  <2> QED
    BY <2>1, <2>2
<1> DEFINE T == {k \in Nat : k \in 0 .. n => \E at : Places(at, g[k], seqs, k)}
<1>5. 0 \in T
  <2>1. Places(<< >>, g[0], seqs, 0)
    BY <1>2 DEF Places
  <2> QED
    BY <2>1
<1>6. ASSUME NEW k \in Nat, k \in T PROVE k + 1 \in T
  <2>1. SUFFICES ASSUME k + 1 \in 0 .. n PROVE \E at : Places(at, g[k + 1], seqs, k + 1)
    OBVIOUS
  <2>2. k \in 0 .. n /\ k + 1 \in 1 .. n
    BY <1>1, <2>1
  <2>3. g[k] \in Seq(V) /\ g[k + 1] = g[k] \o seqs[k + 1] /\ k + 1 <= Len(seqs)
    <3>1. g[k] \in Seq(V) /\ k + 1 <= Len(seqs)
      <4>1. k + 1 <= n
        BY <1>1, <2>2
      <4>2. g[k] \in Seq(V)
        <5> HIDE DEF n, T
        <5> QED
          BY <2>2
      <4> QED
        BY <4>1, <4>2
    <3>2. g[k + 1] = g[k] \o seqs[k + 1]
      <4> DEFINE j == k + 1
      <4>1. j \in 1 .. n /\ j = k + 1
        BY <2>2
      <4> HIDE DEF j
      <4>2. g[j] = g[k] \o seqs[j]
        BY <1>3, <2>2, <4>1
      <4> QED
        BY <4>1, <4>2
    <3> QED
      BY <3>1, <3>2
  <2>4. PICK at : Places(at, g[k], seqs, k)
    BY <1>6, <2>2
  <2> HIDE DEF n, T
  <2> QED
    BY <2>3, <2>4, PlacesGrow
<1>7. n \in T
  <2> HIDE DEF T
  <2> QED
    BY <1>1, <1>5, <1>6, NatInductionOnSet
<1>8. g[n] \in Seq(V) /\ n \in 0 .. n
  <2>1. n \in 0 .. n
    BY <1>1
  <2> HIDE DEF n
  <2> QED
    BY <2>1
<1> HIDE DEF n
<1>9. \E at : Places(at, g[n], seqs, n)
  BY <1>7, <1>8
<1> HIDE DEF T
<1> QED
  BY <1>2, <1>8, <1>9 DEF n

\* Sequences of one length.
LEMMA FlattenEven ==
  ASSUME NEW V, NEW seqs \in Seq(Seq(V)), NEW m \in Nat, \A k \in DOMAIN seqs : Len(seqs[k]) = m
  PROVE  Len(FlattenSeq(seqs)) = Len(seqs) * m
<1> DEFINE n == Len(seqs)
<1>1. n \in Nat /\ DOMAIN seqs = 1 .. n
  OBVIOUS
<1>2. PICK g \in [0 .. n -> Seq(V)] : /\ g[0] = << >>
                                      /\ \A k \in 1 .. n : g[k] = g[k - 1] \o seqs[k]
                                      /\ FlattenSeq(seqs) = g[n]
  BY FlattenSteps
<1> DEFINE T == {k \in Nat : k \in 0 .. n => Len(g[k]) = k * m}
<1>3. 0 \in T
  BY <1>2
<1>4. ASSUME NEW k \in Nat, k \in T PROVE k + 1 \in T
  <2> DEFINE j == k + 1
  <2>1. SUFFICES ASSUME j \in 0 .. n PROVE Len(g[j]) = j * m
    OBVIOUS
  <2>2. j \in 1 .. n /\ k \in 0 .. n /\ j - 1 = k /\ j = k + 1
    BY <1>1, <2>1
  <2>3. Len(g[k]) = k * m
    BY <1>4, <2>2
  <2> HIDE DEF j, n, T
  <2>4. g[j] = g[k] \o seqs[j]
    <3>1. g[j] = g[j - 1] \o seqs[j]
      BY <1>2, <2>2
    <3> QED
      BY <2>2, <3>1
  <2>5. g[k] \in Seq(V) /\ seqs[j] \in Seq(V) /\ Len(seqs[j]) = m
    <3>1. g[k] \in Seq(V)
      BY <2>2
    <3>2. j \in DOMAIN seqs
      BY <1>1, <2>2
    <3> QED
      BY <3>1, <3>2
  <2>6. Len(g[j]) = k * m + m
    <3>1. Len(g[k] \o seqs[j]) = Len(g[k]) + Len(seqs[j])
      BY <2>5, ConcatFacts
    <3> QED
      BY <2>3, <2>4, <2>5, <3>1
  <2> QED
    BY <2>2, <2>6
<1>5. n \in T
  <2> HIDE DEF T
  <2> QED
    BY <1>1, <1>3, <1>4, NatInductionOnSet
<1>6. n \in 0 .. n
  BY <1>1
<1>7. Len(g[n]) = n * m
  BY <1>1, <1>5, <1>6
<1> HIDE DEF T
<1> QED
  BY <1>2, <1>7

\* No element twice.
Once(s) == \A i, j \in DOMAIN s : s[i] = s[j] => i = j

LEMMA FlattenOnce ==
  ASSUME NEW V, NEW seqs \in Seq(Seq(V))
  PROVE  /\ ToSet(FlattenSeq(seqs)) = UNION {ToSet(seqs[k]) : k \in DOMAIN seqs}
         /\ (\A k \in DOMAIN seqs : Once(seqs[k]))
            /\ (\A j, k \in DOMAIN seqs : j # k => ToSet(seqs[j]) \cap ToSet(seqs[k]) = {})
            => Once(FlattenSeq(seqs))
<1> DEFINE n == Len(seqs)
           f == FlattenSeq(seqs)
<1>1. n \in Nat /\ DOMAIN seqs = 1 .. n /\ \A k \in 1 .. n : seqs[k] \in Seq(V) /\ DOMAIN seqs[k] = 1 .. Len(seqs[k])
  OBVIOUS
<1>2. f \in Seq(V) /\ \E at : Places(at, f, seqs, n)
  BY FlattenFacts
<1>3. PICK at : Places(at, f, seqs, n)
  BY <1>2
<1> HIDE DEF f, n
<1>4. Len(f) \in Nat /\ DOMAIN f = 1 .. Len(f)
  BY <1>2
<1>5. /\ at \in [1 .. Len(f) -> Nat \X Nat]
      /\ \A p \in 1 .. Len(f) : /\ at[p][1] \in 1 .. n
                               /\ at[p][2] \in 1 .. Len(seqs[at[p][1]])
                               /\ f[p] = seqs[at[p][1]][at[p][2]]
      /\ \A p, q \in 1 .. Len(f) : p < q => Earlier(at[p], at[q])
      /\ \A i \in 1 .. n : \A j \in 1 .. Len(seqs[i]) : \E p \in 1 .. Len(f) : at[p] = <<i, j>>
  BY <1>3 DEF Places
<1>6. ASSUME NEW x \in ToSet(f) PROVE \E k \in 1 .. n : x \in ToSet(seqs[k])
  <2>1. PICK p \in 1 .. Len(f) : x = f[p]
    BY <1>4 DEF ToSet
  <2>2. at[p][1] \in 1 .. n /\ x \in ToSet(seqs[at[p][1]])
    BY <1>1, <1>5, <2>1 DEF ToSet
  <2> QED
    BY <2>2
<1>7. ASSUME NEW k \in 1 .. n, NEW x \in ToSet(seqs[k]) PROVE x \in ToSet(f)
  <2>1. PICK j \in 1 .. Len(seqs[k]) : x = seqs[k][j]
    BY <1>1 DEF ToSet
  <2>2. PICK p \in 1 .. Len(f) : at[p] = <<k, j>>
    BY <1>5
  <2>3. f[p] = x
    BY <1>5, <2>1, <2>2
  <2> QED
    BY <1>4, <2>3 DEF ToSet
<1>8. ASSUME \A k \in 1 .. n : Once(seqs[k]),
             \A j, k \in 1 .. n : j # k => ToSet(seqs[j]) \cap ToSet(seqs[k]) = {},
             NEW p \in 1 .. Len(f), NEW q \in 1 .. Len(f), f[p] = f[q]
      PROVE  p = q
  <2> DEFINE i == at[p][1]
             j == at[q][1]
             k == at[p][2]
             m == at[q][2]
  <2>1. /\ i \in 1 .. n /\ k \in 1 .. Len(seqs[i]) /\ f[p] = seqs[i][k]
        /\ j \in 1 .. n /\ m \in 1 .. Len(seqs[j]) /\ f[q] = seqs[j][m]
    BY <1>5
  <2>2. ~(p < q) /\ ~(q < p) => p = q
    OBVIOUS
  <2>3. (p < q => i < j \/ (i = j /\ k < m)) /\ (q < p => j < i \/ (j = i /\ m < k))
    BY <1>5 DEF Earlier
  <2> HIDE DEF i, j, k, m
  <2>4. f[p] \in ToSet(seqs[i]) /\ f[p] \in ToSet(seqs[j])
    BY <1>1, <1>8, <2>1 DEF ToSet
  <2>5. i = j
    BY <1>8, <2>1, <2>4
  <2>6. k = m
    BY <1>1, <1>8, <2>1, <2>5 DEF Once
  <2>7. i \in Nat /\ k \in Int
    BY <2>1
  <2> QED
    BY <2>2, <2>3, <2>5, <2>6, <2>7
<1>9. (\A k \in 1 .. n : Once(seqs[k]))
      /\ (\A j, k \in 1 .. n : j # k => ToSet(seqs[j]) \cap ToSet(seqs[k]) = {})
      => Once(f)
  BY <1>4, <1>8 DEF Once
<1> QED
  BY <1>1, <1>6, <1>7, <1>9 DEF f

LEMMA OnceCounted ==
  ASSUME NEW V, NEW s \in Seq(V), Once(s)
  PROVE  IsFiniteSet(ToSet(s)) /\ Cardinality(ToSet(s)) = Len(s)
<1> DEFINE n == Len(s)
<1>1. n \in Nat /\ DOMAIN s = 1 .. n /\ s \in [1 .. n -> V]
  OBVIOUS
<1> HIDE DEF n
<1>2. IsFiniteSet(1 .. n) /\ Cardinality(1 .. n) = n
  BY <1>1, FS_Interval
<1>3. ToSet(s) = {s[i] : i \in 1 .. n}
  BY <1>1 DEF ToSet
<1>4. s \in [1 .. n -> ToSet(s)]
  BY <1>1, <1>3
<1>5. s \in Bijection(1 .. n, ToSet(s))
  BY <1>1, <1>3, <1>4 DEF Bijection, Injection, Surjection, IsInjective, Once
<1>6. ExistsBijection(1 .. n, ToSet(s))
  BY <1>5 DEF ExistsBijection
<1> QED
  BY <1>2, <1>6, FS_Bijection DEF n

\* the places of the elements of sequences s[k], for every k of the domain of s
Inside(s) == UNION {{k} \X DOMAIN s[k] : k \in DOMAIN s}

\* Flattened, sequences have as many elements as they have places.
LEMMA FlattenLength ==
  ASSUME NEW V, NEW seqs \in Seq(Seq(V))
  PROVE  LET f == FlattenSeq(seqs)
         IN Len(f) \in Nat /\ IsFiniteSet(Inside(seqs)) /\ Cardinality(Inside(seqs)) = Len(f)
<1> DEFINE f == FlattenSeq(seqs)
           n == Len(seqs)
           m == Len(f)
<1>1. n \in Nat /\ DOMAIN seqs = 1 .. n /\ f \in Seq(V)
  BY FlattenFacts
<1>2. m \in Nat
  <2> HIDE DEF f
  <2> QED
    BY <1>1
<1>3. \A k \in 1 .. n : seqs[k] \in Seq(V)
  BY <1>1
<1>4. \A k \in 1 .. n : DOMAIN seqs[k] = 1 .. Len(seqs[k])
  BY <1>3
<1>5. PICK at : Places(at, f, seqs, n)
  BY FlattenFacts
<1> HIDE DEF f, n, m
<1>6. /\ at \in [1 .. m -> Nat \X Nat]
      /\ \A p \in 1 .. m : at[p][1] \in 1 .. n /\ at[p][2] \in 1 .. Len(seqs[at[p][1]])
      /\ \A p, q \in 1 .. m : p < q => Earlier(at[p], at[q])
      /\ \A k \in 1 .. n : \A j \in 1 .. Len(seqs[k]) : \E p \in 1 .. m : at[p] = <<k, j>>
  BY <1>5 DEF Places, m
<1>7. at \in Seq(Nat \X Nat) /\ Len(at) = m /\ DOMAIN at = 1 .. m
  BY <1>2, <1>6
<1>8. Once(at)
  <2>1. ASSUME NEW p \in 1 .. m, NEW q \in 1 .. m, p < q PROVE at[p] # at[q]
    <3>1. Earlier(at[p], at[q]) /\ at[p] \in Nat \X Nat
      BY <1>6, <2>1
    <3> QED
      BY <3>1 DEF Earlier
  <2>2. ASSUME NEW p \in 1 .. m, NEW q \in 1 .. m, at[p] = at[q] PROVE p = q
    <3>1. p \in Nat /\ q \in Nat
      BY <1>2
    <3>2. ~(p < q) /\ ~(q < p)
      BY <2>1, <2>2
    <3> QED
      BY <3>1, <3>2
  <2> QED
    BY <1>7, <2>2 DEF Once
<1>9. ToSet(at) = Inside(seqs)
  <2>1. ASSUME NEW p \in 1 .. m PROVE at[p] \in Inside(seqs)
    <3>1. at[p] = <<at[p][1], at[p][2]>> /\ at[p][1] \in 1 .. n /\ at[p][2] \in 1 .. Len(seqs[at[p][1]])
      BY <1>6
    <3>2. at[p][2] \in DOMAIN seqs[at[p][1]]
      BY <1>4, <3>1
    <3>3. at[p] \in {at[p][1]} \X DOMAIN seqs[at[p][1]]
      BY <3>1, <3>2
    <3> QED
      BY <1>1, <3>1, <3>3 DEF Inside
  <2>2. ASSUME NEW x \in Inside(seqs) PROVE \E p \in 1 .. m : at[p] = x
    <3>1. PICK k \in 1 .. n : x \in {k} \X DOMAIN seqs[k]
      BY <1>1 DEF Inside
    <3>2. PICK j \in DOMAIN seqs[k] : x = <<k, j>>
      BY <3>1
    <3> QED
      BY <1>4, <1>6, <3>2
  <2> QED
    BY <1>7, <2>1, <2>2 DEF ToSet
<1> QED
  BY <1>2, <1>7, <1>8, <1>9, OnceCounted DEF f, m

\* m counts the places, and T as well exactly when each of its numbers has one place
CountsPlaces(m, s, T) ==
  /\ m \in Nat /\ m = Cardinality(Inside(s))
  /\ m = Cardinality(T) <=> \A k \in T : Len(s[k]) = 1

\* Some of the numbers have places, and all of them are flattened in their order.
LEMMA InsideCounted ==
  ASSUME NEW n \in Nat, NEW T \in SUBSET (1 .. n), NEW s, DOMAIN s = T, NEW V,
         \A k \in T : s[k] \in Seq(V) /\ s[k] # << >>,
         NEW seqs, seqs = [k \in 1 .. n |-> IF k \in T THEN s[k] ELSE << >>]
  PROVE  CountsPlaces(Len(FlattenSeq(seqs)), s, T)
<1> DEFINE S == T \X {1}
           m == Len(FlattenSeq(seqs))
<1>1. seqs \in Seq(Seq(V)) /\ DOMAIN seqs = 1 .. n
  <2>1. \A k \in 1 .. n : seqs[k] \in Seq(V)
    OBVIOUS
  <2>2. seqs \in [1 .. n -> Seq(V)]
    BY <2>1
  <2> QED
    BY <2>2
<1>2. Inside(seqs) = Inside(s)
  <2>1. \A k \in 1 .. n : DOMAIN seqs[k] = IF k \in T THEN DOMAIN s[k] ELSE {}
    OBVIOUS
  <2>2. ASSUME NEW x PROVE x \in Inside(seqs) <=> x \in Inside(s)
    <3>1. x \in Inside(seqs) <=> \E k \in 1 .. n : \E j \in DOMAIN seqs[k] : x = <<k, j>>
      BY <1>1 DEF Inside
    <3>2. x \in Inside(s) <=> \E k \in T : \E j \in DOMAIN s[k] : x = <<k, j>>
      BY DEF Inside
    <3> QED
      BY <2>1, <3>1, <3>2
  <2> QED
    BY <2>2
<1>3. m \in Nat /\ IsFiniteSet(Inside(s)) /\ Cardinality(Inside(s)) = m
  BY <1>1, <1>2, FlattenLength
<1> HIDE DEF m
<1>4. Cardinality(S) = Cardinality(T) /\ IsFiniteSet(T) /\ Cardinality(T) \in Nat
  <2>1. IsFiniteSet(1 .. n)
    BY FS_Interval
  <2>2. IsFiniteSet(T)
    BY <2>1, FS_Subset
  <2>3. Cardinality(T) \in Nat
    BY <2>2, FS_CardinalityType
  <2>4. IsFiniteSet({1}) /\ Cardinality({1}) = 1
    BY FS_Singleton
  <2>5. Cardinality(S) = Cardinality(T) * Cardinality({1})
    BY <2>2, <2>4, FS_Product
  <2> QED
    BY <2>2, <2>3, <2>4, <2>5
<1>5. \A k \in T : Len(s[k]) \in Nat \ {0} /\ DOMAIN s[k] = 1 .. Len(s[k])
  <2> SUFFICES ASSUME NEW k \in T PROVE Len(s[k]) \in Nat \ {0} /\ DOMAIN s[k] = 1 .. Len(s[k])
    OBVIOUS
  <2> DEFINE x == s[k]
  <2>1. x \in Seq(V) /\ x # << >>
    OBVIOUS
  <2> HIDE DEF x
  <2>2. Len(x) \in Nat \ {0} /\ DOMAIN x = 1 .. Len(x)
    BY <2>1
  <2> QED
    BY <2>2 DEF x
<1>6. ASSUME NEW x PROVE x \in Inside(s) <=> \E k \in T : \E j \in DOMAIN s[k] : x = <<k, j>>
  <2>1. x \in Inside(s) <=> \E k \in T : x \in {k} \X DOMAIN s[k]
    BY Zenon DEF Inside
  <2>2. ASSUME NEW k PROVE x \in {k} \X DOMAIN s[k] <=> \E j \in DOMAIN s[k] : x = <<k, j>>
    OBVIOUS
  <2> QED
    BY <2>1, <2>2
<1>7. ASSUME NEW k, NEW j PROVE <<k, j>> \in Inside(s) <=> k \in T /\ j \in DOMAIN s[k]
  <2>1. <<k, j>> \in Inside(s) <=> \E i \in T : \E h \in DOMAIN s[i] : <<k, j>> = <<i, h>>
    BY <1>6
  <2> QED
    BY <2>1
<1>8. S \in SUBSET Inside(s)
  <2>1. ASSUME NEW k \in T PROVE <<k, 1>> \in Inside(s)
    BY <1>5, <1>7
  <2> QED
    BY <2>1
<1>9. Inside(s) = S <=> \A k \in T : Len(s[k]) = 1
  <2>1. ASSUME Inside(s) = S, NEW k \in T PROVE Len(s[k]) = 1
    <3>1. Len(s[k]) \in Nat \ {0} /\ DOMAIN s[k] = 1 .. Len(s[k])
      BY <1>5
    <3>2. Len(s[k]) \in DOMAIN s[k]
      BY <3>1
    <3>3. <<k, Len(s[k])>> \in S
      BY <1>7, <2>1, <3>2
    <3> QED
      BY <3>3
  <2>2. ASSUME \A k \in T : Len(s[k]) = 1, NEW x \in Inside(s) PROVE x \in S
    <3>1. PICK k \in T : \E j \in DOMAIN s[k] : x = <<k, j>>
      BY <1>6
    <3>2. DOMAIN s[k] = 1 .. 1
      BY <1>5, <2>2
    <3> QED
      BY <3>1, <3>2
  <2> QED
    BY <1>8, <2>1, <2>2
<1>10. m = Cardinality(T) <=> Inside(s) = S
  <2>1. Cardinality(Inside(s)) = Cardinality(S) => Inside(s) = S
    BY <1>3, <1>8, FS_Subset
  <2> QED
    BY <1>3, <1>4, <2>1
<1> QED
  BY <1>3, <1>9, <1>10 DEF m, CountsPlaces
=============================================================================
