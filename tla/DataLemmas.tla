----------------------------- MODULE DataLemmas -----------------------------
(***************************************************************************)
(* Facts about numbers, sequences and recursive functions that the proofs  *)
(* of several components need. Each is proved from the least element of a  *)
(* set of naturals: the induction theorems of the library take an          *)
(* operator.                                                               *)
(***************************************************************************)
EXTENDS Integers, SequencesExt, SequenceTheorems, FiniteSetTheorems,
        WellFoundedInduction, TLAPS

\* Every set of naturals has a least element (the order is well founded).
LEMMA NatMin ==
  ASSUME NEW T, T \subseteq Nat, T # {}
  PROVE  \E x \in T : \A y \in T : x <= y
<1>1. IsWellFoundedOn(OpToRel(<, Nat), Nat)
  BY NatLessThanWellFounded, Zenon
<1>2. PICK x \in T : \A y \in T : ~ (<<y, x>> \in OpToRel(<, Nat))
  BY <1>1, WFMin, Zenon
<1>3. ASSUME NEW y \in T, y < x
      PROVE  FALSE
  <2>1. y \in Nat /\ x \in Nat
    OBVIOUS
  <2>2. <<y, x>> \in Nat \X Nat
    BY <2>1
  <2>3. <<y, x>>[1] < <<y, x>>[2]
    BY <1>3
  <2>4. <<y, x>> \in OpToRel(<, Nat)
    BY <2>2, <2>3, Zenon DEF OpToRel
  <2>5. QED
    BY <2>4, <1>2, Zenon
<1>4. QED
  BY <1>3

\* Induction over a set of naturals.
LEMMA Induction ==
  ASSUME NEW T, 0 \in T, \A n \in Nat : n \in T => n + 1 \in T
  PROVE  Nat \subseteq T
<1>1. SUFFICES ASSUME Nat \ T # {}
               PROVE  FALSE
  OBVIOUS
<1>2. PICK n \in Nat \ T : \A m \in Nat \ T : n <= m
  BY <1>1, NatMin
<1>3. n - 1 \in Nat /\ (n - 1) + 1 = n
  BY <1>2
<1>4. n - 1 \in T
  BY <1>2, <1>3
<1>5. QED
  BY <1>2, <1>3, <1>4

\* A step can be repeated from a start: the recursive function that does so
\* exists.
Repeats(f, S, step, a) ==
  f \in [Nat -> S] /\ f[0] = a /\ \A n \in Nat : f[n + 1] = step[f[n]]

LEMMA Iteration ==
  ASSUME NEW S, NEW step \in [S -> S], NEW a \in S
  PROVE  \E f : Repeats(f, S, step, a)
<1> DEFINE Runs(n) == {g \in [0..n -> S] :
                         g[0] = a /\ \A i \in 0..(n - 1) : g[i + 1] = step[g[i]]}
           Long == {n \in Nat : Runs(n) # {}}
<1>1. Nat \subseteq Long
  <2>1. 0 \in Long
    <3>1. [i \in 0..0 |-> a] \in Runs(0)
      OBVIOUS
    <3>2. QED
      BY <3>1
  <2>2. ASSUME NEW n \in Nat, n \in Long
        PROVE  n + 1 \in Long
    <3>1. PICK g \in Runs(n) : TRUE
      BY <2>2
    <3>2. PICK r : r = [i \in 0..(n + 1) |-> IF i = n + 1 THEN step[g[n]] ELSE g[i]]
      OBVIOUS
    <3>3. r \in [0..(n + 1) -> S]
      <4>1. \A i \in 0..(n + 1) : i = n + 1 \/ i \in 0..n
        OBVIOUS
      <4>2. step[g[n]] \in S /\ \A i \in 0..n : g[i] \in S
        BY <3>1
      <4>3. \A i \in 0..(n + 1) : r[i] \in S
        BY <3>2, <4>1, <4>2
      <4>4. QED
        BY <3>2, <4>3
    <3>4. r[0] = a
      BY <3>1, <3>2
    <3>5. ASSUME NEW i \in 0..((n + 1) - 1)
          PROVE  r[i + 1] = step[r[i]]
      <4>1. i \in 0..n /\ r[i] = g[i]
        BY <3>2
      <4>2. CASE i = n
        BY <3>2, <4>1, <4>2
      <4>3. CASE i # n
        BY <3>1, <3>2, <4>1, <4>3
      <4>4. QED
        BY <4>2, <4>3
    <3>6. r \in Runs(n + 1)
      BY <3>3, <3>4, <3>5
    <3>7. QED
      BY <3>6
  <2>3. QED
    BY <2>1, <2>2, Induction
<1>2. ASSUME NEW m \in Nat, NEW n \in Nat, NEW g \in Runs(m), NEW h \in Runs(n)
      PROVE  \A i \in Nat : i <= m /\ i <= n => g[i] = h[i]
  <2> DEFINE Same == {i \in Nat : i <= m /\ i <= n => g[i] = h[i]}
  <2>1. 0 \in Same
    OBVIOUS
  <2>2. ASSUME NEW i \in Nat, i \in Same
        PROVE  i + 1 \in Same
    <3>1. SUFFICES ASSUME i + 1 <= m, i + 1 <= n
                   PROVE  g[i + 1] = h[i + 1]
      OBVIOUS
    <3>2. i \in 0..(m - 1) /\ i \in 0..(n - 1) /\ g[i] = h[i]
      BY <2>2, <3>1
    <3>3. QED
      BY <3>2
  <2>3. Nat \subseteq Same
    <3> HIDE DEF Same
    <3>1. QED
      BY <2>1, <2>2, Induction
  <2>4. QED
    BY <2>3
<1>3. PICK run : run = [n \in Nat |-> CHOOSE g \in Runs(n) : TRUE]
  OBVIOUS
<1>4. \A n \in Nat : run[n] \in Runs(n)
  BY <1>1, <1>3
<1>5. PICK f : f = [n \in Nat |-> run[n][n]]
  OBVIOUS
<1>6. \A n \in Nat : f[n] = run[n][n] /\ run[n] \in [0..n -> S]
  BY <1>4, <1>5
<1>7. f \in [Nat -> S]
  <2>1. \A n \in Nat : f[n] \in S
    BY <1>6
  <2>2. QED
    BY <1>5, <2>1
<1>8. f[0] = a
  BY <1>4, <1>6
<1>9. ASSUME NEW n \in Nat
      PROVE  f[n + 1] = step[f[n]]
  <2>1. run[n + 1] \in Runs(n + 1) /\ run[n] \in Runs(n)
    BY <1>4
  <2>2. n \in 0..((n + 1) - 1)
    OBVIOUS
  <2>3. run[n + 1][n + 1] = step[run[n + 1][n]]
    BY <2>1, <2>2
  <2>4. run[n + 1][n] = run[n][n]
    <3>1. n <= n + 1 /\ n <= n /\ n + 1 \in Nat
      OBVIOUS
    <3> HIDE DEF Runs
    <3>2. QED
      BY <1>2, <2>1, <3>1
  <2>5. QED
    BY <1>6, <2>3, <2>4
<1>10. Repeats(f, S, step, a)
  BY <1>7, <1>8, <1>9, Zenon DEF Repeats
<1>11. QED
  BY <1>10

\* Min of a set of naturals is its least element.
LEMMA MinIn ==
  ASSUME NEW T, T \subseteq Nat, T # {}
  PROVE  Min(T) \in T /\ \A y \in T : Min(T) <= y
BY NatMin DEF Min

\* Max of a set of positions, or of messages, is its largest element.
LEMMA MaxIn ==
  ASSUME NEW n \in Nat, NEW T \in SUBSET (1..n), T # {}
  PROVE  Max(T) \in T /\ \A y \in T : Max(T) >= y
<1>1. PICK U : U = {j \in Nat : n - j \in T}
  OBVIOUS
<1>2. U # {}
  <2>1. PICK x \in T : TRUE
    OBVIOUS
  <2>2. n - x \in Nat /\ n - (n - x) = x
    OBVIOUS
  <2>3. QED
    BY <1>1, <2>1, <2>2
<1>3. PICK m \in U : \A j \in U : m <= j
  BY <1>1, <1>2, NatMin
<1>4. ASSUME NEW x \in T
      PROVE  n - m >= x
  <2>1. n - x \in Nat /\ n - (n - x) = x
    OBVIOUS
  <2>2. n - x \in U
    BY <1>1, <2>1
  <2>3. QED
    BY <1>1, <1>3, <2>1, <2>2
<1>5. n - m \in T
  BY <1>1, <1>3
<1>6. QED
  BY <1>4, <1>5 DEF Max

-----------------------------------------------------------------------------
(* Sets of naturals in increasing order.                                   *)

Increasing(q) == \A i, j \in DOMAIN q : i < j => q[i] < q[j]

LEMMA SortedExists ==
  ASSUME NEW N \in Nat, NEW S \in SUBSET (1..N)
  PROVE  \E q \in [1..Cardinality(S) -> S] : Increasing(q)
<1> DEFINE Sorts(U) == {q \in [1..Cardinality(U) -> U] : Increasing(q)}
           Bad == {n \in Nat : \E U \in SUBSET (1..N) :
                                 Cardinality(U) = n /\ Sorts(U) = {}}
<1>1. \A U \in SUBSET (1..N) : IsFiniteSet(U) /\ Cardinality(U) \in Nat
  <2>1. IsFiniteSet(1..N)
    BY FS_Interval
  <2>2. QED
    BY <2>1, FS_Subset, FS_CardinalityType
<1>2. SUFFICES ASSUME Bad # {}
               PROVE  FALSE
  BY <1>1
<1>3. PICK n \in Bad : \A k \in Bad : n <= k
  BY <1>2, NatMin
<1>4. PICK U \in SUBSET (1..N) : Cardinality(U) = n /\ Sorts(U) = {}
  BY <1>3
<1>5. U # {}
  <2>1. SUFFICES ASSUME U = {}
                 PROVE  FALSE
    OBVIOUS
  <2>2. Cardinality(U) = 0
    BY <2>1, FS_EmptySet
  <2>3. [i \in 1..0 |-> 0] \in [1..0 -> U] /\ Increasing([i \in 1..0 |-> 0])
    BY DEF Increasing
  <2>4. QED
    BY <1>4, <2>2, <2>3
<1>6. PICK m \in U : \A x \in U : m >= x
  BY <1>5, MaxIn
<1>7. PICK V : V = U \ {m}
  OBVIOUS
<1>8. V \in SUBSET (1..N) /\ Cardinality(V) = n - 1 /\ n - 1 \in Nat
  <2>1. V \in SUBSET (1..N)
    BY <1>7
  <2>2. IsFiniteSet(U) /\ n \in Nat
    BY <1>1, <1>4
  <2>3. Cardinality(V) = n - 1
    BY <1>4, <1>6, <1>7, <2>2, FS_RemoveElement
  <2>4. Cardinality(V) \in Nat
    BY <1>1, <2>1
  <2>5. QED
    BY <2>1, <2>3, <2>4
<1>9. PICK q \in [1..(n - 1) -> V] : Increasing(q)
  <2>1. n - 1 \notin Bad
    BY <1>3, <1>8
  <2>2. Sorts(V) # {}
    BY <1>8, <2>1
  <2>3. QED
    BY <1>8, <2>2
<1>10. PICK r : r = [i \in 1..n |-> IF i = n THEN m ELSE q[i]]
  OBVIOUS
<1>11. n \in Nat /\ \A i \in 1..n : i # n => i \in 1..(n - 1)
  BY <1>3
<1>12. r \in [1..n -> U]
  <2>1. \A i \in 1..n : r[i] \in U
    BY <1>6, <1>7, <1>9, <1>10, <1>11
  <2>2. QED
    BY <1>10, <2>1
<1>13. Increasing(r)
  <2>1. SUFFICES ASSUME NEW i \in 1..n, NEW j \in 1..n, i < j
                 PROVE  r[i] < r[j]
    BY <1>10 DEF Increasing
  <2>2. i \in 1..(n - 1) /\ r[i] = q[i] /\ q[i] \in V
    BY <1>9, <1>10, <1>11, <2>1
  <2>3. CASE j = n
    <3>1. r[j] = m /\ m \in Nat /\ q[i] \in Nat /\ q[i] # m /\ m >= q[i]
      <4>1. r[j] = m
        BY <1>10, <2>1, <2>3
      <4>2. m \in 1..N /\ q[i] \in 1..N /\ q[i] # m /\ q[i] \in U
        BY <1>4, <1>6, <1>7, <1>8, <2>2
      <4>3. QED
        BY <1>6, <4>1, <4>2
    <3>2. QED
      BY <2>2, <3>1
  <2>4. CASE j # n
    <3>1. j \in 1..(n - 1) /\ r[j] = q[j]
      BY <1>10, <1>11, <2>1, <2>4
    <3>2. QED
      BY <1>9, <2>1, <2>2, <3>1 DEF Increasing
  <2>5. QED
    BY <2>3, <2>4
<1>14. QED
  BY <1>4, <1>12, <1>13

\* Such a list holds every element, and the position of an element says how
\* many are smaller.
LEMMA SortedRange ==
  ASSUME NEW N \in Nat, NEW S \in SUBSET (1..N),
         NEW q \in [1..Cardinality(S) -> S], Increasing(q)
  PROVE  /\ Range(q) = S
         /\ \A i \in 1..Cardinality(S) :
              Cardinality({x \in S : x < q[i]}) = i - 1
<1>1. PICK n : n = Cardinality(S)
  OBVIOUS
<1>2. IsFiniteSet(S) /\ n \in Nat
  <2>1. IsFiniteSet(1..N)
    BY FS_Interval
  <2>2. QED
    BY <1>1, <2>1, FS_Subset, FS_CardinalityType
<1>3. \A i, j \in 1..n : q[i] \in 1..N /\ (i < j => q[i] < q[j])
  BY <1>1 DEF Increasing
<1>4. \A i, j \in 1..n : q[i] = q[j] => i = j
  BY <1>2, <1>3
<1>5. Range(q) = S
  <2>1. q \in Injection(1..n, S)
    BY <1>1, <1>4 DEF Injection, IsInjective
  <2>2. Cardinality(1..n) = n
    BY <1>2, FS_Interval
  <2>3. q \in Surjection(1..n, S)
    BY <1>1, <1>2, <2>1, <2>2, FS_Injection
  <2>4. QED
    BY <2>3 DEF Surjection, Range
<1>6. ASSUME NEW i \in 1..n
      PROVE  Cardinality({x \in S : x < q[i]}) = i - 1
  <2>1. PICK B : B = {x \in S : x < q[i]}
    OBVIOUS
  <2>2. PICK r : r = [j \in 1..(i - 1) |-> q[j]]
    OBVIOUS
  <2>3. \A j \in 1..(i - 1) : j \in 1..n /\ r[j] = q[j] /\ r[j] \in B
    BY <1>1, <1>2, <1>3, <2>1, <2>2
  <2>4. ASSUME NEW x \in B
        PROVE  \E j \in 1..(i - 1) : r[j] = x
    <3>1. PICK j \in 1..n : q[j] = x
      BY <1>1, <1>5, <2>1 DEF Range
    <3>2. j < i
      BY <1>2, <1>3, <2>1, <3>1
    <3>3. QED
      BY <2>3, <3>1, <3>2
  <2>5. r \in Bijection(1..(i - 1), B)
    <3>1. r \in [1..(i - 1) -> B]
      BY <2>2, <2>3
    <3>2. r \in Injection(1..(i - 1), B)
      BY <1>4, <2>3, <3>1 DEF Injection, IsInjective
    <3>3. r \in Surjection(1..(i - 1), B)
      BY <2>4, <3>1 DEF Surjection
    <3>4. QED
      BY <3>2, <3>3 DEF Bijection
  <2>6. ExistsBijection(1..(i - 1), B) /\ i - 1 \in Nat
    BY <1>2, <2>5 DEF ExistsBijection
  <2>7. QED
    BY <2>1, <2>6, FS_CountingElements
<1>7. QED
  BY <1>1, <1>5, <1>6

\* The first m elements of an increasing list are the smallest.
Smallest(S, m) == {x \in S : Cardinality({y \in S : y < x}) < m}

LEMMA FirstOfSorted ==
  ASSUME NEW N \in Nat, NEW S \in SUBSET (1..N), NEW m \in Nat,
         NEW q \in [1..Cardinality(S) -> S], Increasing(q)
  PROVE  \E k \in 0..Cardinality(S) :
           /\ k = Min({Len(q), m})
           /\ SubSeq(q, 1, k) \in Seq(S) /\ Increasing(SubSeq(q, 1, k))
           /\ Range(SubSeq(q, 1, k)) = Smallest(S, m)
<1>1. PICK n : n = Cardinality(S)
  OBVIOUS
<1>2. n \in Nat /\ q \in Seq(S) /\ Len(q) = n
  <2>1. IsFiniteSet(1..N)
    BY FS_Interval
  <2>2. n \in Nat
    BY <1>1, <2>1, FS_Subset, FS_CardinalityType
  <2>3. QED
    BY <1>1, <2>2
<1>3. PICK k : k = Min({Len(q), m})
  OBVIOUS
<1>4. k \in Nat /\ k <= n /\ k <= m /\ (k = n \/ k = m)
  BY <1>2, <1>3, MinIn
<1>5. PICK first : first = SubSeq(q, 1, k)
  OBVIOUS
<1>6. /\ first \in Seq(S) /\ Len(first) = k
      /\ \A i \in 1..k : first[i] = q[i]
  <2>1. \A i \in 1..k : q[i] \in S
    BY <1>1, <1>2, <1>4
  <2>2. QED
    BY <1>4, <1>5, <2>1, SubSeqProperties
<1>7. DOMAIN first = 1..k
  BY <1>6, LenProperties
<1>8. Increasing(first)
  <2>1. \A i, j \in 1..n : i < j => q[i] < q[j]
    BY <1>1 DEF Increasing
  <2>2. \A i \in 1..k : i \in 1..n
    BY <1>2, <1>4
  <2>3. QED
    BY <1>6, <1>7, <2>1, <2>2 DEF Increasing
<1>9. /\ \A x \in S : \E i \in 1..n : q[i] = x
      /\ \A i \in 1..n : q[i] \in S /\ Cardinality({y \in S : y < q[i]}) = i - 1
  <2>1. DOMAIN q = 1..n
    BY <1>1
  <2>2. Range(q) = S
    BY SortedRange
  <2>3. \A x \in S : \E i \in 1..n : q[i] = x
    BY <2>1, <2>2 DEF Range
  <2>4. \A i \in 1..Cardinality(S) : Cardinality({y \in S : y < q[i]}) = i - 1
    BY SortedRange
  <2>5. QED
    BY <1>1, <2>3, <2>4
<1>10. ASSUME NEW x \in S
       PROVE  x \in Range(first) <=> Cardinality({y \in S : y < x}) < m
  <2>1. PICK i \in 1..n : q[i] = x
    BY <1>9
  <2>2. Cardinality({y \in S : y < x}) = i - 1
    BY <1>9, <2>1
  <2>3. i - 1 < m <=> i \in 1..k
    BY <1>2, <1>4, <2>1
  <2>4. ASSUME NEW j \in 1..k, first[j] = x
        PROVE  i = j
    <3>1. j \in 1..n /\ q[j] = x
      BY <1>2, <1>4, <1>6, <2>4
    <3>2. Cardinality({y \in S : y < x}) = j - 1
      BY <1>9, <3>1
    <3>3. QED
      BY <2>2, <3>2
  <2>5. x \in Range(first) <=> \E j \in 1..k : first[j] = x
    BY <1>7 DEF Range
  <2>6. i \in 1..k => first[i] = x
    BY <1>6, <2>1
  <2>7. QED
    BY <2>2, <2>3, <2>4, <2>5, <2>6
<1>11. Range(first) \subseteq S
  BY <1>6, RangeOfSeq
<1>12. QED
  <2>1. k \in 0..Cardinality(S)
    BY <1>1, <1>2, <1>4
  <2>2. Range(first) = Smallest(S, m)
    BY <1>10, <1>11 DEF Smallest
  <2>3. QED
    BY <1>3, <1>5, <1>6, <1>8, <2>1, <2>2

\* What is left of a list without its head.
LEMMA TailOfSequence ==
  ASSUME NEW S, NEW q \in Seq(S), q # <<>>
  PROVE  /\ Tail(q) \in Seq(S) /\ Head(q) \in S /\ Head(q) \in Range(q)
         /\ Range(Tail(q)) \subseteq Range(q)
         /\ Range(q) = Range(Tail(q)) \cup {Head(q)}
<1>1. /\ Head(q) = q[1] /\ Len(q) \in Nat \ {0} /\ DOMAIN q = 1..Len(q)
  BY EmptySeq, LenProperties
<1>2. /\ Head(q) \in S /\ Tail(q) \in Seq(S) /\ Len(Tail(q)) = Len(q) - 1
      /\ \A i \in 1..Len(Tail(q)) : Tail(q)[i] = q[i + 1]
  BY HeadTailProperties
<1>3. DOMAIN Tail(q) = 1..(Len(q) - 1)
  BY <1>2, LenProperties
<1>4. Head(q) \in Range(q)
  BY <1>1 DEF Range
<1>5. ASSUME NEW x \in Range(Tail(q))
      PROVE  x \in Range(q)
  <2>1. PICK i \in 1..(Len(q) - 1) : Tail(q)[i] = x
    BY <1>3 DEF Range
  <2>2. i + 1 \in 1..Len(q) /\ q[i + 1] = x
    BY <1>1, <1>2, <2>1
  <2>3. QED
    BY <1>1, <2>2 DEF Range
<1>6. ASSUME NEW x \in Range(q), x # Head(q)
      PROVE  x \in Range(Tail(q))
  <2>1. PICK i \in 1..Len(q) : q[i] = x
    BY <1>1 DEF Range
  <2>2. i # 1
    BY <1>1, <1>6, <2>1
  <2>3. i - 1 \in 1..(Len(q) - 1) /\ (i - 1) + 1 = i
    BY <1>1, <2>1, <2>2
  <2>4. Tail(q)[i - 1] = x
    BY <1>2, <2>1, <2>3
  <2>5. QED
    BY <1>3, <2>3, <2>4 DEF Range
<1>7. QED
  BY <1>2, <1>4, <1>5, <1>6

LEMMA TailOfSorted ==
  ASSUME NEW S \in SUBSET Nat, NEW q \in Seq(S), q # <<>>, Increasing(q)
  PROVE  /\ Increasing(Tail(q))
         /\ Head(q) = Min(Range(q)) /\ Head(q) \notin Range(Tail(q))
<1>1. /\ Head(q) = q[1] /\ Len(q) \in Nat \ {0} /\ DOMAIN q = 1..Len(q)
      /\ \A i \in 1..Len(q) : q[i] \in Nat
  <2>1. Len(q) \in Nat \ {0}
    BY EmptySeq
  <2>2. DOMAIN q = 1..Len(q) /\ \A i \in 1..Len(q) : q[i] \in S
    BY LenProperties, ElementOfSeq
  <2>3. Head(q) = q[1]
    BY EmptySeq, LenProperties
  <2>4. \A i \in 1..Len(q) : q[i] \in Nat
    BY <2>2
  <2>5. QED
    BY <2>1, <2>2, <2>3, <2>4
<1>2. /\ Len(Tail(q)) = Len(q) - 1
      /\ \A i \in 1..Len(Tail(q)) : Tail(q)[i] = q[i + 1]
  BY HeadTailProperties
<1>3. DOMAIN Tail(q) = 1..(Len(q) - 1)
  <2>1. Tail(q) \in Seq(S)
    BY HeadTailProperties
  <2>2. QED
    BY <1>2, <2>1, LenProperties
<1>4. Increasing(Tail(q))
  BY <1>1, <1>2, <1>3 DEF Increasing
<1>5. \A i \in 2..Len(q) : q[1] < q[i]
  BY <1>1 DEF Increasing
<1>6. Head(q) \notin Range(Tail(q))
  <2>1. \A i \in 1..(Len(q) - 1) : Tail(q)[i] # q[1]
    BY <1>1, <1>2, <1>5
  <2>2. QED
    BY <1>1, <1>3, <2>1 DEF Range
<1>7. Head(q) = Min(Range(q))
  <2>1. Head(q) \in Range(q)
    BY <1>1 DEF Range
  <2>2. \A x \in Range(q) : x \in Nat /\ Head(q) <= x
    <3>1. SUFFICES ASSUME NEW i \in 1..Len(q)
                   PROVE  q[i] \in Nat /\ q[1] <= q[i]
      BY <1>1 DEF Range
    <3>2. i = 1 \/ i \in 2..Len(q)
      BY <1>1
    <3>3. QED
      BY <1>1, <1>5, <3>2
  <2>3. Min(Range(q)) \in Range(q) /\ \A x \in Range(q) : Min(Range(q)) <= x
    BY <2>1, <2>2, MinIn
  <2>4. Head(q) \in Nat /\ Min(Range(q)) \in Nat
    BY <2>1, <2>2, <2>3
  <2>5. QED
    BY <2>1, <2>2, <2>3, <2>4
<1>8. QED
  BY <1>4, <1>6, <1>7

\* The result of recover() grows by one entry at its end.
LEMMA LastOfAppend ==
  ASSUME NEW S, NEW q \in Seq(S), NEW x \in S
  PROVE  /\ Append(q, x) \in Seq(S) /\ Append(q, x) # <<>>
         /\ Last(Append(q, x)) = x /\ Front(Append(q, x)) = q
<1>1. /\ Append(q, x) \in Seq(S) /\ Append(q, x) # <<>>
      /\ Len(Append(q, x)) = Len(q) + 1
      /\ \A i \in 1..Len(q) : Append(q, x)[i] = q[i]
      /\ Append(q, x)[Len(q) + 1] = x
  BY AppendProperties
<1>2. Last(Append(q, x)) = x
  BY <1>1 DEF Last
<1>3. Len(q) \in Nat /\ \A i \in 1..Len(q) : q[i] \in S
  BY LenProperties, ElementOfSeq
<1>4. Front(Append(q, x)) = q
  <2>1. PICK f : f = SubSeq(Append(q, x), 1, Len(q))
    OBVIOUS
  <2>2. \A i \in 1..Len(q) : Append(q, x)[i] \in S
    BY <1>1, <1>3
  <2>3. f \in Seq(S) /\ Len(f) = Len(q) /\ \A i \in 1..Len(q) : f[i] = Append(q, x)[i]
    BY <1>3, <2>1, <2>2, SubSeqProperties
  <2>4. f = q
    BY <1>1, <2>3, SeqEqual
  <2>5. (Len(q) + 1) - 1 = Len(q)
    BY <1>3
  <2>6. QED
    BY <1>1, <2>1, <2>4, <2>5 DEF Front
<1>5. QED
  BY <1>1, <1>2, <1>4

LEMMA RangeOfAppend ==
  ASSUME NEW S, NEW q \in Seq(S), NEW x \in S
  PROVE  Range(Append(q, x)) = Range(q) \cup {x}
<1>1. PICK a : a = Append(q, x)
  OBVIOUS
<1>2. /\ Len(q) \in Nat /\ DOMAIN q = 1..Len(q) /\ DOMAIN a = 1..(Len(q) + 1)
      /\ a[Len(q) + 1] = x /\ \A i \in 1..Len(q) : a[i] = q[i]
  BY <1>1, AppendProperties, LenProperties
<1>3. \A i : i \in 1..(Len(q) + 1) <=> i = Len(q) + 1 \/ i \in 1..Len(q)
  BY <1>2
<1>4. \A y : (\E i \in DOMAIN a : a[i] = y) <=> y = x \/ \E i \in DOMAIN q : q[i] = y
  BY <1>2, <1>3
<1>5. \A y : y \in Range(a) <=> y \in Range(q) \cup {x}
  BY <1>4 DEF Range
<1>6. QED
  BY <1>1, <1>5

LEMMA LastInRange ==
  ASSUME NEW S, NEW q \in Seq(S), q # <<>>
  PROVE  Last(q) \in S /\ Last(q) \in Range(q)
<1>1. Len(q) \in 1..Len(q) /\ DOMAIN q = 1..Len(q)
  BY EmptySeq, LenProperties
<1>2. q[Len(q)] \in S
  BY <1>1, ElementOfSeq
<1>3. QED
  BY <1>1, <1>2 DEF Last, Range

LEMMA FrontAndLast ==
  ASSUME NEW S, NEW q \in Seq(S), q # <<>>
  PROVE  q = Append(Front(q), Last(q))
<1>1. PICK r \in Seq(S), x \in S : q = Append(r, x)
  BY SequenceEmptyOrAppend
<1>2. QED
  BY <1>1, LastOfAppend
=============================================================================
