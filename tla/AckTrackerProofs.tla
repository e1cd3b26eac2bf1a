-------------------------- MODULE AckTrackerProofs --------------------------
(***************************************************************************)
(* Proofs about the ack tracker, for any lanes, ack timeouts, bounds and   *)
(* policies: the heap stays ordered and complete, a pass decides exactly   *)
(* the expired registrations, and without spilling the tracker implements  *)
(* PendingAcks.                                                            *)
(***************************************************************************)
EXTENDS AckTracker, DataLemmas

Handles       == [key : Keys, deadline : Nat, generation : Nat]
Registrations == [generation : Nat, deadline : Nat]
Tables        == UNION {[K -> Registrations] : K \in SUBSET Keys}
Entries       == {"queued", "awaiting", "gone"}
Decisions     == [key : Keys, action : {"RETRY", "EXHAUSTED"}]

-----------------------------------------------------------------------------
(* The heap.  Its loops keep a heap and the index of the handle they move. *)

Places == {c \in [heap : Seq(Handles), index : Nat] : c.index \in 1..Len(c.heap)}

\* Every handle but the one at "index" is where it belongs below its parent.
OrderedBut(h, index) ==
  \A i \in 2..Len(h) : i # index => h[i \div 2].deadline <= h[i].deadline

OrderedHeap(h) == \A i \in 2..Len(h) : h[i \div 2].deadline <= h[i].deadline

\* The children of "index" are in order with its parent.
Bridged(h, index) ==
  \A i \in 2..Len(h) : i \div 2 = index /\ index > 1 =>
                         h[index \div 2].deadline <= h[i].deadline

LEMMA Parents ==
  ASSUME NEW i \in Nat, i >= 2
  PROVE  i \div 2 \in 1..(i - 1) /\ (i = 2 * (i \div 2) \/ i = 2 * (i \div 2) + 1)
OBVIOUS

LEMMA Children ==
  ASSUME NEW i \in Nat \ {0}
  PROVE  /\ (2 * i) \div 2 = i /\ (2 * i + 1) \div 2 = i
         /\ i < 2 * i /\ i < 2 * i + 1 /\ 2 * i \in Nat /\ 2 * i + 1 \in Nat
OBVIOUS

LEMMA SwappedFacts ==
  ASSUME NEW h \in Seq(Handles), NEW i \in 1..Len(h), NEW j \in 1..Len(h)
  PROVE  LET s == Swapped(h, i, j)
         IN  /\ s \in Seq(Handles) /\ Len(s) = Len(h)
             /\ s[i] = h[j] /\ s[j] = h[i]
             /\ \A m \in 1..Len(h) : m # i /\ m # j => s[m] = h[m]
             /\ Range(s) = Range(h)
             /\ Cardinality(Expired(s)) = Cardinality(Expired(h))
<1> DEFINE s == Swapped(h, i, j)
           swap == [m \in 1..Len(h) |-> IF m = i THEN j ELSE IF m = j THEN i ELSE m]
<1>1. Len(h) \in Nat /\ DOMAIN h = 1..Len(h) /\ \A m \in 1..Len(h) : h[m] \in Handles
  BY LenProperties, ElementOfSeq
<1>2. \A m \in 1..Len(h) : swap[m] \in 1..Len(h) /\ swap[swap[m]] = m
  OBVIOUS
<1>3. DOMAIN s = 1..Len(h) /\ \A m \in 1..Len(h) : s[m] = h[swap[m]]
  BY <1>1 DEF Swapped
<1>4. s \in Seq(Handles) /\ Len(s) = Len(h)
  <2>1. s \in [1..Len(h) -> Handles]
    <3>1. \A m \in 1..Len(h) : s[m] \in Handles
      BY <1>1, <1>2, <1>3
    <3>2. s = [m \in 1..Len(h) |-> s[m]]
      BY <1>1 DEF Swapped
    <3>3. QED
      BY <3>1, <3>2
  <2>2. s \in Seq(Handles)
    BY <1>1, <2>1, SeqDef
  <2>3. QED
    BY <1>1, <1>3, <2>2, LenProperties
<1>5. Range(s) = Range(h)
  <2>1. \A x : x \in Range(s) => x \in Range(h)
    BY <1>1, <1>2, <1>3 DEF Range
  <2>2. \A m \in 1..Len(h) : s[swap[m]] = h[m]
    BY <1>2, <1>3
  <2>3. \A x : x \in Range(h) => x \in Range(s)
    BY <1>1, <1>2, <1>3, <2>2 DEF Range
  <2>4. QED
    BY <2>1, <2>3
<1>6. Cardinality(Expired(s)) = Cardinality(Expired(h))
  <2>1. PICK f : f = [m \in Expired(h) |-> swap[m]]
    OBVIOUS
  <2>2. Expired(h) \subseteq 1..Len(h) /\ Expired(s) \subseteq 1..Len(h)
    BY <1>1, <1>3 DEF Expired
  <2>3. \A m \in 1..Len(h) : s[swap[m]] = h[m]
    BY <1>2, <1>3
  <2>4. \A m \in 1..Len(h) : m \in Expired(h) <=> swap[m] \in Expired(s)
    BY <1>1, <1>2, <1>3, <2>3 DEF Expired
  <2>5. f \in [Expired(h) -> Expired(s)]
    BY <2>1, <2>2, <2>4
  <2>6. f \in Injection(Expired(h), Expired(s))
    <3>1. \A m, n \in 1..Len(h) : swap[m] = swap[n] => m = n
      BY <1>2
    <3>2. QED
      BY <2>1, <2>2, <2>5, <3>1, Zenon DEF Injection, IsInjective
  <2>7. f \in Surjection(Expired(h), Expired(s))
    <3>1. \A n \in Expired(s) : swap[n] \in Expired(h) /\ swap[swap[n]] = n
      <4>1. SUFFICES ASSUME NEW n \in Expired(s)
                     PROVE  swap[n] \in Expired(h) /\ swap[swap[n]] = n
        OBVIOUS
      <4>2. n \in 1..Len(h) /\ swap[n] \in 1..Len(h) /\ swap[swap[n]] = n
        BY <1>2, <2>2
      <4>3. QED
        BY <2>4, <4>2
    <3>2. QED
      BY <2>1, <2>5, <3>1, Zenon DEF Surjection
  <2>8. ExistsBijection(Expired(h), Expired(s))
    BY <2>6, <2>7, Zenon DEF ExistsBijection, Bijection
  <2>9. IsFiniteSet(Expired(h)) /\ IsFiniteSet(Expired(s))
    <3>1. IsFiniteSet(1..Len(h))
      BY <1>1, FS_Interval
    <3>2. QED
      BY <2>2, <3>1, FS_Subset
  <2>10. QED
    BY <2>8, <2>9, FS_Bijection
<1>7. QED
  BY <1>2, <1>3, <1>4, <1>5, <1>6

-----------------------------------------------------------------------------
(* heapPush.                                                               *)

LEMMA ClimbFacts ==
  ASSUME NEW c \in Places
  PROVE  /\ Climb(c) \in Places /\ Len(Climb(c).heap) = Len(c.heap)
         /\ Range(Climb(c).heap) = Range(c.heap)
         /\ Cardinality(Expired(Climb(c).heap)) = Cardinality(Expired(c.heap))
<1>1. c.heap \in Seq(Handles) /\ Len(c.heap) \in Nat /\ c.index \in 1..Len(c.heap)
  BY LenProperties DEF Places
<1>2. CASE Climb(c) = c
  BY <1>2
<1>3. CASE Climb(c) # c
  <2>1. PICK parent : parent = c.index \div 2
    OBVIOUS
  <2>2. c.index # 1 /\ Climb(c) = [heap |-> Swapped(c.heap, c.index, parent), index |-> parent]
    BY <1>3, <2>1 DEF Climb
  <2>3. parent \in 1..Len(c.heap) /\ parent \in Nat
    <3>1. parent \in 1..(c.index - 1)
      BY <1>1, <2>1, <2>2, Parents
    <3>2. QED
      BY <1>1, <3>1
  <2>4. QED
    BY <1>1, <2>2, <2>3, SwappedFacts DEF Places
<1>4. QED
  BY <1>2, <1>3

LEMMA ClimbingSteps ==
  ASSUME NEW h \in Seq(Handles), NEW x \in Handles
  PROVE  /\ Climbing(h, x)[0] = [heap |-> Append(h, x), index |-> Len(h) + 1]
         /\ \A n \in Nat : Climbing(h, x)[n + 1] = Climb(Climbing(h, x)[n])
<1>1. PICK a : a = [heap |-> Append(h, x), index |-> Len(h) + 1]
  OBVIOUS
<1>2. a \in Places
  <2>1. Append(h, x) \in Seq(Handles) /\ Len(Append(h, x)) = Len(h) + 1 /\ Len(h) \in Nat
    BY AppendProperties, LenProperties
  <2>2. QED
    BY <1>1, <2>1 DEF Places
<1>3. PICK step : step = [c \in Places |-> Climb(c)]
  OBVIOUS
<1>4. step \in [Places -> Places]
  BY <1>3, ClimbFacts
<1>5. PICK f : Repeats(f, Places, step, a)
  BY <1>2, <1>4, Iteration
<1>6. /\ f \in [Nat -> Places] /\ f[0] = a
      /\ \A n \in Nat : f[n + 1] = Climb(f[n])
  BY <1>3, <1>5 DEF Repeats
<1>7. f = [n \in Nat |-> IF n = 0 THEN a ELSE Climb(f[n - 1])]
  <2>1. \A n \in Nat : n # 0 => n - 1 \in Nat /\ (n - 1) + 1 = n
    OBVIOUS
  <2>2. \A n \in Nat : f[n] = IF n = 0 THEN a ELSE Climb(f[n - 1])
    BY <1>6, <2>1
  <2>3. QED
    BY <1>6, <2>2
<1>8. Climbing(h, x) = [n \in Nat |-> IF n = 0 THEN a ELSE Climb(Climbing(h, x)[n - 1])]
  BY <1>1, <1>7, Zenon DEF Climbing
<1>9. QED
  <2>1. \A n \in Nat : n + 1 \in Nat /\ n + 1 # 0 /\ (n + 1) - 1 = n
    OBVIOUS
  <2>2. PICK g : g = Climbing(h, x)
    OBVIOUS
  <2>3. g = [n \in Nat |-> IF n = 0 THEN a ELSE Climb(g[n - 1])]
    BY <1>8, <2>2, Zenon
  <2>4. g[0] = a
    BY <2>3
  <2>5. ASSUME NEW n \in Nat
        PROVE  g[n + 1] = Climb(g[n])
    BY <2>1, <2>3
  <2>6. QED
    BY <1>1, <2>2, <2>4, <2>5, Zenon

\* A round moves the one handle that may be out of place up, or ends.
LEMMA ClimbKeepsOrder ==
  ASSUME NEW c \in Places, OrderedBut(c.heap, c.index), Bridged(c.heap, c.index)
  PROVE  /\ OrderedBut(Climb(c).heap, Climb(c).index)
         /\ Bridged(Climb(c).heap, Climb(c).index)
         /\ \/ Climb(c).index < c.index
            \/ Climb(c) = c /\ OrderedHeap(c.heap)
<1> DEFINE h == c.heap
           i == c.index
           p == i \div 2
           s == Climb(c).heap
<1>1. /\ h \in Seq(Handles) /\ Len(h) \in Nat /\ i \in 1..Len(h)
      /\ \A m \in 1..Len(h) : h[m].deadline \in Nat
  <2>1. h \in Seq(Handles) /\ i \in 1..Len(h)
    BY DEF Places
  <2>2. \A m \in 1..Len(h) : h[m] \in Handles
    BY <2>1, ElementOfSeq
  <2>3. QED
    BY <2>1, <2>2, LenProperties DEF Handles
<1>2. CASE i = 1 \/ h[p].deadline <= h[i].deadline
  <2>1. Climb(c) = c
    BY <1>2 DEF Climb
  <2>2. OrderedHeap(h)
    BY <1>1, <1>2 DEF OrderedBut, OrderedHeap
  <2>3. QED
    BY <2>1, <2>2
<1>3. CASE i # 1 /\ ~(h[p].deadline <= h[i].deadline)
  <2>1. Climb(c) = [heap |-> Swapped(h, i, p), index |-> p]
    BY <1>3 DEF Climb
  <2>2. i \in Nat /\ i >= 2 /\ p \in 1..(i - 1) /\ p \in 1..Len(h) /\ p # i
    <3>1. i \in Nat /\ i >= 2
      BY <1>1, <1>3
    <3>2. p \in 1..(i - 1)
      BY <3>1, Parents
    <3>3. QED
      BY <1>1, <3>1, <3>2
  <2>3. /\ Len(s) = Len(h) /\ s[i] = h[p] /\ s[p] = h[i]
        /\ \A m \in 1..Len(h) : m # i /\ m # p => s[m] = h[m]
    <3>1. s = Swapped(h, i, p)
      BY <2>1
    <3> HIDE DEF h, i, p, s
    <3>2. QED
      BY <1>1, <2>2, <3>1, SwappedFacts
  <2>4. h[i].deadline < h[p].deadline
    BY <1>1, <1>3, <2>2
  <2>5. \A j \in 2..Len(h) : j \in 1..Len(h) /\ j \div 2 \in 1..Len(h) /\ j \div 2 # j
    <3>1. SUFFICES ASSUME NEW j \in 2..Len(h)
                   PROVE  j \in 1..Len(h) /\ j \div 2 \in 1..Len(h) /\ j \div 2 # j
      OBVIOUS
    <3>2. j \in Nat /\ j >= 2 /\ j <= Len(h)
      BY <1>1
    <3>3. j \div 2 \in 1..(j - 1)
      BY <3>2, Parents
    <3>4. QED
      BY <1>1, <3>2, <3>3
  <2> DEFINE up == [j \in 2..Len(h) |-> j \div 2]
  <2>6. \A j \in 2..Len(h) : /\ up[j] = j \div 2 /\ up[j] \in 1..Len(h) /\ up[j] # j
                             /\ j \in 1..Len(h)
    BY <2>5
  <2>7. \A j \in 2..Len(h) : j # i => h[up[j]].deadline <= h[j].deadline
    BY <2>6 DEF OrderedBut
  <2>8. \A j \in 2..Len(h) : up[j] = i => h[p].deadline <= h[j].deadline
    BY <1>1, <1>3, <2>6 DEF Bridged
  <2>9. i \in 2..Len(h) /\ up[i] = p
    BY <1>1, <1>3
  <2> HIDE DEF up, p, h, i, s
  <2>10. ASSUME NEW j \in 2..Len(h), j # p
         PROVE  s[up[j]].deadline <= s[j].deadline
    <3>1. CASE j = i
      BY <1>1, <2>2, <2>3, <2>4, <2>9, <3>1
    <3>2. CASE j # i /\ up[j] = p
      <4>1. h[p].deadline <= h[j].deadline
        BY <2>7, <3>2
      <4>2. s[j] = h[j] /\ s[up[j]] = h[i]
        BY <2>3, <2>6, <2>10, <3>2
      <4>3. QED
        BY <1>1, <2>2, <2>4, <2>6, <4>1, <4>2
    <3>3. CASE j # i /\ up[j] = i
      BY <2>3, <2>6, <2>8, <2>10, <3>3
    <3>4. CASE j # i /\ up[j] # i /\ up[j] # p
      BY <2>3, <2>6, <2>7, <2>10, <3>4
    <3>5. QED
      BY <3>1, <3>2, <3>3, <3>4
  <2>11. ASSUME NEW j \in 2..Len(h), up[j] = p, p > 1
         PROVE  s[p \div 2].deadline <= s[j].deadline
    <3>1. p \in 2..Len(h) /\ up[p] = p \div 2
      BY <1>1, <2>2, <2>6, <2>11
    <3>2. h[up[p]].deadline <= h[p].deadline
      BY <2>2, <2>7, <3>1
    <3>3. up[p] # i
      <4>1. p \in Nat /\ p >= 2
        BY <2>2, <2>11
      <4>2. up[p] \in 1..(p - 1)
        BY <3>1, <4>1, Parents
      <4>3. QED
        BY <2>2, <4>1, <4>2
    <3>4. s[up[p]] = h[up[p]]
      BY <2>3, <2>6, <3>1, <3>3
    <3>5. CASE j = i
      BY <2>3, <3>1, <3>2, <3>4, <3>5
    <3>6. CASE j # i
      <4>1. h[p].deadline <= h[j].deadline
        BY <2>7, <2>11, <3>6
      <4>2. s[j] = h[j]
        BY <2>3, <2>6, <2>11, <3>6
      <4>3. QED
        BY <1>1, <2>2, <2>6, <3>1, <3>2, <3>4, <4>1, <4>2
    <3>7. QED
      BY <3>5, <3>6
  <2>12. Climb(c).index = p /\ p < i
    BY <1>1, <2>1, <2>2
  <2>13. OrderedBut(s, p) /\ Bridged(s, p)
    BY <2>3, <2>6, <2>10, <2>11 DEF OrderedBut, Bridged
  <2>14. QED
    BY <2>12, <2>13 DEF s, i
<1>4. QED
  BY <1>2, <1>3

\* The new handle is added, the heap stays ordered, and what has expired in
\* it is counted before the handle moves.
LEMMA HeapPushFacts ==
  ASSUME NEW h \in Seq(Handles), NEW x \in Handles
  PROVE  LET pushed == HeapPush(h, x)
         IN  /\ pushed \in Seq(Handles)
             /\ Len(pushed) = Len(h) + 1
             /\ Range(pushed) = Range(h) \cup {x}
             /\ Cardinality(Expired(pushed)) = Cardinality(Expired(Append(h, x)))
             /\ OrderedHeap(h) => OrderedHeap(pushed)
<1> DEFINE a == Append(h, x)
           M == Len(h) + 1
<1>0. PICK f : f = Climbing(h, x)
  OBVIOUS
<1>1. /\ Len(h) \in Nat /\ a \in Seq(Handles) /\ Len(a) = M
      /\ \A i \in 1..Len(h) : a[i] = h[i]
  BY AppendProperties, LenProperties
<1>2. f[0] = [heap |-> a, index |-> M] /\ \A n \in Nat : f[n + 1] = Climb(f[n])
  BY <1>0, ClimbingSteps
<1>3. f[0] \in Places /\ f[0].heap = a /\ f[0].index = M
  <2> HIDE DEF a
  <2>1. f[0].heap = a /\ f[0].index = M
    BY <1>2
  <2>2. M \in Nat /\ M \in 1..Len(a)
    BY <1>1
  <2>3. [heap |-> a, index |-> M] \in Places
    BY <1>1, <2>2 DEF Places
  <2>4. QED
    BY <1>2, <2>1, <2>3
<1> DEFINE Same(c) == /\ c \in Places /\ Len(c.heap) = M /\ Range(c.heap) = Range(a)
                      /\ Cardinality(Expired(c.heap)) = Cardinality(Expired(a))
           Kept == {n \in Nat : Same(f[n])}
<1>4. Nat \subseteq Kept
  <2>1. 0 \in Kept
    <3>1. Same(f[0])
      BY <1>1, <1>3
    <3> HIDE DEF Same
    <3>2. QED
      BY <3>1
  <2>2. ASSUME NEW n \in Nat, n \in Kept
        PROVE  n + 1 \in Kept
    <3>1. Same(f[n])
      BY <2>2
    <3>2. Same(Climb(f[n]))
      BY <3>1, ClimbFacts
    <3> HIDE DEF Same
    <3>3. QED
      BY <1>2, <3>2
  <2>3. QED
    <3> HIDE DEF Kept
    <3>1. QED
      BY <2>1, <2>2, Induction
<1>5. ASSUME OrderedHeap(h)
      PROVE  OrderedHeap(f[Len(h)].heap)
  <2> DEFINE Good(n) == /\ OrderedBut(f[n].heap, f[n].index)
                        /\ Bridged(f[n].heap, f[n].index)
                        /\ f[n].index + n <= M \/ OrderedHeap(f[n].heap)
             Goods == {n \in Nat : Good(n)}
  <2>1. 0 \in Goods
    <3>1. OrderedBut(a, M)
      <4>1. SUFFICES ASSUME NEW i \in 2..M, i # M
                     PROVE  a[i \div 2].deadline <= a[i].deadline
        BY <1>1 DEF OrderedBut
      <4>2. i \in Nat /\ i >= 2 /\ i <= Len(h)
        BY <1>1, <4>1
      <4>3. i \div 2 \in 1..(i - 1)
        BY <4>2, Parents
      <4>4. i \in 2..Len(h) /\ i \in 1..Len(h) /\ i \div 2 \in 1..Len(h)
        BY <1>1, <4>2, <4>3
      <4>5. QED
        BY <1>1, <1>5, <4>4 DEF OrderedHeap
    <3>2. Bridged(a, M)
      <4>1. SUFFICES ASSUME NEW i \in 2..M, i \div 2 = M
                     PROVE  FALSE
        BY <1>1 DEF Bridged
      <4>2. QED
        BY <1>1, <4>1
    <3>3. Good(0)
      BY <1>1, <1>3, <3>1, <3>2
    <3> HIDE DEF Good
    <3>4. QED
      BY <3>3
  <2>2. ASSUME NEW n \in Nat, n \in Goods
        PROVE  n + 1 \in Goods
    <3>1. f[n] \in Places /\ f[n + 1] \in Places /\ f[n + 1] = Climb(f[n])
      <4>1. n \in Kept /\ n + 1 \in Kept
        BY <1>4
      <4>2. QED
        BY <1>2, <4>1
    <3>2. f[n].index \in Nat /\ f[n + 1].index \in Nat
      BY <3>1 DEF Places
    <3>3. /\ OrderedBut(f[n + 1].heap, f[n + 1].index)
          /\ Bridged(f[n + 1].heap, f[n + 1].index)
          /\ \/ f[n + 1].index < f[n].index
             \/ f[n + 1] = f[n] /\ OrderedHeap(f[n].heap)
      BY <2>2, <3>1, ClimbKeepsOrder
    <3>4. OrderedHeap(f[n].heap) => OrderedHeap(f[n + 1].heap)
      <4>1. ASSUME OrderedHeap(f[n].heap)
            PROVE  Climb(f[n]) = f[n]
        <5>1. f[n].index # 1 => f[n].index \in 2..Len(f[n].heap)
          BY <3>1 DEF Places
        <5>2. QED
          BY <4>1, <5>1 DEF OrderedHeap, Climb
      <4>2. QED
        BY <3>1, <4>1
    <3>5. f[n + 1].index + (n + 1) <= M \/ OrderedHeap(f[n + 1].heap)
      BY <1>1, <2>2, <3>2, <3>3, <3>4
    <3>6. QED
      BY <3>3, <3>5
  <2>3. Nat \subseteq Goods
    <3> HIDE DEF Goods
    <3>1. QED
      BY <2>1, <2>2, Induction
  <2>4. Good(Len(h)) /\ f[Len(h)] \in Places
    BY <1>1, <1>4, <2>3
  <2>5. CASE f[Len(h)].index + Len(h) <= M
    <3>1. f[Len(h)].index = 1
      BY <1>1, <2>4, <2>5 DEF Places
    <3>2. QED
      BY <2>4, <3>1 DEF OrderedBut, OrderedHeap
  <2>6. QED
    BY <2>4, <2>5
<1>6. Range(a) = Range(h) \cup {x}
  BY RangeOfAppend
<1>7. HeapPush(h, x) = f[Len(h)].heap /\ Same(f[Len(h)])
  BY <1>0, <1>1, <1>4 DEF HeapPush
<1>8. QED
  BY <1>5, <1>6, <1>7 DEF Places

-----------------------------------------------------------------------------
(* heapPop.                                                                *)

\* The child that a handle changes places with is earlier than it and not
\* later than its other child; without one, both children are in order.
LEMMA EarlierChildrenFacts ==
  ASSUME NEW h \in Seq(Handles), NEW i \in 1..Len(h)
  PROVE  /\ \A j \in EarlierChildren(h, i) :
              /\ j \in 2..Len(h) /\ j \div 2 = i /\ i < j
              /\ h[j].deadline < h[i].deadline
              /\ \A m \in 2..Len(h) : m \div 2 = i => h[j].deadline <= h[m].deadline
         /\ EarlierChildren(h, i) = {} =>
              \A m \in 2..Len(h) : m \div 2 = i => h[i].deadline <= h[m].deadline
<1>1. /\ Len(h) \in Nat /\ DOMAIN h = 1..Len(h)
      /\ \A m \in 1..Len(h) : h[m].deadline \in Nat
  <2>1. \A m \in 1..Len(h) : h[m] \in Handles
    BY ElementOfSeq
  <2>2. QED
    BY <2>1, LenProperties DEF Handles
<1>2. PICK C : C = {2 * i, 2 * i + 1} \cap DOMAIN h
  OBVIOUS
<1>3. /\ 2 * i \in Nat /\ 2 * i + 1 \in Nat /\ i < 2 * i
      /\ (2 * i) \div 2 = i /\ (2 * i + 1) \div 2 = i
  <2>1. i \in Nat \ {0}
    BY <1>1
  <2>2. QED
    BY <2>1, Children
<1>4. \A m \in 2..Len(h) : m \div 2 = i <=> m \in C
  <2>1. SUFFICES ASSUME NEW m \in 2..Len(h)
                 PROVE  m \div 2 = i <=> m \in C
    OBVIOUS
  <2>2. m \in Nat /\ m >= 2 /\ m \in 1..Len(h)
    BY <1>1
  <2>3. m = 2 * (m \div 2) \/ m = 2 * (m \div 2) + 1
    BY <2>2, Parents
  <2>4. QED
    BY <1>1, <1>2, <1>3, <2>2, <2>3
<1>5. \A m \in C : m \in 2..Len(h) /\ i < m /\ h[m].deadline \in Nat
  BY <1>1, <1>2, <1>3
<1>6. h[i].deadline \in Nat
  BY <1>1
<1>7. EarlierChildren(h, i) =
        {j \in C : /\ h[j].deadline < h[i].deadline
                   /\ \A s \in C : \/ h[j].deadline < h[s].deadline
                                   \/ h[j].deadline = h[s].deadline /\ j <= s}
  BY <1>2, Zenon DEF EarlierChildren
<1>8. ASSUME NEW j \in EarlierChildren(h, i)
      PROVE  /\ j \in 2..Len(h) /\ j \div 2 = i /\ i < j
             /\ h[j].deadline < h[i].deadline
             /\ \A m \in 2..Len(h) : m \div 2 = i => h[j].deadline <= h[m].deadline
  <2>1. j \in C /\ h[j].deadline < h[i].deadline
    BY <1>7, <1>8
  <2>2. \A s \in C : h[j].deadline <= h[s].deadline
    BY <1>5, <1>7, <1>8
  <2>3. QED
    BY <1>4, <1>5, <2>1, <2>2
<1>9. ASSUME EarlierChildren(h, i) = {}, NEW m \in C, h[m].deadline < h[i].deadline
      PROVE  FALSE
  <2>1. PICK o \in C : \/ h[o].deadline < h[m].deadline
                       \/ h[m].deadline = h[o].deadline /\ ~(m <= o)
    BY <1>5, <1>7, <1>9
  <2>2. C \subseteq {m, o}
    BY <1>2, <1>3, <1>5, <2>1
  <2>3. o \in EarlierChildren(h, i)
    <3>1. h[o].deadline < h[i].deadline
      BY <1>5, <1>6, <1>9, <2>1
    <3>2. \A s \in C : \/ h[o].deadline < h[s].deadline
                       \/ h[o].deadline = h[s].deadline /\ o <= s
      BY <1>5, <2>1, <2>2
    <3>3. QED
      BY <1>7, <2>1, <3>1, <3>2
  <2>4. QED
    BY <1>9, <2>3
<1>10. EarlierChildren(h, i) = {} =>
         \A m \in 2..Len(h) : m \div 2 = i => h[i].deadline <= h[m].deadline
  BY <1>4, <1>5, <1>6, <1>9
<1>11. QED
  BY <1>8, <1>10

LEMMA SinkFacts ==
  ASSUME NEW c \in Places
  PROVE  /\ Sink(c) \in Places /\ Len(Sink(c).heap) = Len(c.heap)
         /\ Range(Sink(c).heap) = Range(c.heap)
         /\ Cardinality(Expired(Sink(c).heap)) = Cardinality(Expired(c.heap))
<1>1. c.heap \in Seq(Handles) /\ Len(c.heap) \in Nat /\ c.index \in 1..Len(c.heap)
  BY LenProperties DEF Places
<1>2. CASE EarlierChildren(c.heap, c.index) = {}
  BY <1>2 DEF Sink
<1>3. CASE EarlierChildren(c.heap, c.index) # {}
  <2>1. PICK child : child = CHOOSE j \in EarlierChildren(c.heap, c.index) : TRUE
    OBVIOUS
  <2>2. child \in 1..Len(c.heap) /\ child \in Nat
    <3>1. child \in EarlierChildren(c.heap, c.index)
      BY <1>3, <2>1
    <3>2. child \in 2..Len(c.heap)
      BY <1>1, <3>1, EarlierChildrenFacts
    <3>3. QED
      BY <1>1, <3>2
  <2>3. Sink(c) = [heap |-> Swapped(c.heap, c.index, child), index |-> child]
    BY <1>3, <2>1 DEF Sink
  <2>4. QED
    BY <1>1, <2>2, <2>3, SwappedFacts DEF Places
<1>4. QED
  BY <1>2, <1>3

LEMMA SinkingSteps ==
  ASSUME NEW h \in Seq(Handles), h # <<>>
  PROVE  /\ Sinking(h)[0] = [heap |-> h, index |-> 1]
         /\ \A n \in Nat : Sinking(h)[n + 1] = Sink(Sinking(h)[n])
<1>1. PICK a : a = [heap |-> h, index |-> 1]
  OBVIOUS
<1>2. a \in Places
  <2>1. Len(h) \in Nat /\ Len(h) # 0
    BY LenProperties, EmptySeq
  <2>2. QED
    BY <1>1, <2>1 DEF Places
<1>3. PICK step : step = [c \in Places |-> Sink(c)]
  OBVIOUS
<1>4. step \in [Places -> Places]
  BY <1>3, SinkFacts
<1>5. PICK f : Repeats(f, Places, step, a)
  BY <1>2, <1>4, Iteration
<1>6. /\ f \in [Nat -> Places] /\ f[0] = a
      /\ \A n \in Nat : f[n + 1] = Sink(f[n])
  BY <1>3, <1>5 DEF Repeats
<1>7. f = [n \in Nat |-> IF n = 0 THEN a ELSE Sink(f[n - 1])]
  <2>1. \A n \in Nat : n # 0 => n - 1 \in Nat /\ (n - 1) + 1 = n
    OBVIOUS
  <2>2. \A n \in Nat : f[n] = IF n = 0 THEN a ELSE Sink(f[n - 1])
    BY <1>6, <2>1
  <2>3. QED
    BY <1>6, <2>2
<1>8. Sinking(h) = [n \in Nat |-> IF n = 0 THEN a ELSE Sink(Sinking(h)[n - 1])]
  BY <1>1, <1>7, Zenon DEF Sinking
<1>9. QED
  <2>1. \A n \in Nat : n + 1 \in Nat /\ n + 1 # 0 /\ (n + 1) - 1 = n
    OBVIOUS
  <2>2. PICK g : g = Sinking(h)
    OBVIOUS
  <2>3. g = [n \in Nat |-> IF n = 0 THEN a ELSE Sink(g[n - 1])]
    BY <1>8, <2>2, Zenon
  <2>4. g[0] = a
    BY <2>3
  <2>5. ASSUME NEW n \in Nat
        PROVE  g[n + 1] = Sink(g[n])
    BY <2>1, <2>3
  <2>6. QED
    BY <1>1, <2>2, <2>4, <2>5, Zenon

\* Every handle whose parent is not at "index" is where it belongs.
OrderedUnder(h, index) ==
  \A i \in 2..Len(h) : i \div 2 # index => h[i \div 2].deadline <= h[i].deadline

\* A round moves the one handle that may be out of place down, or ends.
LEMMA SinkKeepsOrder ==
  ASSUME NEW c \in Places, OrderedUnder(c.heap, c.index), Bridged(c.heap, c.index)
  PROVE  /\ OrderedUnder(Sink(c).heap, Sink(c).index)
         /\ Bridged(Sink(c).heap, Sink(c).index)
         /\ \/ Sink(c).index > c.index
            \/ Sink(c) = c /\ EarlierChildren(c.heap, c.index) = {}
<1> DEFINE h == c.heap
           i == c.index
           s == Sink(c).heap
<1>1. /\ h \in Seq(Handles) /\ Len(h) \in Nat /\ i \in 1..Len(h)
      /\ \A m \in 1..Len(h) : h[m].deadline \in Nat
  <2>1. h \in Seq(Handles) /\ i \in 1..Len(h)
    BY DEF Places
  <2>2. \A m \in 1..Len(h) : h[m] \in Handles
    BY <2>1, ElementOfSeq
  <2>3. QED
    BY <2>1, <2>2, LenProperties DEF Handles
<1>2. CASE EarlierChildren(h, i) = {}
  BY <1>2 DEF Sink
<1>3. CASE EarlierChildren(h, i) # {}
  <2>1. PICK p : p = CHOOSE j \in EarlierChildren(h, i) : TRUE
    OBVIOUS
  <2>2. Sink(c) = [heap |-> Swapped(h, i, p), index |-> p]
    BY <1>3, <2>1 DEF Sink
  <2>3. /\ p \in 2..Len(h) /\ p \div 2 = i /\ i < p /\ h[p].deadline < h[i].deadline
        /\ \A m \in 2..Len(h) : m \div 2 = i => h[p].deadline <= h[m].deadline
    <3>1. p \in EarlierChildren(h, i)
      BY <1>3, <2>1
    <3> HIDE DEF h, i
    <3>2. QED
      BY <1>1, <3>1, EarlierChildrenFacts
  <2>4. /\ Len(s) = Len(h) /\ s[i] = h[p] /\ s[p] = h[i]
        /\ \A m \in 1..Len(h) : m # i /\ m # p => s[m] = h[m]
    <3>1. s = Swapped(h, i, p)
      BY <2>2
    <3>2. p \in 1..Len(h)
      BY <1>1, <2>3
    <3> HIDE DEF h, i, s
    <3>3. QED
      BY <1>1, <3>1, <3>2, SwappedFacts
  <2>5. \A j \in 2..Len(h) : j \in 1..Len(h) /\ j \div 2 \in 1..Len(h) /\ j \div 2 # j
    <3>1. SUFFICES ASSUME NEW j \in 2..Len(h)
                   PROVE  j \in 1..Len(h) /\ j \div 2 \in 1..Len(h) /\ j \div 2 # j
      OBVIOUS
    <3>2. j \in Nat /\ j >= 2 /\ j <= Len(h)
      BY <1>1
    <3>3. j \div 2 \in 1..(j - 1)
      BY <3>2, Parents
    <3>4. QED
      BY <1>1, <3>2, <3>3
  <2> DEFINE up == [j \in 2..Len(h) |-> j \div 2]
  <2>6. \A j \in 2..Len(h) : /\ up[j] = j \div 2 /\ up[j] \in 1..Len(h) /\ up[j] # j
                             /\ j \in 1..Len(h)
    BY <2>5
  <2>7. \A j \in 2..Len(h) : up[j] # i => h[up[j]].deadline <= h[j].deadline
    BY <2>6 DEF OrderedUnder
  <2>8. i > 1 => \A j \in 2..Len(h) : up[j] = i => h[i \div 2].deadline <= h[j].deadline
    BY <1>1, <2>6 DEF Bridged
  <2>9. i > 1 => i \in 2..Len(h) /\ up[i] = i \div 2
    BY <1>1
  <2>10. up[p] = i /\ p \in 1..Len(h)
    BY <2>3, <2>6
  <2>11. \A j \in 2..Len(h) : up[j] = i => h[p].deadline <= h[j].deadline
    BY <2>3, <2>6
  <2> HIDE DEF up, h, i, s
  <2>12. ASSUME NEW j \in 2..Len(h), up[j] # p
         PROVE  s[up[j]].deadline <= s[j].deadline
    <3>1. CASE j = p
      BY <1>1, <2>3, <2>4, <2>10, <3>1
    <3>2. CASE j # p /\ up[j] = i
      <4>1. s[j] = h[j] /\ s[up[j]] = h[p]
        BY <2>4, <2>6, <3>2
      <4>2. QED
        BY <2>11, <3>2, <4>1
    <3>3. CASE j = i
      <4>1. i > 1 /\ j \div 2 = up[j]
        BY <1>1, <2>6, <3>3
      <4>2. h[up[j]].deadline <= h[p].deadline
        BY <2>3, <2>8, <2>10, <3>3, <4>1
      <4>3. s[up[j]] = h[up[j]]
        BY <2>4, <2>6, <2>12, <3>3
      <4>4. QED
        BY <2>4, <3>3, <4>2, <4>3
    <3>4. CASE j # p /\ j # i /\ up[j] # i
      BY <2>4, <2>6, <2>7, <2>12, <3>4
    <3>5. QED
      BY <3>1, <3>2, <3>3, <3>4
  <2>13. ASSUME NEW j \in 2..Len(h), up[j] = p
         PROVE  s[i].deadline <= s[j].deadline
    <3>1. h[p].deadline <= h[j].deadline
      BY <1>1, <2>3, <2>7, <2>13
    <3>2. j # p
      BY <2>6, <2>13
    <3>3. j # i
      <4>1. j \in Nat /\ j >= 2 /\ up[j] = j \div 2
        BY <1>1, <2>6
      <4>2. p \in 1..(j - 1)
        BY <2>13, <4>1, Parents
      <4>3. QED
        BY <1>1, <2>3, <4>1, <4>2
    <3>4. s[j] = h[j]
      BY <2>4, <2>6, <3>2, <3>3
    <3>5. QED
      BY <2>4, <3>1, <3>4
  <2>14. Sink(c).index = p /\ p > i
    BY <1>1, <2>2, <2>3
  <2>15. OrderedUnder(s, p) /\ Bridged(s, p)
    BY <2>3, <2>4, <2>6, <2>12, <2>13 DEF OrderedUnder, Bridged
  <2>16. QED
    BY <2>14, <2>15 DEF s, i
<1>4. QED
  BY <1>2, <1>3

\* What sinks from the root: the array without its last place, and the handle
\* of that place in the root.
LEMMA Rerooted ==
  ASSUME NEW h \in Seq(Handles), Len(h) > 1
  PROVE  LET g == [Front(h) EXCEPT ![1] = Last(h)]
         IN  /\ g \in Seq(Handles) /\ Len(g) = Len(h) - 1 /\ g # <<>>
             /\ g[1] = h[Len(h)] /\ \A i \in 2..(Len(h) - 1) : g[i] = h[i]
             /\ Range(g) \subseteq Range(h) /\ Range(h) \subseteq Range(g) \cup {Head(h)}
             /\ h[1].deadline <= now =>
                  Cardinality(Expired(g)) = Cardinality(Expired(h)) - 1
<1>1. PICK L : L = Len(h)
  OBVIOUS
<1>2. L \in Nat /\ L > 1 /\ DOMAIN h = 1..L /\ \A i \in 1..L : h[i] \in Handles
  BY <1>1, LenProperties, ElementOfSeq
<1>3. PICK g : g = [Front(h) EXCEPT ![1] = Last(h)]
  OBVIOUS
<1>4. /\ Front(h) \in Seq(Handles) /\ Len(Front(h)) = L - 1
      /\ \A i \in 1..(L - 1) : Front(h)[i] = h[i]
  <2>1. Front(h) = SubSeq(h, 1, L - 1)
    BY <1>1 DEF Front
  <2>2. 1 \in Nat /\ L - 1 \in Nat /\ \A i \in 1..(L - 1) : h[i] \in Handles
    BY <1>2
  <2>3. QED
    BY <1>1, <1>2, <2>1, <2>2, SubSeqProperties
<1>5. DOMAIN Front(h) = 1..(L - 1) /\ 1 \in 1..(L - 1)
  BY <1>2, <1>4, LenProperties
<1>6. DOMAIN g = 1..(L - 1) /\ g[1] = h[L] /\ \A i \in 2..(L - 1) : g[i] = h[i]
  <2>1. Last(h) = h[L]
    BY <1>1 DEF Last
  <2>2. \A i \in 2..(L - 1) : i \in 1..(L - 1) /\ i # 1
    BY <1>2
  <2>3. QED
    BY <1>3, <1>4, <1>5, <2>1, <2>2
<1>7. \A i \in 1..(L - 1) : i = 1 \/ i \in 2..(L - 1)
  BY <1>2
<1>8. g \in Seq(Handles) /\ Len(g) = L - 1 /\ g # <<>>
  <2>1. \A i \in 1..(L - 1) : g[i] \in Handles
    BY <1>2, <1>6, <1>7
  <2>2. g = [i \in 1..(L - 1) |-> g[i]]
    BY <1>3, <1>5
  <2>3. g \in [1..(L - 1) -> Handles] /\ L - 1 \in Nat
    BY <1>2, <2>1, <2>2
  <2>4. g \in Seq(Handles)
    BY <2>3, SeqDef
  <2>5. QED
    BY <1>2, <1>6, <2>4, LenProperties, EmptySeq
<1>9. Range(g) \subseteq Range(h)
  <2>1. \A i \in 1..(L - 1) : \E j \in 1..L : g[i] = h[j]
    BY <1>2, <1>6, <1>7
  <2>2. QED
    BY <1>2, <1>6, <2>1 DEF Range
<1>10. Range(h) \subseteq Range(g) \cup {Head(h)}
  <2>1. Head(h) = h[1]
    BY <1>1, <1>2, EmptySeq, LenProperties
  <2>2. \A j \in 1..L : j = 1 \/ j = L \/ j \in 2..(L - 1)
    BY <1>2
  <2>3. \A j \in 1..L : j = 1 \/ \E i \in 1..(L - 1) : g[i] = h[j]
    <3>1. \A j \in 2..(L - 1) : j \in 1..(L - 1)
      BY <1>2
    <3>2. QED
      BY <1>5, <1>6, <2>2, <3>1
  <2>4. QED
    BY <1>2, <1>6, <2>1, <2>3 DEF Range
<1>11. ASSUME h[1].deadline <= now
       PROVE  Cardinality(Expired(g)) = Cardinality(Expired(h)) - 1
  <2>1. /\ \A i \in 1..L : i \in Expired(h) <=> h[i].deadline <= now
        /\ \A i \in 1..(L - 1) : i \in Expired(g) <=> g[i].deadline <= now
        /\ Expired(h) \subseteq 1..L /\ Expired(g) \subseteq 1..(L - 1)
    BY <1>2, <1>6 DEF Expired
  <2>2. IsFiniteSet(Expired(h))
    <3>1. IsFiniteSet(1..L)
      BY <1>2, FS_Interval
    <3>2. QED
      BY <2>1, <3>1, FS_Subset
  <2>3. 1 \in Expired(h)
    BY <1>2, <1>11, <2>1
  <2>4. \A i \in 2..(L - 1) : i \in Expired(g) <=> i \in Expired(h)
    <3>1. \A i \in 2..(L - 1) : i \in 1..L /\ i \in 1..(L - 1)
      BY <1>2
    <3>2. QED
      BY <1>6, <2>1, <3>1
  <2>5. 1 \in Expired(g) <=> L \in Expired(h)
    BY <1>2, <1>5, <1>6, <2>1
  <2>6. \A i \in 1..L : i = 1 \/ i = L \/ i \in 2..(L - 1)
    BY <1>2
  <2>7. 1 # L /\ L \notin 1..(L - 1) /\ L \notin 2..(L - 1) /\ 1 \notin 2..(L - 1)
    BY <1>2
  <2>8. CASE L \in Expired(h)
    <3>1. \A i : i \in Expired(g) <=> i \in Expired(h) \ {L}
      <4>1. SUFFICES ASSUME NEW i
                     PROVE  i \in Expired(g) <=> i \in Expired(h) \ {L}
        OBVIOUS
      <4>2. CASE i = 1
        BY <2>3, <2>5, <2>7, <2>8, <4>2
      <4>3. CASE i \in 2..(L - 1)
        BY <2>4, <2>7, <4>3
      <4>4. CASE i # 1 /\ i \notin 2..(L - 1)
        BY <1>7, <2>1, <2>6, <4>4
      <4>5. QED
        BY <4>2, <4>3, <4>4
    <3>2. Expired(g) = Expired(h) \ {L}
      BY <3>1
    <3>3. QED
      BY <2>2, <2>8, <3>2, FS_RemoveElement
  <2>9. CASE L \notin Expired(h)
    <3>1. \A i : i \in Expired(g) <=> i \in Expired(h) \ {1}
      <4>1. SUFFICES ASSUME NEW i
                     PROVE  i \in Expired(g) <=> i \in Expired(h) \ {1}
        OBVIOUS
      <4>2. CASE i = 1
        BY <2>5, <2>9, <4>2
      <4>3. CASE i \in 2..(L - 1)
        BY <2>4, <2>7, <4>3
      <4>4. CASE i # 1 /\ i \notin 2..(L - 1)
        BY <1>7, <2>1, <2>6, <2>9, <4>4
      <4>5. QED
        BY <4>2, <4>3, <4>4
    <3>2. Expired(g) = Expired(h) \ {1}
      BY <3>1
    <3>3. QED
      BY <2>2, <2>3, <3>2, FS_RemoveElement
  <2>10. QED
    BY <2>8, <2>9
<1>12. QED
  BY <1>1, <1>3, <1>6, <1>8, <1>9, <1>10, <1>11

\* The head goes and nothing else, the heap stays ordered, and there is one
\* expired handle less if the head has expired.
LEMMA HeapPopFacts ==
  ASSUME NEW h \in Seq(Handles), h # <<>>
  PROVE  LET popped == HeapPop(h)
         IN  /\ popped \in Seq(Handles)
             /\ Range(popped) \subseteq Range(h)
             /\ Range(h) \subseteq Range(popped) \cup {Head(h)}
             /\ OrderedHeap(h) => OrderedHeap(popped)
             /\ Head(h).deadline <= now =>
                  Cardinality(Expired(popped)) = Cardinality(Expired(h)) - 1
<1>1. Len(h) \in Nat /\ Len(h) # 0 /\ Head(h) = h[1] /\ DOMAIN h = 1..Len(h)
  BY EmptySeq, LenProperties
<1>2. CASE Len(h) = 1
  <2>1. HeapPop(h) = <<>>
    BY <1>2 DEF HeapPop
  <2>2. <<>> \in Seq(Handles) /\ Range(<<>>) = {} /\ OrderedHeap(<<>>)
    BY DEF Range, OrderedHeap
  <2>3. Range(h) = {Head(h)}
    BY <1>1, <1>2 DEF Range
  <2>4. ASSUME h[1].deadline <= now
        PROVE  Cardinality(Expired(<<>>)) = Cardinality(Expired(h)) - 1
    <3>1. Expired(h) = {1}
      BY <1>1, <1>2, <2>4 DEF Expired
    <3>2. Expired(<<>>) = {}
      BY DEF Expired
    <3>3. Cardinality(Expired(<<>>)) = 0 /\ Cardinality({1}) = 1
      <4>1. Cardinality({}) = 0
        BY FS_EmptySet
      <4>2. Cardinality({1}) = 1
        BY FS_Singleton
      <4>3. QED
        BY <3>2, <4>1, <4>2
    <3>4. QED
      BY <3>1, <3>3
  <2>5. QED
    BY <1>1, <2>1, <2>2, <2>3, <2>4
<1>3. CASE Len(h) # 1
  <2>1. PICK a : a = [Front(h) EXCEPT ![1] = Last(h)]
    OBVIOUS
  <2>2. Len(h) > 1
    BY <1>1, <1>3
  <2>3. PICK M : M = Len(h) - 1
    OBVIOUS
  <2>4. /\ a \in Seq(Handles) /\ Len(a) = M /\ a # <<>>
        /\ a[1] = h[Len(h)] /\ \A i \in 2..M : a[i] = h[i]
        /\ Range(a) \subseteq Range(h) /\ Range(h) \subseteq Range(a) \cup {Head(h)}
        /\ h[1].deadline <= now => Cardinality(Expired(a)) = Cardinality(Expired(h)) - 1
    BY <2>1, <2>2, <2>3, Rerooted
  <2>5. M \in Nat /\ M >= 1
    BY <1>1, <1>3, <2>3
  <2>6. PICK f : f = Sinking(a)
    OBVIOUS
  <2>7. f[0] = [heap |-> a, index |-> 1] /\ \A n \in Nat : f[n + 1] = Sink(f[n])
    BY <2>4, <2>6, SinkingSteps
  <2>8. f[0] \in Places /\ f[0].heap = a /\ f[0].index = 1
    <3>1. [heap |-> a, index |-> 1] \in Places
      BY <2>4, <2>5 DEF Places
    <3>2. QED
      BY <2>7, <3>1
  <2> DEFINE Same(c) == /\ c \in Places /\ Len(c.heap) = M /\ Range(c.heap) = Range(a)
                        /\ Cardinality(Expired(c.heap)) = Cardinality(Expired(a))
             Kept == {n \in Nat : Same(f[n])}
  <2>9. Nat \subseteq Kept
    <3>1. 0 \in Kept
      <4>1. Same(f[0])
        BY <2>4, <2>8
      <4> HIDE DEF Same
      <4>2. QED
        BY <4>1
    <3>2. ASSUME NEW n \in Nat, n \in Kept
          PROVE  n + 1 \in Kept
      <4>1. Same(f[n])
        BY <3>2
      <4>2. Same(Sink(f[n]))
        BY <4>1, SinkFacts
      <4> HIDE DEF Same
      <4>3. QED
        BY <2>7, <4>2
    <3>3. QED
      <4> HIDE DEF Kept
      <4>1. QED
        BY <3>1, <3>2, Induction
  <2>10. ASSUME OrderedHeap(h)
         PROVE  OrderedHeap(f[Len(h)].heap)
    <3> DEFINE Good(n) == /\ OrderedUnder(f[n].heap, f[n].index)
                          /\ Bridged(f[n].heap, f[n].index)
                          /\ \/ f[n].index > n
                             \/ EarlierChildren(f[n].heap, f[n].index) = {}
               Goods == {n \in Nat : Good(n)}
    <3>1. 0 \in Goods
      <4>1. OrderedUnder(a, 1)
        <5>1. SUFFICES ASSUME NEW i \in 2..M, i \div 2 # 1
                       PROVE  a[i \div 2].deadline <= a[i].deadline
          BY <2>4 DEF OrderedUnder
        <5>2. i \in Nat /\ i >= 2 /\ i <= M
          BY <2>5
        <5>3. i \div 2 \in 1..(i - 1)
          BY <5>2, Parents
        <5>4. i \in 2..Len(h) /\ i \div 2 \in 2..M
          BY <1>1, <2>3, <2>5, <5>1, <5>2, <5>3
        <5>5. QED
          BY <2>4, <2>10, <5>4 DEF OrderedHeap
      <4>2. Bridged(a, 1)
        BY DEF Bridged
      <4>3. Good(0)
        BY <2>8, <4>1, <4>2
      <4> HIDE DEF Good
      <4>4. QED
        BY <4>3
    <3>2. ASSUME NEW n \in Nat, n \in Goods
          PROVE  n + 1 \in Goods
      <4>1. f[n] \in Places /\ f[n + 1] \in Places /\ f[n + 1] = Sink(f[n])
        <5>1. n \in Kept /\ n + 1 \in Kept
          BY <2>9
        <5>2. QED
          BY <2>7, <5>1
      <4>2. f[n].index \in Nat /\ f[n + 1].index \in Nat
        BY <4>1 DEF Places
      <4>3. /\ OrderedUnder(f[n + 1].heap, f[n + 1].index)
            /\ Bridged(f[n + 1].heap, f[n + 1].index)
            /\ \/ f[n + 1].index > f[n].index
               \/ f[n + 1] = f[n] /\ EarlierChildren(f[n].heap, f[n].index) = {}
        BY <3>2, <4>1, SinkKeepsOrder
      <4>4. EarlierChildren(f[n].heap, f[n].index) = {} => f[n + 1] = f[n]
        BY <4>1 DEF Sink
      <4>5. \/ f[n + 1].index > n + 1
            \/ EarlierChildren(f[n + 1].heap, f[n + 1].index) = {}
        BY <3>2, <4>2, <4>3, <4>4
      <4>6. QED
        BY <4>3, <4>5
    <3>3. Nat \subseteq Goods
      <4> HIDE DEF Goods
      <4>1. QED
        BY <3>1, <3>2, Induction
    <3>4. Good(Len(h)) /\ Same(f[Len(h)])
      BY <1>1, <2>9, <3>3
    <3>5. f[Len(h)].heap \in Seq(Handles) /\ f[Len(h)].index \in 1..M
      BY <3>4 DEF Places
    <3>6. EarlierChildren(f[Len(h)].heap, f[Len(h)].index) = {}
      <4>1. ~(f[Len(h)].index > Len(h))
        BY <1>1, <2>3, <2>5, <3>5
      <4>2. QED
        BY <3>4, <4>1
    <3>7. \A m \in 2..M : m \div 2 = f[Len(h)].index =>
            f[Len(h)].heap[f[Len(h)].index].deadline <= f[Len(h)].heap[m].deadline
      BY <3>4, <3>5, <3>6, EarlierChildrenFacts
    <3>8. QED
      BY <3>4, <3>7 DEF OrderedUnder, OrderedHeap
  <2>11. HeapPop(h) = f[Len(h)].heap /\ Same(f[Len(h)])
    <3>1. HeapPop(h) = Sinking(a)[Len(h)].heap
      BY <1>3, <2>1, Zenon DEF HeapPop
    <3>2. Len(h) \in Kept
      BY <1>1, <2>9
    <3>3. QED
      BY <2>4, <2>6, <3>1, <3>2
  <2>12. f[Len(h)].heap \in Seq(Handles)
    BY <2>11 DEF Places
  <2> HIDE DEF Kept
  <2>13. QED
    BY <1>1, <2>4, <2>10, <2>11, <2>12
<1>4. QED
  BY <1>2, <1>3

-----------------------------------------------------------------------------
(* A pass of collectExpired, round by round.                               *)

Passes == [tracked : Tables, heap : Seq(Handles), retryCount : [Keys -> Nat],
           entry : [Keys -> Entries], decisions : Seq(Decisions)]

Expiring(p) == p.heap # <<>> /\ Head(p.heap).deadline <= now

PassOf(t, h, r, e, ds) ==
  [tracked |-> t, heap |-> h, retryCount |-> r, entry |-> e, decisions |-> ds]

Queued(e, k)         == [e EXCEPT ![k] = "queued"]
Counted(r, k)        == [r EXCEPT ![k] = @ + 1]
Renewed(t, k, g, d)  == [t EXCEPT ![k] = [generation |-> g, deadline |-> d]]
With(ds, k, action)  == Append(ds, [key |-> k, action |-> action])

\* A round pops a handle that no longer counts, or retries its entry, or gives
\* the entry up.
Pops(p, q) ==
  /\ Expiring(p) /\ Stale(p, Head(p.heap))
  /\ q = PassOf(p.tracked, HeapPop(p.heap), p.retryCount, p.entry, p.decisions)

Retries(p, q) ==
  LET h == Head(p.heap)
      k == h.key
      d == now + AckTimeout[k[1]]
      g == h.generation + 1
  IN  /\ Expiring(p) /\ ~Stale(p, h) /\ p.retryCount[k] < MaxRetries
      /\ q = PassOf(Renewed(p.tracked, k, g, d), HeapPush(HeapPop(p.heap), Handle(k, d, g)),
                    Counted(p.retryCount, k), Queued(p.entry, k),
                    With(p.decisions, k, "RETRY"))

GivesUp(p, q) ==
  LET h == Head(p.heap)
      k == h.key
  IN  /\ Expiring(p) /\ ~Stale(p, h) /\ ~(p.retryCount[k] < MaxRetries)
      /\ q = PassOf(Without(p.tracked, {k}), HeapPop(p.heap), p.retryCount,
                    Queued(p.entry, k), With(p.decisions, k, "EXHAUSTED"))

LEMMA TableFacts ==
  ASSUME NEW m
  PROVE  m \in Tables <=> DOMAIN m \subseteq Keys /\ m \in [DOMAIN m -> Registrations]
BY DEF Tables

LEMMA DecidedRecord ==
  ASSUME NEW t, NEW h, NEW r, NEW e, NEW ds, NEW k, NEW action
  PROVE  Decided(PassOf(t, h, r, e, ds), k, action) =
           PassOf(t, h, r, Queued(e, k), With(ds, k, action))
<1>1. PICK p, ds1 : p = PassOf(t, h, r, e, ds) /\ ds1 = With(ds, k, action)
  OBVIOUS
<1>2. PICK p1 : p1 = [p EXCEPT !.entry[k] = "queued"]
  OBVIOUS
<1>3. p1 = PassOf(t, h, r, Queued(e, k), ds)
  BY <1>1, <1>2 DEF PassOf, Queued
<1>4. p.decisions = ds
  BY <1>1 DEF PassOf
<1>5. Decided(p, k, action) = [p1 EXCEPT !.decisions = ds1]
  BY <1>1, <1>2, <1>4 DEF Decided, With
<1>6. [p1 EXCEPT !.decisions = ds1] = PassOf(t, h, r, Queued(e, k), ds1)
  BY <1>3 DEF PassOf
<1>7. QED
  BY <1>1, <1>5, <1>6, Zenon

LEMMA RetryRecord ==
  ASSUME NEW t, NEW h, NEW r, NEW e, NEW ds, NEW k
  PROVE  LET g == t[k].generation + 1
             d == now + AckTimeout[k[1]]
         IN  Retry(PassOf(t, h, r, e, ds), k) =
               PassOf(Renewed(t, k, g, d), HeapPush(h, Handle(k, d, g)), Counted(r, k),
                      Queued(e, k), With(ds, k, "RETRY"))
<1>1. PICK g, d : g = t[k].generation + 1 /\ d = now + AckTimeout[k[1]]
  OBVIOUS
<1>2. PICK p, h1, e1, ds1 : /\ p = PassOf(t, h, r, e, ds) /\ h1 = HeapPush(h, Handle(k, d, g))
                            /\ e1 = Queued(e, k) /\ ds1 = With(ds, k, "RETRY")
  OBVIOUS
<1>3. PICK p1, action : p1 = Decided(p, k, action) /\ action = "RETRY"
  OBVIOUS
<1>4. p1 = PassOf(t, h, r, e1, ds1)
  <2>1. ds1 = With(ds, k, action)
    BY <1>2, <1>3, Zenon
  <2>2. QED
    BY <1>2, <1>3, <2>1, DecidedRecord
<1>5. PICK p2 : p2 = [p1 EXCEPT !.retryCount[k] = @ + 1]
  OBVIOUS
<1>6. p2 = PassOf(t, h, Counted(r, k), e1, ds1)
  BY <1>4, <1>5 DEF PassOf, Counted
<1>7. PICK p3 : p3 = [p2 EXCEPT !.tracked[k] = [generation |-> g, deadline |-> d]]
  OBVIOUS
<1>8. p3 = PassOf(Renewed(t, k, g, d), h, Counted(r, k), e1, ds1)
  BY <1>6, <1>7 DEF PassOf, Renewed
<1>9. Retry(p, k) = [p3 EXCEPT !.heap = h1]
  <2>1. p.tracked = t /\ p1.heap = h
    BY <1>2, <1>4 DEF PassOf
  <2>2. Retry(p, k) =
          [p1 EXCEPT !.retryCount[k] = @ + 1,
                     !.tracked[k] = [generation |-> g, deadline |-> d],
                     !.heap = h1]
    BY <1>1, <1>2, <1>3, <2>1 DEF Retry
  <2>3. QED
    BY <1>5, <1>7, <2>2
<1>10. [p3 EXCEPT !.heap = h1] = PassOf(Renewed(t, k, g, d), h1, Counted(r, k), e1, ds1)
  BY <1>8 DEF PassOf
<1>11. QED
  BY <1>1, <1>2, <1>9, <1>10, Zenon

LEMMA ExhaustedRecord ==
  ASSUME NEW t, NEW h, NEW r, NEW e, NEW ds, NEW k
  PROVE  Exhausted(PassOf(t, h, r, e, ds), k) =
           PassOf(Without(t, {k}), h, r, Queued(e, k), With(ds, k, "EXHAUSTED"))
<1>1. PICK p, t1 : p = PassOf(t, h, r, e, ds) /\ t1 = Without(t, {k})
  OBVIOUS
<1>2. PICK p1, e1, ds1, action :
        /\ p1 = Decided(p, k, action) /\ action = "EXHAUSTED"
        /\ e1 = Queued(e, k) /\ ds1 = With(ds, k, action)
  OBVIOUS
<1>3. p1 = PassOf(t, h, r, e1, ds1)
  BY <1>1, <1>2, DecidedRecord
<1>4. p1.tracked = t
  BY <1>3 DEF PassOf
<1>5. Exhausted(p, k) = [p1 EXCEPT !.tracked = t1]
  BY <1>1, <1>2, <1>4 DEF Exhausted
<1>6. [p1 EXCEPT !.tracked = t1] = PassOf(t1, h, r, e1, ds1)
  BY <1>3 DEF PassOf
<1>7. QED
  BY <1>1, <1>2, <1>5, <1>6, Zenon

LEMMA RoundCases ==
  ASSUME NEW p \in Passes
  PROVE  \/ Expiring(p) /\ (Pops(p, Round(p)) \/ Retries(p, Round(p)) \/ GivesUp(p, Round(p)))
         \/ ~Expiring(p) /\ Round(p) = p
<1>1. p = [tracked |-> p.tracked, heap |-> p.heap, retryCount |-> p.retryCount,
           entry |-> p.entry, decisions |-> p.decisions]
  BY DEF Passes
<1>2. CASE ~Expiring(p)
  BY <1>2 DEF Expiring, Round
<1>3. CASE Expiring(p)
  <2>1. Round(p) = PopHandle(p)
    BY <1>3 DEF Expiring, Round
  <2>2. PICK h : h = Head(p.heap)
    OBVIOUS
  <2>3. PICK rest : rest = [p EXCEPT !.heap = HeapPop(@)]
    OBVIOUS
  <2>4. PICK t, h0, r, e, ds, k : /\ t = p.tracked /\ h0 = HeapPop(p.heap)
                                  /\ r = p.retryCount /\ e = p.entry
                                  /\ ds = p.decisions /\ k = h.key
    BY Zenon
  <2>5. rest = PassOf(t, h0, r, e, ds)
    <3>1. rest = [p EXCEPT !.heap = h0]
      BY <2>3, <2>4
    <3>2. QED
      BY <1>1, <2>4, <3>1 DEF PassOf
  <2>6. CASE Stale(p, h)
    <3>1. Round(p) = rest
      BY <2>1, <2>2, <2>3, <2>6, Zenon DEF PopHandle
    <3>2. QED
      BY <1>3, <2>2, <2>4, <2>5, <2>6, <3>1, Zenon DEF Pops
  <2>7. CASE ~Stale(p, h) /\ r[k] < MaxRetries
    <3>1. Round(p) = Retry(rest, k)
      BY <2>1, <2>2, <2>3, <2>4, <2>7, Zenon DEF PopHandle
    <3>2. PICK g, d : g = h.generation + 1 /\ d = now + AckTimeout[k[1]]
      OBVIOUS
    <3>3. g = t[k].generation + 1
      BY <2>4, <2>7, <3>2 DEF Stale
    <3>4. Retry(rest, k) =
            PassOf(Renewed(t, k, g, d), HeapPush(h0, Handle(k, d, g)), Counted(r, k),
                   Queued(e, k), With(ds, k, "RETRY"))
      BY <2>5, <3>2, <3>3, RetryRecord
    <3>5. Retries(p, Round(p))
      BY <1>3, <2>2, <2>4, <2>7, <3>1, <3>2, <3>4, Zenon DEF Retries
    <3>6. QED
      BY <1>3, <3>5
  <2>8. CASE ~Stale(p, h) /\ ~(r[k] < MaxRetries)
    <3>1. Round(p) = Exhausted(rest, k)
      BY <2>1, <2>2, <2>3, <2>4, <2>8, Zenon DEF PopHandle
    <3>2. Exhausted(rest, k) =
            PassOf(Without(t, {k}), h0, r, Queued(e, k), With(ds, k, "EXHAUSTED"))
      BY <2>5, ExhaustedRecord
    <3>3. GivesUp(p, Round(p))
      BY <1>3, <2>2, <2>4, <2>8, <3>1, <3>2, Zenon DEF GivesUp
    <3>4. QED
      BY <1>3, <3>3
  <2>9. QED
    BY <2>6, <2>7, <2>8
<1>4. QED
  BY <1>2, <1>3

\* The types, and what the pass may rely on about the handle it pops.
LEMMA PoppedHandle ==
  ASSUME NEW p \in Passes, Expiring(p), now \in Nat
  PROVE  LET h == Head(p.heap)
         IN  /\ h \in Handles /\ h \in Range(p.heap) /\ h.deadline <= now
             /\ h.key \in Keys /\ h.generation \in Nat
             /\ AckTimeout[h.key[1]] \in Nat \ {0}
             /\ Handle(h.key, now + AckTimeout[h.key[1]], h.generation + 1) \in Handles
             /\ HeapPop(p.heap) \in Seq(Handles)
<1>1. p.heap \in Seq(Handles) /\ p.heap # <<>>
  BY DEF Passes, Expiring
<1>2. Head(p.heap) \in Handles /\ Head(p.heap) \in Range(p.heap)
  BY <1>1, TailOfSequence
<1>3. HeapPop(p.heap) \in Seq(Handles)
  BY <1>1, HeapPopFacts
<1>4. PICK h : h = Head(p.heap)
  OBVIOUS
<1>5. h.key \in Keys /\ h.deadline \in Nat /\ h.generation \in Nat /\ h.key[1] \in Lanes
  BY <1>2, <1>4 DEF Handles, Keys
<1>6. AckTimeout[h.key[1]] \in Nat \ {0}
  BY <1>5, TimingAssumption
<1>7. Handle(h.key, now + AckTimeout[h.key[1]], h.generation + 1) \in Handles
  BY <1>5, <1>6 DEF Handle, Handles
<1>8. QED
  BY <1>1, <1>2, <1>3, <1>4, <1>5, <1>6, <1>7 DEF Expiring

LEMMA RoundTypes ==
  ASSUME NEW p \in Passes, now \in Nat
  PROVE  Round(p) \in Passes
<1>1. /\ p.tracked \in Tables /\ p.retryCount \in [Keys -> Nat]
      /\ p.entry \in [Keys -> Entries] /\ p.decisions \in Seq(Decisions)
  BY DEF Passes
<1>2. p.heap \in Seq(Handles)
  BY DEF Passes
<1>3. DOMAIN p.tracked \subseteq Keys /\ p.tracked \in [DOMAIN p.tracked -> Registrations]
  BY <1>1, TableFacts
<1>4. CASE Expiring(p)
  <2>1. PICK h : h = Head(p.heap)
    OBVIOUS
  <2>2. PICK d : d = now + AckTimeout[h.key[1]]
    OBVIOUS
  <2>3. /\ h.key \in Keys /\ h.generation \in Nat /\ d \in Nat
        /\ Handle(h.key, d, h.generation + 1) \in Handles
        /\ HeapPop(p.heap) \in Seq(Handles)
    BY <1>4, <2>1, <2>2, PoppedHandle
  <2>4. [p.entry EXCEPT ![h.key] = "queued"] \in [Keys -> Entries]
    BY <1>1, <2>3 DEF Entries
  <2>5. CASE Pops(p, Round(p))
    BY <1>1, <2>3, <2>5 DEF Pops, PassOf, Passes
  <2>6. CASE Retries(p, Round(p))
    <3>1. [p.tracked EXCEPT ![h.key] = [generation |-> h.generation + 1, deadline |-> d]]
            \in Tables
      <4>1. [generation |-> h.generation + 1, deadline |-> d] \in Registrations
        BY <2>3 DEF Registrations
      <4>2. QED
        BY <1>3, <4>1, TableFacts
    <3>2. HeapPush(HeapPop(p.heap), Handle(h.key, d, h.generation + 1)) \in Seq(Handles)
      BY <2>3, HeapPushFacts
    <3>3. [p.retryCount EXCEPT ![h.key] = @ + 1] \in [Keys -> Nat]
      BY <1>1, <2>3
    <3>4. Append(p.decisions, [key |-> h.key, action |-> "RETRY"]) \in Seq(Decisions)
      <4>1. [key |-> h.key, action |-> "RETRY"] \in Decisions
        BY <2>3 DEF Decisions
      <4>2. QED
        BY <1>1, <4>1, AppendProperties
    <3>5. QED
      BY <2>1, <2>2, <2>4, <2>6, <3>1, <3>2, <3>3, <3>4 DEF Retries, PassOf, Passes, Renewed, Counted, Queued, With
  <2>7. CASE GivesUp(p, Round(p))
    <3>1. Without(p.tracked, {h.key}) \in Tables
      BY <1>3, TableFacts DEF Without
    <3>2. Append(p.decisions, [key |-> h.key, action |-> "EXHAUSTED"]) \in Seq(Decisions)
      <4>1. [key |-> h.key, action |-> "EXHAUSTED"] \in Decisions
        BY <2>3 DEF Decisions
      <4>2. QED
        BY <1>1, <4>1, AppendProperties
    <3>3. QED
      BY <1>1, <2>1, <2>3, <2>4, <2>7, <3>1, <3>2 DEF GivesUp, PassOf, Passes, Queued, With
  <2>8. QED
    BY <1>4, <2>5, <2>6, <2>7, RoundCases
<1>5. CASE ~Expiring(p)
  BY <1>5, RoundCases
<1>6. QED
  BY <1>4, <1>5

LEMMA RoundsSteps ==
  ASSUME now \in Nat, Pass \in Passes
  PROVE  /\ Rounds[0] = Pass
         /\ \A n \in Nat : Rounds[n] \in Passes /\ Rounds[n + 1] = Round(Rounds[n])
<1>1. PICK a : a = Pass
  OBVIOUS
<1>2. PICK step : step = [p \in Passes |-> Round(p)]
  OBVIOUS
<1>3. step \in [Passes -> Passes]
  BY <1>2, RoundTypes
<1>4. PICK f : Repeats(f, Passes, step, a)
  BY <1>1, <1>3, Iteration
<1>5. /\ f \in [Nat -> Passes] /\ f[0] = a
      /\ \A n \in Nat : f[n + 1] = Round(f[n])
  BY <1>2, <1>4 DEF Repeats
<1>6. f = [n \in Nat |-> IF n = 0 THEN a ELSE Round(f[n - 1])]
  <2>1. \A n \in Nat : n # 0 => n - 1 \in Nat /\ (n - 1) + 1 = n
    OBVIOUS
  <2>2. \A n \in Nat : f[n] = IF n = 0 THEN a ELSE Round(f[n - 1])
    BY <1>5, <2>1
  <2>3. QED
    BY <1>5, <2>2
<1>7. Rounds = [n \in Nat |-> IF n = 0 THEN a ELSE Round(Rounds[n - 1])]
  BY <1>1, <1>6, Zenon DEF Rounds
<1>8. PICK g : g = Rounds
  OBVIOUS
<1>9. g = [n \in Nat |-> IF n = 0 THEN a ELSE Round(g[n - 1])]
  BY <1>7, <1>8, Zenon
<1>10. g[0] = a
  BY <1>9
<1>11. ASSUME NEW n \in Nat
       PROVE  g[n + 1] = Round(g[n])
  <2>1. n + 1 \in Nat /\ n + 1 # 0 /\ (n + 1) - 1 = n
    OBVIOUS
  <2>2. QED
    BY <1>9, <2>1
<1>12. Nat \subseteq {n \in Nat : g[n] \in Passes}
  <2>1. 0 \in {n \in Nat : g[n] \in Passes}
    BY <1>1, <1>10
  <2>2. ASSUME NEW n \in Nat, n \in {i \in Nat : g[i] \in Passes}
        PROVE  n + 1 \in {i \in Nat : g[i] \in Passes}
    BY <1>11, <2>2, RoundTypes
  <2>3. QED
    BY <2>1, <2>2, Induction
<1>13. QED
  BY <1>1, <1>8, <1>10, <1>11, <1>12

\* The head of an ordered heap has the least deadline, so that nothing has
\* expired when the loop ends.
LEMMA RootIsLeast ==
  ASSUME NEW h \in Seq(Handles), OrderedHeap(h), now \in Nat
  PROVE  Expired(h) # {} <=> h # <<>> /\ Head(h).deadline <= now
<1>1. /\ Len(h) \in Nat /\ DOMAIN h = 1..Len(h)
      /\ \A i \in 1..Len(h) : h[i].deadline \in Nat
  <2>1. \A i \in 1..Len(h) : h[i] \in Handles
    BY ElementOfSeq
  <2>2. QED
    BY <2>1, LenProperties DEF Handles
<1>2. ASSUME NEW i \in 1..Len(h), h[i].deadline < h[1].deadline
      PROVE  FALSE
  <2>1. PICK T : T = {j \in 1..Len(h) : h[j].deadline < h[1].deadline}
    OBVIOUS
  <2>2. T \subseteq Nat /\ T # {}
    BY <1>1, <1>2, <2>1
  <2>3. PICK j \in T : \A m \in T : j <= m
    BY <2>2, NatMin
  <2>4. j \in Nat /\ j >= 2 /\ j \in 2..Len(h)
    BY <1>1, <2>1, <2>3
  <2>5. j \div 2 \in 1..(j - 1)
    BY <2>4, Parents
  <2>6. h[j \div 2].deadline <= h[j].deadline
    BY <2>4 DEF OrderedHeap
  <2>7. j \div 2 \in T
    <3>1. j \div 2 \in 1..Len(h)
      BY <1>1, <2>4, <2>5
    <3>2. 1 \in 1..Len(h) /\ j \in 1..Len(h)
      BY <1>1, <2>4
    <3>3. h[j].deadline < h[1].deadline
      BY <2>1, <2>3
    <3>4. h[j \div 2].deadline < h[1].deadline
      BY <1>1, <2>6, <3>1, <3>2, <3>3
    <3>5. QED
      BY <2>1, <3>1, <3>4
  <2>8. QED
    BY <2>3, <2>4, <2>5, <2>7
<1>3. ASSUME NEW i \in Expired(h)
      PROVE  h # <<>> /\ h[1].deadline <= now
  <2>1. i \in 1..Len(h) /\ 1 \in 1..Len(h) /\ h[i].deadline <= now
    BY <1>1, <1>3 DEF Expired
  <2>2. QED
    BY <1>1, <1>2, <2>1, EmptySeq
<1>4. ASSUME h # <<>>, h[1].deadline <= now
      PROVE  1 \in Expired(h)
  <2>1. 1 \in 1..Len(h)
    BY <1>1, <1>4, EmptySeq
  <2>2. QED
    BY <1>1, <1>4, <2>1 DEF Expired
<1>5. h # <<>> => Head(h) = h[1]
  BY EmptySeq, LenProperties
<1>6. QED
  BY <1>3, <1>4, <1>5

\* A handle that is due later changes nothing about what has expired.
LEMMA PushLater ==
  ASSUME NEW h \in Seq(Handles), NEW x \in Handles, x.deadline > now, now \in Nat
  PROVE  Cardinality(Expired(HeapPush(h, x))) = Cardinality(Expired(h))
<1>1. PICK a : a = Append(h, x)
  OBVIOUS
<1>2. /\ Len(h) \in Nat /\ DOMAIN h = 1..Len(h) /\ DOMAIN a = 1..(Len(h) + 1)
      /\ a[Len(h) + 1] = x /\ \A i \in 1..Len(h) : a[i] = h[i]
  BY <1>1, AppendProperties, LenProperties
<1>3. ~(x.deadline <= now)
  BY DEF Handles
<1>4. \A i : i \in 1..(Len(h) + 1) <=> i = Len(h) + 1 \/ i \in 1..Len(h)
  BY <1>2
<1>5. Expired(a) = Expired(h)
  BY <1>2, <1>3, <1>4 DEF Expired
<1>6. QED
  BY <1>1, <1>5, HeapPushFacts

\* Every registration has its handle.
Complete(t, h) == \A k \in DOMAIN t : Handle(k, t[k].deadline, t[k].generation) \in Range(h)

\* What a round does to the heap: it stays ordered and complete, and one
\* handle less has expired.
LEMMA RoundKeepsHeap ==
  ASSUME NEW p \in Passes, now \in Nat, OrderedHeap(p.heap), Complete(p.tracked, p.heap)
  PROVE  LET q == Round(p)
         IN  /\ OrderedHeap(q.heap) /\ Complete(q.tracked, q.heap)
             /\ Expiring(p) => Cardinality(Expired(q.heap)) = Cardinality(Expired(p.heap)) - 1
<1>1. p.heap \in Seq(Handles) /\ p.tracked \in Tables
  BY DEF Passes
<1>2. DOMAIN p.tracked \subseteq Keys /\ p.tracked \in [DOMAIN p.tracked -> Registrations]
  BY <1>1, TableFacts
<1>3. CASE ~Expiring(p)
  BY <1>3, RoundCases
<1>4. CASE Expiring(p)
  <2>1. PICK q, h, rest : q = Round(p) /\ h = Head(p.heap) /\ rest = HeapPop(p.heap)
    OBVIOUS
  <2>2. p.heap # <<>> /\ h.deadline <= now
    BY <1>4, <2>1 DEF Expiring
  <2>3. /\ rest \in Seq(Handles) /\ OrderedHeap(rest)
        /\ Range(rest) \subseteq Range(p.heap) /\ Range(p.heap) \subseteq Range(rest) \cup {h}
        /\ Cardinality(Expired(rest)) = Cardinality(Expired(p.heap)) - 1
    BY <1>1, <2>1, <2>2, HeapPopFacts
  <2>4. PICK k, d : k = h.key /\ d = now + AckTimeout[k[1]]
    OBVIOUS
  <2>5. /\ k \in Keys /\ h \in Handles /\ Handle(k, d, h.generation + 1) \in Handles
        /\ d > now /\ h.generation \in Nat
    BY <1>4, <2>1, <2>4, PoppedHandle
  <2>6. \A j \in DOMAIN p.tracked : j # k =>
          Handle(j, p.tracked[j].deadline, p.tracked[j].generation) \in Range(rest)
    <3>1. SUFFICES ASSUME NEW j \in DOMAIN p.tracked, j # k
                   PROVE  Handle(j, p.tracked[j].deadline, p.tracked[j].generation)
                            \in Range(rest)
      OBVIOUS
    <3>2. PICK m : m = Handle(j, p.tracked[j].deadline, p.tracked[j].generation)
      OBVIOUS
    <3>3. m \in Range(p.heap) /\ m.key = j
      BY <3>2 DEF Complete, Handle
    <3>4. m # h
      BY <2>4, <3>1, <3>3
    <3>5. QED
      BY <2>3, <3>2, <3>3, <3>4
  <2>7. CASE Pops(p, q)
    <3>1. q.heap = rest /\ q.tracked = p.tracked
      BY <2>1, <2>7 DEF Pops, PassOf
    <3>2. Stale(p, h)
      BY <2>1, <2>7 DEF Pops
    <3>3. ASSUME k \in DOMAIN p.tracked
          PROVE  Handle(k, p.tracked[k].deadline, p.tracked[k].generation) \in Range(rest)
      <4>1. PICK m : m = Handle(k, p.tracked[k].deadline, p.tracked[k].generation)
        OBVIOUS
      <4>2. m \in Range(p.heap) /\ m.generation = p.tracked[k].generation
        BY <3>3, <4>1 DEF Complete, Handle
      <4>3. m # h
        BY <2>4, <3>2, <3>3, <4>2 DEF Stale
      <4>4. QED
        BY <2>3, <4>1, <4>2, <4>3
    <3>4. Complete(p.tracked, rest)
      BY <2>6, <3>3 DEF Complete
    <3>5. QED
      BY <2>1, <2>3, <3>1, <3>4
  <2>8. CASE Retries(p, q)
    <3>1. PICK g : g = h.generation + 1
      OBVIOUS
    <3>2. q.heap = HeapPush(rest, Handle(k, d, g)) /\ q.tracked = Renewed(p.tracked, k, g, d)
      BY <2>1, <2>4, <2>8, <3>1 DEF Retries, PassOf
    <3>3. k \in DOMAIN p.tracked
      BY <2>1, <2>4, <2>8 DEF Retries, Stale
    <3>4. PICK x : x = Handle(k, d, g)
      OBVIOUS
    <3>5. x \in Handles /\ x.deadline > now
      BY <2>5, <3>1, <3>4 DEF Handle
    <3>6. /\ Range(q.heap) = Range(rest) \cup {x} /\ OrderedHeap(q.heap)
          /\ Cardinality(Expired(q.heap)) = Cardinality(Expired(rest))
      BY <2>3, <3>2, <3>4, <3>5, HeapPushFacts, PushLater
    <3>7. /\ DOMAIN q.tracked = DOMAIN p.tracked
          /\ q.tracked[k] = [generation |-> g, deadline |-> d]
          /\ \A j \in DOMAIN p.tracked : j # k => q.tracked[j] = p.tracked[j]
      BY <1>2, <3>2, <3>3 DEF Renewed
    <3>8. Handle(k, q.tracked[k].deadline, q.tracked[k].generation) = x
      BY <3>4, <3>7
    <3>9. Complete(q.tracked, q.heap)
      BY <2>6, <3>6, <3>7, <3>8 DEF Complete
    <3>10. QED
      BY <2>1, <2>3, <3>6, <3>9
  <2>9. CASE GivesUp(p, q)
    <3>1. q.heap = rest /\ q.tracked = Without(p.tracked, {k})
      BY <2>1, <2>4, <2>9 DEF GivesUp, PassOf
    <3>2. /\ DOMAIN q.tracked = DOMAIN p.tracked \ {k}
          /\ \A j \in DOMAIN q.tracked : q.tracked[j] = p.tracked[j]
      BY <3>1 DEF Without
    <3>3. Complete(q.tracked, q.heap)
      BY <2>6, <3>1, <3>2 DEF Complete
    <3>4. QED
      BY <2>1, <2>3, <3>1, <3>3
  <2>10. QED
    BY <1>4, <2>1, <2>7, <2>8, <2>9, RoundCases
<1>5. QED
  BY <1>3, <1>4

-----------------------------------------------------------------------------
(* What holds between the operations.                                      *)

TrackerTypes ==
  /\ policy \in Policies /\ now \in Nat
  /\ tracked \in Tables /\ heap \in Seq(Handles)
  /\ retryCount \in [Keys -> Nat] /\ entry \in [Keys -> Entries]
  /\ decisions \in Seq(Decisions)

\* No handle is further ahead than its timeout.
HandlesInv ==
  \A h \in Range(heap) : h.generation >= 1 /\ h.deadline <= now + AckTimeout[h.key[1]]

TrackedInv ==
  \A k \in DOMAIN tracked :
    tracked[k].generation >= 1 /\ tracked[k].deadline <= now + AckTimeout[k[1]]

\* A registration is the latest of its key: the other handles of the key are
\* not due after it, and one with its generation is due when it is.
LatestInv ==
  \A h \in Range(heap) : h.key \in DOMAIN tracked =>
    /\ h.deadline <= tracked[h.key].deadline
    /\ h.generation = tracked[h.key].generation => h.deadline = tracked[h.key].deadline

\* The handles of an entry that is to be sent again come from retries, so that
\* neither a renewal nor a registration from generation 1 meets one of its own
\* generation.
RenewalInv ==
  \A h \in Range(heap) : entry[h.key] = "queued" =>
    /\ h.generation >= 2
    /\ h.key \in DOMAIN tracked => h.generation <= tracked[h.key].generation

\* Without spilling the generations of a key only grow.
OneGenerationInv ==
  ~Spilling =>
    /\ \A h \in Range(heap) :
         /\ h.key \in DOMAIN tracked => h.generation <= tracked[h.key].generation
         /\ entry[h.key] = "queued" => h.key \in DOMAIN tracked
    /\ \A k \in DOMAIN tracked : entry[k] = "queued" => retryCount[k] > 0
    /\ \A i, j \in DOMAIN decisions : decisions[i].key = decisions[j].key => i = j

TrackerInv ==
  /\ TrackerTypes /\ HeapOrdered /\ HandlePerRegistration
  /\ HandlesInv /\ TrackedInv /\ LatestInv /\ RenewalInv /\ OneGenerationInv

Due == {k \in DOMAIN tracked : tracked[k].deadline <= now}

\* In a pass: what it has decided, and what it has left as it was.
PassDecides(p) ==
  /\ DecidedKeys(p.decisions) \subseteq Due
  /\ DOMAIN p.tracked \subseteq DOMAIN tracked
  /\ \A k \in Keys \ DecidedKeys(p.decisions) :
       /\ k \in DOMAIN tracked => k \in DOMAIN p.tracked /\ p.tracked[k] = tracked[k]
       /\ p.entry[k] = entry[k] /\ p.retryCount[k] = retryCount[k]
  /\ \A k \in DecidedKeys(p.decisions) :
       /\ p.entry[k] = "queued"
       /\ k \in DOMAIN p.tracked => /\ p.tracked[k].deadline = now + AckTimeout[k[1]]
                                    /\ p.tracked[k].generation >= 2
  /\ \A h \in Range(p.heap) :
       \/ h \in Range(heap)
       \/ /\ h.key \in DecidedKeys(p.decisions)
          /\ h.generation >= 2 /\ h.deadline = now + AckTimeout[h.key[1]]
          /\ h.key \in DOMAIN p.tracked => h.generation <= p.tracked[h.key].generation

\* Without spilling it decides once about a key.
DecidedOnce(p, d) ==
  \/ /\ d.action = "RETRY" /\ retryCount[d.key] < MaxRetries
     /\ d.key \in DOMAIN p.tracked /\ p.retryCount[d.key] = retryCount[d.key] + 1
     /\ p.tracked[d.key].generation = tracked[d.key].generation + 1
  \/ /\ d.action = "EXHAUSTED" /\ ~(retryCount[d.key] < MaxRetries)
     /\ d.key \notin DOMAIN p.tracked /\ p.retryCount[d.key] = retryCount[d.key]

DistinctKeys(ds) == \A i, j \in DOMAIN ds : ds[i].key = ds[j].key => i = j

PassOnce(p) ==
  /\ DistinctKeys(p.decisions)
  /\ \A d \in Range(p.decisions) : DecidedOnce(p, d)
  /\ \A h \in Range(p.heap) : h \in Range(heap) \/ h.key \in DOMAIN p.tracked

PassInv(p) == PassDecides(p) /\ (~Spilling => PassOnce(p))

LEMMA DecidedKeysWith ==
  ASSUME NEW ds \in Seq(Decisions), NEW k, NEW action,
         [key |-> k, action |-> action] \in Decisions
  PROVE  /\ With(ds, k, action) \in Seq(Decisions)
         /\ Range(With(ds, k, action)) = Range(ds) \cup {[key |-> k, action |-> action]}
         /\ DecidedKeys(With(ds, k, action)) = DecidedKeys(ds) \cup {k}
         /\ k \notin DecidedKeys(ds) /\ DistinctKeys(ds) => DistinctKeys(With(ds, k, action))
<1>1. PICK d : d = [key |-> k, action |-> action]
  OBVIOUS
<1>2. d \in Decisions /\ d.key = k
  BY <1>1 DEF Decisions
<1>3. PICK w : w = Append(ds, d)
  OBVIOUS
<1>4. w = With(ds, k, action)
  BY <1>1, <1>3 DEF With
<1>5. w \in Seq(Decisions) /\ Range(w) = Range(ds) \cup {d}
  BY <1>2, <1>3, AppendProperties, RangeOfAppend
<1>6. DecidedKeys(w) = DecidedKeys(ds) \cup {k}
  BY <1>2, <1>5 DEF DecidedKeys
<1>7. ASSUME k \notin DecidedKeys(ds), DistinctKeys(ds),
             NEW i \in DOMAIN w, NEW j \in DOMAIN w, w[i].key = w[j].key
      PROVE  i = j
  <2>1. /\ Len(ds) \in Nat /\ DOMAIN ds = 1..Len(ds) /\ DOMAIN w = 1..(Len(ds) + 1)
        /\ w[Len(ds) + 1] = d /\ \A m \in 1..Len(ds) : w[m] = ds[m]
    BY <1>2, <1>3, AppendProperties, LenProperties
  <2>2. \A m \in 1..(Len(ds) + 1) : m = Len(ds) + 1 \/ m \in 1..Len(ds)
    BY <2>1
  <2>3. \A m \in 1..Len(ds) : ds[m].key # k
    BY <1>7, <2>1 DEF DecidedKeys, Range
  <2>4. QED
    BY <1>2, <1>7, <2>1, <2>2, <2>3 DEF DistinctKeys
<1>8. k \notin DecidedKeys(ds) /\ DistinctKeys(ds) => DistinctKeys(w)
  BY <1>7 DEF DistinctKeys
<1>9. QED
  BY <1>1, <1>2, <1>4, <1>5, <1>6, <1>8

\* A handle that counts belongs to a registration that is due, about which
\* nothing is decided yet unless its namespace spills.
LEMMA NotStaleIsDue ==
  ASSUME TrackerInv, NEW p \in Passes, PassInv(p), Expiring(p), ~Stale(p, Head(p.heap))
  PROVE  LET h == Head(p.heap)
             k == h.key
         IN  /\ k \in Keys /\ k \in Due /\ k \in DOMAIN p.tracked
             /\ p.tracked[k].generation = h.generation
             /\ h.generation \in Nat /\ h.generation >= 1
             /\ ~Spilling => k \notin DecidedKeys(p.decisions)
<1>1. PICK h, k : h = Head(p.heap) /\ k = h.key
  OBVIOUS
<1>2. now \in Nat
  BY DEF TrackerInv, TrackerTypes
<1>3. /\ h \in Handles /\ h \in Range(p.heap) /\ h.deadline <= now
      /\ k \in Keys /\ h.generation \in Nat /\ h.deadline \in Nat
      /\ AckTimeout[k[1]] \in Nat \ {0}
  <2>1. /\ h \in Handles /\ h \in Range(p.heap) /\ h.deadline <= now
        /\ k \in Keys /\ h.generation \in Nat /\ AckTimeout[k[1]] \in Nat \ {0}
    BY <1>1, <1>2, PoppedHandle
  <2>2. QED
    BY <2>1 DEF Handles
<1>4. k \in DOMAIN p.tracked /\ p.tracked[k].generation = h.generation
  BY <1>1 DEF Stale
<1>5. h \in Range(heap)
  <2>1. ~(h.deadline = now + AckTimeout[k[1]])
    BY <1>2, <1>3
  <2>2. \/ h \in Range(heap)
        \/ h.deadline = now + AckTimeout[h.key[1]]
        \/ h.generation >= 2
    BY <1>3 DEF PassInv, PassDecides
  <2>3. QED
    BY <1>1, <1>3, <2>1 DEF PassInv, PassDecides
<1>6. k \in DOMAIN tracked
  BY <1>4 DEF PassInv, PassDecides
<1>7. k \in Due
  <2>1. CASE k \in DecidedKeys(p.decisions)
    BY <2>1 DEF PassInv, PassDecides
  <2>2. CASE k \notin DecidedKeys(p.decisions)
    <3>1. p.tracked[k] = tracked[k]
      BY <1>3, <1>6, <2>2 DEF PassInv, PassDecides
    <3>2. h.deadline = tracked[k].deadline
      BY <1>1, <1>4, <1>5, <1>6, <3>1 DEF TrackerInv, LatestInv
    <3>3. QED
      BY <1>3, <1>6, <3>2 DEF Due
  <2>3. QED
    BY <2>1, <2>2
<1>8. h.generation >= 1
  BY <1>5 DEF TrackerInv, HandlesInv
<1>9. ASSUME ~Spilling, k \in DecidedKeys(p.decisions)
      PROVE  FALSE
  <2>1. PICK e \in Range(p.decisions) : e.key = k
    BY <1>9 DEF DecidedKeys
  <2>2. DecidedOnce(p, e)
    BY <1>9, <2>1 DEF PassInv, PassOnce
  <2>3. p.tracked[k].generation = tracked[k].generation + 1
    BY <1>4, <2>1, <2>2 DEF DecidedOnce
  <2>4. h.generation <= tracked[k].generation
    BY <1>1, <1>5, <1>6, <1>9 DEF TrackerInv, OneGenerationInv
  <2>5. tracked[k].generation \in Nat
    <3>1. tracked \in [DOMAIN tracked -> Registrations]
      BY TableFacts DEF TrackerInv, TrackerTypes
    <3>2. QED
      BY <1>6, <3>1 DEF Registrations
  <2>6. QED
    BY <1>3, <1>4, <2>3, <2>4, <2>5
<1>10. QED
  BY <1>1, <1>3, <1>4, <1>7, <1>8, <1>9

\* The pass invariant survives a round in which a handle is passed over.
LEMMA PopDecides ==
  ASSUME NEW p \in Passes, NEW q, PassInv(p), Pops(p, q)
  PROVE  PassInv(q)
<1>1. /\ q.tracked = p.tracked /\ q.retryCount = p.retryCount
      /\ q.entry = p.entry /\ q.decisions = p.decisions /\ q.heap = HeapPop(p.heap)
  BY DEF Pops, PassOf
<1>2. Range(q.heap) \subseteq Range(p.heap)
  <2>1. p.heap \in Seq(Handles) /\ p.heap # <<>>
    BY DEF Passes, Pops, Expiring
  <2>2. QED
    BY <1>1, <2>1, HeapPopFacts
<1>3. PassDecides(q)
  BY <1>1, <1>2 DEF PassInv, PassDecides
<1>4. ~Spilling => PassOnce(q)
  BY <1>1, <1>2 DEF PassInv, PassOnce, DecidedOnce
<1>5. QED
  BY <1>3, <1>4 DEF PassInv

LEMMA RetryDecides ==
  ASSUME TrackerInv, NEW p \in Passes, NEW q, PassInv(p), Retries(p, q)
  PROVE  PassInv(q)
<1>1. PICK h, k : h = Head(p.heap) /\ k = h.key
  OBVIOUS
<1>2. PICK g, d, rest, new : /\ g = h.generation + 1 /\ d = now + AckTimeout[k[1]]
                             /\ rest = HeapPop(p.heap) /\ new = Handle(k, d, g)
  OBVIOUS
<1>3. /\ q.tracked = Renewed(p.tracked, k, g, d) /\ q.heap = HeapPush(rest, new)
      /\ q.retryCount = Counted(p.retryCount, k) /\ q.entry = Queued(p.entry, k)
      /\ q.decisions = With(p.decisions, k, "RETRY")
      /\ p.retryCount[k] < MaxRetries /\ Expiring(p) /\ ~Stale(p, h)
  BY <1>1, <1>2 DEF Retries, PassOf
<1>4. /\ k \in Keys /\ k \in Due /\ k \in DOMAIN p.tracked
      /\ p.tracked[k].generation = h.generation
      /\ h.generation \in Nat /\ h.generation >= 1
      /\ ~Spilling => k \notin DecidedKeys(p.decisions)
  BY <1>1, <1>3, NotStaleIsDue
<1>5. /\ p.tracked \in [DOMAIN p.tracked -> Registrations]
      /\ p.retryCount \in [Keys -> Nat] /\ p.entry \in [Keys -> Entries]
      /\ p.decisions \in Seq(Decisions) /\ p.heap \in Seq(Handles)
  <2>1. p.tracked \in Tables
    BY DEF Passes
  <2>2. QED
    BY <2>1, TableFacts DEF Passes
<1>6. /\ DOMAIN q.tracked = DOMAIN p.tracked
      /\ q.tracked[k].generation = g /\ q.tracked[k].deadline = d
      /\ \A j \in DOMAIN p.tracked : j # k => q.tracked[j] = p.tracked[j]
  BY <1>3, <1>4, <1>5 DEF Renewed
<1>7. /\ q.entry[k] = "queued" /\ q.retryCount[k] = p.retryCount[k] + 1
      /\ \A j \in Keys : j # k => /\ q.entry[j] = p.entry[j]
                                  /\ q.retryCount[j] = p.retryCount[j]
  BY <1>3, <1>4, <1>5 DEF Queued, Counted
<1>8. /\ DecidedKeys(q.decisions) = DecidedKeys(p.decisions) \cup {k}
      /\ Range(q.decisions) = Range(p.decisions) \cup {[key |-> k, action |-> "RETRY"]}
      /\ k \notin DecidedKeys(p.decisions) /\ DistinctKeys(p.decisions)
           => DistinctKeys(q.decisions)
  <2>1. PICK action : action = "RETRY"
    OBVIOUS
  <2>2. /\ [key |-> k, action |-> action] \in Decisions
        /\ q.decisions = With(p.decisions, k, action)
    BY <1>3, <1>4, <2>1 DEF Decisions
  <2>3. PICK ds : ds = p.decisions
    OBVIOUS
  <2>4. ds \in Seq(Decisions)
    BY <1>4, <1>5, <2>3
  <2>5. /\ Range(With(ds, k, action)) = Range(ds) \cup {[key |-> k, action |-> action]}
        /\ DecidedKeys(With(ds, k, action)) = DecidedKeys(ds) \cup {k}
        /\ k \notin DecidedKeys(ds) /\ DistinctKeys(ds) => DistinctKeys(With(ds, k, action))
    BY <2>2, <2>4, DecidedKeysWith
  <2>6. QED
    BY <2>1, <2>2, <2>3, <2>5
<1>9. Range(q.heap) \subseteq Range(p.heap) \cup {new}
  <2>1. now \in Nat
    BY DEF TrackerInv, TrackerTypes
  <2>2. p.heap # <<>>
    BY <1>3 DEF Expiring
  <2>3. rest \in Seq(Handles) /\ Range(rest) \subseteq Range(p.heap)
    BY <1>2, <1>5, <2>2, HeapPopFacts
  <2>4. new \in Handles
    BY <1>1, <1>2, <1>3, <2>1, PoppedHandle
  <2>5. QED
    BY <1>3, <2>3, <2>4, HeapPushFacts
<1>10. new.key = k /\ new.deadline = d /\ new.generation = g /\ g >= 2
  BY <1>2, <1>4 DEF Handle
<1>11. PassDecides(q)
  <2>1. DecidedKeys(q.decisions) \subseteq Due
    BY <1>4, <1>8 DEF PassInv, PassDecides
  <2>2. DOMAIN q.tracked \subseteq DOMAIN tracked
    BY <1>6 DEF PassInv, PassDecides
  <2>3. \A j \in Keys \ DecidedKeys(q.decisions) :
          /\ j \in DOMAIN tracked => j \in DOMAIN q.tracked /\ q.tracked[j] = tracked[j]
          /\ q.entry[j] = entry[j] /\ q.retryCount[j] = retryCount[j]
    BY <1>6, <1>7, <1>8 DEF PassInv, PassDecides
  <2>4. ASSUME NEW j \in DecidedKeys(q.decisions)
        PROVE  /\ q.entry[j] = "queued"
               /\ j \in DOMAIN q.tracked => /\ q.tracked[j].deadline = now + AckTimeout[j[1]]
                                            /\ q.tracked[j].generation >= 2
    <3>1. CASE j = k
      BY <1>2, <1>6, <1>7, <1>10, <3>1
    <3>2. CASE j # k
      <4>1. j \in DecidedKeys(p.decisions)
        BY <1>8, <3>2
      <4>2. j \in Keys
        <5>1. j \in DOMAIN tracked
          BY <2>1 DEF Due
        <5>2. QED
          BY <5>1, TableFacts DEF TrackerInv, TrackerTypes
      <4>3. QED
        BY <1>6, <1>7, <3>2, <4>1, <4>2 DEF PassInv, PassDecides
    <3>3. QED
      BY <3>1, <3>2
  <2>5. ASSUME NEW m \in Range(q.heap)
        PROVE  \/ m \in Range(heap)
               \/ /\ m.key \in DecidedKeys(q.decisions)
                  /\ m.generation >= 2 /\ m.deadline = now + AckTimeout[m.key[1]]
                  /\ m.key \in DOMAIN q.tracked => m.generation <= q.tracked[m.key].generation
    <3>1. CASE m = new
      BY <1>2, <1>4, <1>6, <1>8, <1>10, <3>1
    <3>2. CASE m \in Range(p.heap)
      <4>1. CASE m \in Range(heap)
        BY <4>1
      <4>2. CASE m \notin Range(heap)
        <5>1. /\ m.key \in DecidedKeys(p.decisions)
              /\ m.generation >= 2 /\ m.deadline = now + AckTimeout[m.key[1]]
              /\ m.key \in DOMAIN p.tracked => m.generation <= p.tracked[m.key].generation
          BY <3>2, <4>2 DEF PassInv, PassDecides
        <5>2. m.generation \in Nat
          <6>1. Range(p.heap) \subseteq Handles
            BY <1>5, RangeOfSeq
          <6>2. QED
            BY <3>2, <6>1 DEF Handles
        <5>3. CASE m.key = k
          BY <1>2, <1>4, <1>6, <1>8, <5>1, <5>2, <5>3
        <5>4. CASE m.key # k
          BY <1>6, <1>8, <5>1, <5>4
        <5>5. QED
          BY <5>3, <5>4
      <4>3. QED
        BY <4>1, <4>2
    <3>3. QED
      BY <1>9, <3>1, <3>2
  <2>6. QED
    BY <2>1, <2>2, <2>3, <2>4, <2>5, Zenon DEF PassDecides
<1>12. ASSUME ~Spilling
       PROVE  PassOnce(q)
  <2>1. k \notin DecidedKeys(p.decisions) /\ PassOnce(p)
    BY <1>4, <1>12 DEF PassInv
  <2>2. p.retryCount[k] = retryCount[k] /\ p.tracked[k] = tracked[k]
    BY <1>4, <2>1 DEF PassInv, PassDecides, Due
  <2>3. ASSUME NEW e \in Range(q.decisions)
        PROVE  DecidedOnce(q, e)
    <3>1. CASE e = [key |-> k, action |-> "RETRY"]
      <4>1. e.key = k /\ e.action = "RETRY"
        BY <3>1
      <4>2. q.retryCount[k] = retryCount[k] + 1 /\ retryCount[k] < MaxRetries
        BY <1>3, <1>7, <2>2
      <4>3. q.tracked[k].generation = tracked[k].generation + 1
        BY <1>2, <1>4, <1>6, <2>2
      <4>4. k \in DOMAIN q.tracked
        BY <1>4, <1>6
      <4>5. QED
        BY <4>1, <4>2, <4>3, <4>4 DEF DecidedOnce
    <3>2. CASE e \in Range(p.decisions)
      <4>1. e.key \in DecidedKeys(p.decisions)
        BY <3>2 DEF DecidedKeys
      <4>2. e.key # k /\ e.key \in Keys
        <5>1. Range(p.decisions) \subseteq Decisions
          BY <1>5, RangeOfSeq
        <5>2. QED
          BY <2>1, <3>2, <4>1, <5>1 DEF Decisions
      <4>3. DecidedOnce(p, e)
        BY <2>1, <3>2 DEF PassOnce
      <4>4. QED
        BY <1>6, <1>7, <4>2, <4>3 DEF DecidedOnce
    <3>3. QED
      BY <1>8, <3>1, <3>2
  <2>4. \A m \in Range(q.heap) : m \in Range(heap) \/ m.key \in DOMAIN q.tracked
    BY <1>4, <1>6, <1>9, <1>10, <2>1 DEF PassOnce
  <2>5. QED
    BY <1>8, <2>1, <2>3, <2>4 DEF PassOnce
<1>13. QED
  BY <1>11, <1>12 DEF PassInv

LEMMA GiveUpDecides ==
  ASSUME TrackerInv, NEW p \in Passes, NEW q, PassInv(p), GivesUp(p, q)
  PROVE  PassInv(q)
<1>1. PICK h, k : h = Head(p.heap) /\ k = h.key
  OBVIOUS
<1>2. /\ q.tracked = Without(p.tracked, {k}) /\ q.heap = HeapPop(p.heap)
      /\ q.retryCount = p.retryCount /\ q.entry = Queued(p.entry, k)
      /\ q.decisions = With(p.decisions, k, "EXHAUSTED")
      /\ ~(p.retryCount[k] < MaxRetries) /\ Expiring(p) /\ ~Stale(p, h)
  BY <1>1 DEF GivesUp, PassOf
<1>3. /\ k \in Keys /\ k \in Due /\ k \in DOMAIN p.tracked
      /\ ~Spilling => k \notin DecidedKeys(p.decisions)
  BY <1>1, <1>2, NotStaleIsDue
<1>4. /\ p.entry \in [Keys -> Entries]
      /\ p.decisions \in Seq(Decisions) /\ p.heap \in Seq(Handles)
  BY DEF Passes
<1>5. /\ DOMAIN q.tracked = DOMAIN p.tracked \ {k}
      /\ \A j \in DOMAIN q.tracked : q.tracked[j] = p.tracked[j]
  BY <1>2 DEF Without
<1>6. /\ q.entry[k] = "queued" /\ \A j \in Keys : j # k => q.entry[j] = p.entry[j]
  BY <1>2, <1>3, <1>4 DEF Queued
<1>7. /\ DecidedKeys(q.decisions) = DecidedKeys(p.decisions) \cup {k}
      /\ Range(q.decisions) = Range(p.decisions) \cup {[key |-> k, action |-> "EXHAUSTED"]}
      /\ k \notin DecidedKeys(p.decisions) /\ DistinctKeys(p.decisions)
           => DistinctKeys(q.decisions)
  <2>1. PICK action : action = "EXHAUSTED"
    OBVIOUS
  <2>2. /\ [key |-> k, action |-> action] \in Decisions
        /\ q.decisions = With(p.decisions, k, action)
    BY <1>2, <1>3, <2>1 DEF Decisions
  <2>3. PICK ds : ds = p.decisions
    OBVIOUS
  <2>4. ds \in Seq(Decisions)
    BY <1>3, <1>4, <2>3
  <2>5. /\ Range(With(ds, k, action)) = Range(ds) \cup {[key |-> k, action |-> action]}
        /\ DecidedKeys(With(ds, k, action)) = DecidedKeys(ds) \cup {k}
        /\ k \notin DecidedKeys(ds) /\ DistinctKeys(ds) => DistinctKeys(With(ds, k, action))
    BY <2>2, <2>4, DecidedKeysWith
  <2>6. QED
    BY <2>1, <2>2, <2>3, <2>5
<1>8. Range(q.heap) \subseteq Range(p.heap)
  <2>1. p.heap # <<>>
    BY <1>2 DEF Expiring
  <2>2. QED
    BY <1>2, <1>4, <2>1, HeapPopFacts
<1>9. PassDecides(q)
  <2>1. DecidedKeys(q.decisions) \subseteq Due
    BY <1>3, <1>7 DEF PassInv, PassDecides
  <2>2. DOMAIN q.tracked \subseteq DOMAIN tracked
    BY <1>5 DEF PassInv, PassDecides
  <2>3. \A j \in Keys \ DecidedKeys(q.decisions) :
          /\ j \in DOMAIN tracked => j \in DOMAIN q.tracked /\ q.tracked[j] = tracked[j]
          /\ q.entry[j] = entry[j] /\ q.retryCount[j] = retryCount[j]
    BY <1>2, <1>5, <1>6, <1>7 DEF PassInv, PassDecides
  <2>4. ASSUME NEW j \in DecidedKeys(q.decisions)
        PROVE  /\ q.entry[j] = "queued"
               /\ j \in DOMAIN q.tracked => /\ q.tracked[j].deadline = now + AckTimeout[j[1]]
                                            /\ q.tracked[j].generation >= 2
    <3>1. CASE j = k
      BY <1>5, <1>6, <3>1
    <3>2. CASE j # k
      <4>1. j \in DecidedKeys(p.decisions)
        BY <1>7, <3>2
      <4>2. j \in Keys
        <5>1. j \in DOMAIN tracked
          BY <2>1 DEF Due
        <5>2. QED
          BY <5>1, TableFacts DEF TrackerInv, TrackerTypes
      <4>3. QED
        BY <1>5, <1>6, <3>2, <4>1, <4>2 DEF PassInv, PassDecides
    <3>3. QED
      BY <3>1, <3>2
  <2>5. \A m \in Range(q.heap) :
          \/ m \in Range(heap)
          \/ /\ m.key \in DecidedKeys(q.decisions)
             /\ m.generation >= 2 /\ m.deadline = now + AckTimeout[m.key[1]]
             /\ m.key \in DOMAIN q.tracked => m.generation <= q.tracked[m.key].generation
    BY <1>5, <1>7, <1>8 DEF PassInv, PassDecides
  <2>6. QED
    BY <2>1, <2>2, <2>3, <2>4, <2>5, Zenon DEF PassDecides
<1>10. ASSUME ~Spilling
       PROVE  PassOnce(q)
  <2>1. k \notin DecidedKeys(p.decisions) /\ PassOnce(p)
    BY <1>3, <1>10 DEF PassInv
  <2>2. p.retryCount[k] = retryCount[k]
    BY <1>3, <2>1 DEF PassInv, PassDecides, Due
  <2>3. ASSUME NEW e \in Range(q.decisions)
        PROVE  DecidedOnce(q, e)
    <3>1. CASE e = [key |-> k, action |-> "EXHAUSTED"]
      <4>1. e.key = k /\ e.action = "EXHAUSTED"
        BY <3>1
      <4>2. k \notin DOMAIN q.tracked
        BY <1>5
      <4>3. QED
        BY <1>2, <2>2, <4>1, <4>2 DEF DecidedOnce
    <3>2. CASE e \in Range(p.decisions)
      <4>1. e.key \in DecidedKeys(p.decisions)
        BY <3>2 DEF DecidedKeys
      <4>2. e.key # k
        BY <2>1, <4>1
      <4>3. DecidedOnce(p, e)
        BY <2>1, <3>2 DEF PassOnce
      <4>4. QED
        BY <1>2, <1>5, <4>2, <4>3 DEF DecidedOnce
    <3>3. QED
      BY <1>7, <3>1, <3>2
  <2>4. ASSUME NEW m \in Range(q.heap), m \notin Range(heap)
        PROVE  m.key \in DOMAIN q.tracked
    <3>1. m \in Range(p.heap)
      BY <1>8
    <3>2. m.key \in DOMAIN p.tracked /\ m.key \in DecidedKeys(p.decisions)
      BY <2>1, <2>4, <3>1 DEF PassOnce, PassInv, PassDecides
    <3>3. QED
      BY <1>5, <2>1, <3>2
  <2>5. QED
    BY <1>7, <2>1, <2>3, <2>4 DEF PassOnce
<1>11. QED
  BY <1>9, <1>10 DEF PassInv

LEMMA RoundDecides ==
  ASSUME TrackerInv, NEW p \in Passes, PassInv(p)
  PROVE  PassInv(Round(p))
<1>1. PICK q : q = Round(p)
  OBVIOUS
<1>2. CASE Pops(p, q)
  BY <1>1, <1>2, PopDecides
<1>3. CASE Retries(p, q)
  BY <1>1, <1>3, RetryDecides
<1>4. CASE GivesUp(p, q)
  BY <1>1, <1>4, GiveUpDecides
<1>5. QED
  BY <1>1, <1>2, <1>3, <1>4, RoundCases

\* Where a pass ends: nothing in the heap has expired.
LEMMA PassEnds ==
  ASSUME TrackerInv, Idle
  PROVE  LET p == Rounds[Cardinality(Expired(heap))]
         IN  /\ p \in Passes /\ PassInv(p)
             /\ OrderedHeap(p.heap) /\ Complete(p.tracked, p.heap) /\ Expired(p.heap) = {}
<1>1. /\ now \in Nat /\ heap \in Seq(Handles) /\ tracked \in Tables
      /\ OrderedHeap(heap) /\ Complete(tracked, heap)
  BY DEF TrackerInv, TrackerTypes, HeapOrdered, OrderedHeap, HandlePerRegistration, Complete
<1>2. Pass \in Passes
  BY DEF TrackerInv, TrackerTypes, Pass, Passes
<1>3. /\ Rounds[0] = Pass
      /\ \A n \in Nat : Rounds[n] \in Passes /\ Rounds[n + 1] = Round(Rounds[n])
  BY <1>1, <1>2, RoundsSteps
<1>4. \A h \in Seq(Handles) : IsFiniteSet(Expired(h)) /\ Cardinality(Expired(h)) \in Nat
  <2>1. SUFFICES ASSUME NEW h \in Seq(Handles)
                 PROVE  IsFiniteSet(Expired(h)) /\ Cardinality(Expired(h)) \in Nat
    OBVIOUS
  <2>2. DOMAIN h = 1..Len(h) /\ Len(h) \in Nat
    BY LenProperties
  <2>3. IsFiniteSet(1..Len(h)) /\ Expired(h) \subseteq 1..Len(h)
    BY <2>2, FS_Interval DEF Expired
  <2>4. QED
    BY <2>3, FS_Subset, FS_CardinalityType
<1>5. PICK E : E = Cardinality(Expired(heap))
  OBVIOUS
<1>6. PICK f : f = Rounds
  OBVIOUS
<1> DEFINE Inv(n) == /\ PassInv(f[n]) /\ OrderedHeap(f[n].heap)
                     /\ Complete(f[n].tracked, f[n].heap)
                     /\ n <= E => Cardinality(Expired(f[n].heap)) = E - n
           Goods == {n \in Nat : Inv(n)}
<1>7. 0 \in Goods
  <2>1. /\ f[0].tracked = tracked /\ f[0].heap = heap /\ f[0].retryCount = retryCount
        /\ f[0].entry = entry /\ f[0].decisions = <<>>
    BY <1>3, <1>6 DEF Pass
  <2>2. DecidedKeys(f[0].decisions) = {} /\ Range(f[0].decisions) = {}
    BY <2>1 DEF DecidedKeys, Range
  <2>3. PassDecides(f[0])
    BY <2>1, <2>2 DEF PassDecides
  <2>4. PassOnce(f[0])
    BY <2>1, <2>2 DEF PassOnce, DistinctKeys
  <2>5. E \in Nat
    BY <1>1, <1>4, <1>5
  <2>6. Inv(0)
    BY <1>1, <1>5, <2>1, <2>3, <2>4, <2>5 DEF PassInv
  <2> HIDE DEF Inv
  <2>7. QED
    BY <2>6
<1>8. ASSUME NEW n \in Nat, n \in Goods
      PROVE  n + 1 \in Goods
  <2>1. Inv(n) /\ f[n] \in Passes /\ f[n + 1] = Round(f[n]) /\ f[n].heap \in Seq(Handles)
    BY <1>3, <1>6, <1>8 DEF Passes
  <2>2. PassInv(f[n + 1])
    BY <2>1, RoundDecides
  <2>3. /\ OrderedHeap(f[n + 1].heap) /\ Complete(f[n + 1].tracked, f[n + 1].heap)
        /\ Expiring(f[n]) => Cardinality(Expired(f[n + 1].heap))
                               = Cardinality(Expired(f[n].heap)) - 1
    BY <1>1, <2>1, RoundKeepsHeap
  <2>4. ASSUME n + 1 <= E
        PROVE  Cardinality(Expired(f[n + 1].heap)) = E - (n + 1)
    <3>1. E \in Nat
      BY <1>1, <1>4, <1>5
    <3>2. Cardinality(Expired(f[n].heap)) = E - n /\ E - n # 0
      BY <2>1, <2>4, <3>1
    <3>3. Expired(f[n].heap) # {}
      BY <3>2, FS_EmptySet
    <3>4. Expiring(f[n])
      BY <1>1, <2>1, <3>3, RootIsLeast DEF Expiring
    <3>5. QED
      BY <2>3, <3>1, <3>2, <3>4
  <2>5. Inv(n + 1)
    BY <2>2, <2>3, <2>4
  <2> HIDE DEF Inv
  <2>6. QED
    BY <2>5
<1>9. Nat \subseteq Goods
  <2> HIDE DEF Goods
  <2>1. QED
    BY <1>7, <1>8, Induction
<1>10. E \in Nat /\ Inv(E)
  <2>1. E \in Nat
    BY <1>1, <1>4, <1>5
  <2>2. E \in Goods
    BY <1>9, <2>1
  <2>3. QED
    BY <2>1, <2>2
<1>11. f[E] \in Passes /\ f[E].heap \in Seq(Handles)
  BY <1>3, <1>6, <1>10 DEF Passes
<1>12. Expired(f[E].heap) = {}
  <2>1. Cardinality(Expired(f[E].heap)) = 0
    BY <1>10
  <2>2. IsFiniteSet(Expired(f[E].heap))
    BY <1>4, <1>11
  <2>3. QED
    BY <2>1, <2>2, FS_EmptySet
<1>13. QED
  BY <1>5, <1>6, <1>10, <1>11, <1>12

-----------------------------------------------------------------------------
(* The operations keep the invariant.                                      *)

LEMMA SameSpilling ==
  ASSUME policy' = policy
  PROVE  Spilling' = Spilling /\ MaxRetries' = MaxRetries
BY DEF Spilling, Overflow, MaxRetries

\* Dropping registrations leaves the rest as it is.
LEMMA DropKeepsInv ==
  ASSUME TrackerInv, NEW K, tracked' = Without(tracked, K),
         policy' = policy, UNCHANGED <<now, heap, retryCount, decisions>>,
         entry' \in [Keys -> Entries],
         \A k \in Keys : entry'[k] = entry[k] \/ (entry'[k] = "gone" /\ k \in K),
         ~Spilling => \A k \in K \cap DOMAIN tracked : entry'[k] # "queued"
  PROVE  TrackerInv'
<1>1. /\ DOMAIN tracked' = DOMAIN tracked \ K
      /\ \A k \in DOMAIN tracked' : tracked'[k] = tracked[k]
  BY DEF Without
<1>2. /\ DOMAIN tracked \subseteq Keys /\ tracked \in [DOMAIN tracked -> Registrations]
      /\ Range(heap) \subseteq Handles
  <2>1. tracked \in Tables /\ heap \in Seq(Handles)
    BY DEF TrackerInv, TrackerTypes
  <2>2. QED
    BY <2>1, TableFacts, RangeOfSeq
<1>3. \A h \in Range(heap) : h.key \in Keys
  BY <1>2 DEF Handles
<1>4. TrackerTypes'
  <2>1. DOMAIN tracked' \subseteq Keys /\ tracked' \in [DOMAIN tracked' -> Registrations]
    BY <1>1, <1>2 DEF Without
  <2>2. tracked' \in Tables
    BY <2>1, TableFacts
  <2>3. QED
    BY <2>2 DEF TrackerInv, TrackerTypes
<1>5. HeapOrdered' /\ HandlePerRegistration'
  BY <1>1 DEF TrackerInv, HeapOrdered, HandlePerRegistration
<1>6. HandlesInv' /\ TrackedInv' /\ LatestInv'
  BY <1>1 DEF TrackerInv, HandlesInv, TrackedInv, LatestInv
<1>7. RenewalInv'
  BY <1>1, <1>3 DEF TrackerInv, RenewalInv
<1>8. ASSUME ~Spilling
      PROVE  /\ \A h \in Range(heap) :
                  /\ h.key \in DOMAIN tracked' => h.generation <= tracked'[h.key].generation
                  /\ entry'[h.key] = "queued" => h.key \in DOMAIN tracked'
             /\ \A k \in DOMAIN tracked' : entry'[k] = "queued" => retryCount[k] > 0
  BY <1>1, <1>2, <1>3, <1>8 DEF TrackerInv, OneGenerationInv
<1>9. OneGenerationInv'
  BY <1>8, SameSpilling DEF TrackerInv, OneGenerationInv
<1>10. QED
  BY <1>4, <1>5, <1>6, <1>7, <1>9 DEF TrackerInv

LEMMA AcknowledgeKeepsInv ==
  ASSUME TrackerInv, policy' = policy,
         NEW l \in Lanes, NEW id \in Ids, Acknowledge(l, id)
  PROVE  TrackerInv'
<1>1. PICK k : k = <<l, id>>
  OBVIOUS
<1>2. entry \in [Keys -> Entries] /\ k \in Keys
  BY <1>1 DEF TrackerInv, TrackerTypes, Keys
<1>3. /\ entry' = [entry EXCEPT ![k] = "gone"] /\ tracked' = Without(tracked, {k})
      /\ UNCHANGED <<now, heap, retryCount, decisions>>
  BY <1>1 DEF Acknowledge
<1>4. /\ entry' \in [Keys -> Entries] /\ entry'[k] = "gone"
      /\ \A j \in Keys : j # k => entry'[j] = entry[j]
  BY <1>2, <1>3 DEF Entries
<1>5. \A j \in {k} \cap DOMAIN tracked : entry'[j] # "queued"
  BY <1>4
<1>6. \A j \in Keys : entry'[j] = entry[j] \/ (entry'[j] = "gone" /\ j \in {k})
  BY <1>4
<1>7. QED
  BY <1>3, <1>4, <1>5, <1>6, DropKeepsInv

LEMMA RemoveLanesKeepsInv ==
  ASSUME TrackerInv, policy' = policy, NEW S \in SUBSET Lanes, RemoveLanes(S)
  PROVE  TrackerInv'
<1>1. /\ tracked' = Without(tracked, S \X Ids) /\ entry' = entry
      /\ UNCHANGED <<now, heap, retryCount, decisions>>
      /\ Spilling \/ \A k \in S \X Ids : entry[k] = "queued" => retryCount[k] = 0
  BY DEF RemoveLanes
<1>2. entry' \in [Keys -> Entries] /\ retryCount \in [Keys -> Nat] /\ tracked \in Tables
  BY <1>1 DEF TrackerInv, TrackerTypes
<1>3. ASSUME ~Spilling, NEW k \in (S \X Ids) \cap DOMAIN tracked, entry'[k] = "queued"
      PROVE  FALSE
  <2>1. retryCount[k] = 0
    BY <1>1, <1>3
  <2>2. retryCount[k] > 0
    BY <1>1, <1>3 DEF TrackerInv, OneGenerationInv
  <2>3. QED
    BY <2>1, <2>2
<1>4. QED
  BY <1>1, <1>2, <1>3, DropKeepsInv

\* A drain's registration.  The handles that the key has left behind come from
\* retries, so none of them has the generation of the new registration.
LEMMA RegisterKeepsInv ==
  ASSUME TrackerInv, policy' = policy,
         NEW l \in Lanes, NEW id \in Ids, Register(l, id)
  PROVE  TrackerInv'
<1>1. PICK k, g, d : k = <<l, id>> /\ g = Generation(k) + 1 /\ d = now + AckTimeout[l]
  OBVIOUS
<1>2. PICK new : new = Handle(k, d, g)
  OBVIOUS
<1>3. /\ entry[k] = "queued" /\ entry' = [entry EXCEPT ![k] = "awaiting"]
      /\ tracked' = Put(tracked, k, [generation |-> g, deadline |-> d])
      /\ heap' = HeapPush(heap, new)
      /\ now' = now /\ retryCount' = retryCount /\ decisions' = decisions
  BY <1>1, <1>2 DEF Register
<1>4. /\ now \in Nat /\ tracked \in Tables /\ heap \in Seq(Handles)
      /\ retryCount \in [Keys -> Nat] /\ entry \in [Keys -> Entries]
  BY DEF TrackerInv, TrackerTypes
<1>5. /\ DOMAIN tracked \subseteq Keys /\ tracked \in [DOMAIN tracked -> Registrations]
      /\ Range(heap) \subseteq Handles
  BY <1>4, TableFacts, RangeOfSeq
<1>6. \A j \in DOMAIN tracked : tracked[j].generation \in Nat /\ tracked[j].deadline \in Nat
  BY <1>5 DEF Registrations
<1>7. \A h \in Range(heap) : h.key \in Keys /\ h.generation \in Nat /\ h.deadline \in Nat
  BY <1>5 DEF Handles
<1>8. k \in Keys /\ k[1] = l /\ AckTimeout[l] \in Nat \ {0} /\ d \in Nat
  BY <1>1, <1>4, TimingAssumption DEF Keys
<1>9. g \in Nat /\ g >= 1 /\ (k \in DOMAIN tracked => g = tracked[k].generation + 1)
      /\ (k \notin DOMAIN tracked => g = 1)
  BY <1>1, <1>6 DEF Generation
<1>10. new.key = k /\ new.deadline = d /\ new.generation = g /\ new \in Handles
  BY <1>2, <1>8, <1>9 DEF Handle, Handles
<1>11. /\ heap' \in Seq(Handles) /\ Range(heap') = Range(heap) \cup {new}
       /\ OrderedHeap(heap) => OrderedHeap(heap')
  BY <1>3, <1>4, <1>10, HeapPushFacts
<1>12. /\ DOMAIN tracked' = DOMAIN tracked \cup {k}
       /\ tracked'[k].generation = g /\ tracked'[k].deadline = d
       /\ \A j \in DOMAIN tracked : j # k => tracked'[j] = tracked[j]
       /\ tracked' \in [DOMAIN tracked' -> Registrations]
  <2>1. PICK v : v = [generation |-> g, deadline |-> d]
    OBVIOUS
  <2>2. v.generation = g /\ v.deadline = d /\ v \in Registrations
    BY <1>8, <1>9, <2>1 DEF Registrations
  <2>3. tracked' = [j \in DOMAIN tracked \cup {k} |-> IF j = k THEN v ELSE tracked[j]]
    BY <1>3, <2>1 DEF Put
  <2>4. QED
    BY <1>5, <2>2, <2>3
<1>13. /\ entry' \in [Keys -> Entries] /\ entry'[k] = "awaiting"
       /\ \A j \in Keys : j # k => entry'[j] = entry[j]
  BY <1>3, <1>4, <1>8 DEF Entries
<1>14. TrackerTypes'
  <2>1. tracked' \in Tables
    BY <1>5, <1>8, <1>12, TableFacts
  <2>2. QED
    BY <1>3, <1>11, <1>13, <2>1 DEF TrackerInv, TrackerTypes
<1>15. HeapOrdered'
  BY <1>11 DEF TrackerInv, HeapOrdered, OrderedHeap
<1>16. HandlePerRegistration'
  <2>1. Handle(k, tracked'[k].deadline, tracked'[k].generation) = new
    BY <1>2, <1>12
  <2>2. QED
    BY <1>11, <1>12, <2>1 DEF TrackerInv, HandlePerRegistration
<1>17. HandlesInv' /\ TrackedInv'
  <2>1. \A h \in Range(heap') : h.generation >= 1 /\ h.deadline <= now + AckTimeout[h.key[1]]
    BY <1>1, <1>4, <1>8, <1>9, <1>10, <1>11 DEF TrackerInv, HandlesInv
  <2>2. \A j \in DOMAIN tracked' :
          tracked'[j].generation >= 1 /\ tracked'[j].deadline <= now + AckTimeout[j[1]]
    <3>1. tracked'[k].generation >= 1 /\ tracked'[k].deadline <= now + AckTimeout[k[1]]
      BY <1>1, <1>4, <1>8, <1>9, <1>12
    <3>2. \A j \in DOMAIN tracked' : j # k => j \in DOMAIN tracked /\ tracked'[j] = tracked[j]
      BY <1>12
    <3>3. \A j \in DOMAIN tracked :
            tracked[j].generation >= 1 /\ tracked[j].deadline <= now + AckTimeout[j[1]]
      BY DEF TrackerInv, TrackedInv
    <3>4. QED
      BY <3>1, <3>2, <3>3, Zenon
  <2>3. QED
    BY <1>3, <2>1, <2>2 DEF HandlesInv, TrackedInv
<1>18. LatestInv'
  <2>1. ASSUME NEW h \in Range(heap'), h.key \in DOMAIN tracked'
        PROVE  /\ h.deadline <= tracked'[h.key].deadline
               /\ h.generation = tracked'[h.key].generation =>
                    h.deadline = tracked'[h.key].deadline
    <3>1. CASE h = new
      BY <1>8, <1>10, <1>12, <3>1
    <3>2. CASE h \in Range(heap) /\ h.key # k
      BY <1>12, <2>1, <3>2 DEF TrackerInv, LatestInv
    <3>3. CASE h \in Range(heap) /\ h.key = k
      <4>1. h.deadline <= d
        BY <1>1, <1>8, <3>3 DEF TrackerInv, HandlesInv
      <4>2. h.generation # g
        BY <1>3, <1>6, <1>7, <1>9, <3>3 DEF TrackerInv, RenewalInv
      <4>3. QED
        BY <1>12, <3>3, <4>1, <4>2
    <3>4. QED
      BY <1>11, <3>1, <3>2, <3>3
  <2>2. QED
    BY <2>1 DEF LatestInv
<1>19. RenewalInv'
  <2>1. ASSUME NEW h \in Range(heap'), entry'[h.key] = "queued"
        PROVE  /\ h.generation >= 2
               /\ h.key \in DOMAIN tracked' => h.generation <= tracked'[h.key].generation
    <3>1. h.key # k
      BY <1>13, <2>1
    <3>2. h \in Range(heap) /\ h.key \in Keys
      BY <1>7, <1>10, <1>11, <3>1
    <3>3. entry[h.key] = "queued"
      BY <1>13, <2>1, <3>1, <3>2
    <3>4. QED
      BY <1>12, <3>1, <3>2, <3>3 DEF TrackerInv, RenewalInv
  <2>2. QED
    BY <2>1 DEF RenewalInv
<1>20. OneGenerationInv'
  <2>1. ASSUME ~Spilling, NEW h \in Range(heap')
        PROVE  /\ h.key \in DOMAIN tracked' => h.generation <= tracked'[h.key].generation
               /\ entry'[h.key] = "queued" => h.key \in DOMAIN tracked'
    <3>1. CASE h = new
      BY <1>9, <1>10, <1>12, <3>1
    <3>2. CASE h \in Range(heap) /\ h.key # k
      BY <1>7, <1>12, <1>13, <2>1, <3>2 DEF TrackerInv, OneGenerationInv
    <3>3. CASE h \in Range(heap) /\ h.key = k
      <4>1. k \in DOMAIN tracked /\ h.generation <= tracked[k].generation
        BY <1>3, <2>1, <3>3 DEF TrackerInv, OneGenerationInv
      <4>2. QED
        BY <1>6, <1>7, <1>9, <1>12, <3>3, <4>1
    <3>4. QED
      BY <1>11, <3>1, <3>2, <3>3
  <2>2. ASSUME ~Spilling, NEW j \in DOMAIN tracked', entry'[j] = "queued"
        PROVE  retryCount[j] > 0
    <3>1. j # k /\ j \in DOMAIN tracked /\ j \in Keys
      BY <1>5, <1>12, <1>13, <2>2
    <3>2. QED
      BY <1>13, <2>2, <3>1 DEF TrackerInv, OneGenerationInv
  <2>3. ~Spilling => \A i, j \in DOMAIN decisions : decisions[i].key = decisions[j].key => i = j
    BY DEF TrackerInv, OneGenerationInv
  <2>4. QED
    BY <1>3, <2>1, <2>2, <2>3, SameSpilling DEF OneGenerationInv
<1>21. QED
  BY <1>14, <1>15, <1>16, <1>17, <1>18, <1>19, <1>20 DEF TrackerInv

\* A pass.  Nothing is left in the heap that has expired, so the handles of the
\* keys it decided about are those of its own retries.
LEMMA CollectKeepsInv ==
  ASSUME TrackerInv, policy' = policy, CollectExpired
  PROVE  TrackerInv'
<1>1. PICK p : p = Rounds[Cardinality(Expired(heap))]
  OBVIOUS
<1>2. /\ tracked' = p.tracked /\ heap' = p.heap /\ retryCount' = p.retryCount
      /\ entry' = p.entry /\ decisions' = p.decisions /\ now' = now
  BY <1>1 DEF CollectExpired
<1>3. /\ p \in Passes /\ PassInv(p)
      /\ OrderedHeap(p.heap) /\ Complete(p.tracked, p.heap) /\ Expired(p.heap) = {}
  BY <1>1, PassEnds DEF CollectExpired
<1>4. PassDecides(p) /\ (~Spilling => PassOnce(p))
  BY <1>3 DEF PassInv
<1>5. PICK D : D = DecidedKeys(p.decisions)
  OBVIOUS
<1>6. /\ now \in Nat /\ tracked \in Tables /\ p.tracked \in Tables /\ p.heap \in Seq(Handles)
      /\ retryCount \in [Keys -> Nat] /\ p.retryCount \in [Keys -> Nat]
  BY <1>3 DEF TrackerInv, TrackerTypes, Passes
<1>7. /\ DOMAIN tracked \subseteq Keys /\ tracked \in [DOMAIN tracked -> Registrations]
      /\ DOMAIN p.tracked \subseteq Keys /\ p.tracked \in [DOMAIN p.tracked -> Registrations]
      /\ Range(p.heap) \subseteq Handles
  BY <1>6, TableFacts, RangeOfSeq
<1>8. /\ \A k \in DOMAIN tracked : tracked[k].generation \in Nat /\ tracked[k].deadline \in Nat
      /\ \A k \in DOMAIN p.tracked : p.tracked[k].generation \in Nat
      /\ \A h \in Range(p.heap) : h.key \in Keys /\ h.generation \in Nat /\ h.deadline \in Nat
  BY <1>7 DEF Registrations, Handles
<1>9. \A k \in Keys : AckTimeout[k[1]] \in Nat \ {0}
  BY TimingAssumption DEF Keys
<1>10. \A h \in Range(p.heap) : ~(h.deadline <= now)
  BY <1>3 DEF Expired, Range
<1>11. \* what the pass has not decided about
       \A k \in Keys \ D : /\ k \in DOMAIN p.tracked <=> k \in DOMAIN tracked
                           /\ k \in DOMAIN tracked => p.tracked[k] = tracked[k]
                           /\ p.entry[k] = entry[k] /\ p.retryCount[k] = retryCount[k]
  BY <1>4, <1>5 DEF PassDecides
<1>12. \* what it has
       \A k \in D : /\ k \in DOMAIN tracked /\ tracked[k].deadline <= now
                    /\ k \in DOMAIN p.tracked =>
                         /\ p.tracked[k].deadline = now + AckTimeout[k[1]]
                         /\ p.tracked[k].generation >= 2
  BY <1>4, <1>5 DEF PassDecides, Due
<1>13. ASSUME NEW h \in Range(p.heap), h.key \in D
       PROVE  /\ h \notin Range(heap)
              /\ h.generation >= 2 /\ h.deadline = now + AckTimeout[h.key[1]]
              /\ h.key \in DOMAIN p.tracked => h.generation <= p.tracked[h.key].generation
  <2>1. h \notin Range(heap)
    <3>1. SUFFICES ASSUME h \in Range(heap)
                   PROVE  FALSE
      OBVIOUS
    <3>2. h.deadline <= tracked[h.key].deadline
      BY <1>12, <1>13, <3>1 DEF TrackerInv, LatestInv
    <3>3. QED
      BY <1>6, <1>8, <1>10, <1>12, <1>13, <3>2
  <2>2. QED
    BY <1>4, <1>13, <2>1 DEF PassDecides
<1>14. ASSUME NEW h \in Range(p.heap), h.key \notin D
       PROVE  h \in Range(heap)
  BY <1>4, <1>5, <1>14 DEF PassDecides
<1>15. TrackerTypes'
  BY <1>2, <1>3 DEF TrackerInv, TrackerTypes, Passes
<1>16. HeapOrdered' /\ HandlePerRegistration'
  BY <1>2, <1>3 DEF HeapOrdered, OrderedHeap, HandlePerRegistration, Complete
<1>17. HandlesInv'
  <2>1. ASSUME NEW h \in Range(p.heap)
        PROVE  h.generation >= 1 /\ h.deadline <= now + AckTimeout[h.key[1]]
    <3>1. CASE h.key \in D
      BY <1>6, <1>8, <1>9, <1>13, <3>1
    <3>2. CASE h.key \notin D
      BY <1>14, <3>2 DEF TrackerInv, HandlesInv
    <3>3. QED
      BY <3>1, <3>2
  <2>2. QED
    BY <1>2, <2>1 DEF HandlesInv
<1>18. TrackedInv'
  <2>1. ASSUME NEW k \in DOMAIN p.tracked
        PROVE  p.tracked[k].generation >= 1 /\ p.tracked[k].deadline <= now + AckTimeout[k[1]]
    <3>1. k \in Keys
      BY <1>7
    <3>2. CASE k \in D
      BY <1>6, <1>8, <1>9, <1>12, <3>1, <3>2
    <3>3. CASE k \notin D
      BY <1>11, <3>1, <3>3 DEF TrackerInv, TrackedInv
    <3>4. QED
      BY <3>2, <3>3
  <2>2. QED
    BY <1>2, <2>1 DEF TrackedInv
<1>19. LatestInv'
  <2>1. ASSUME NEW h \in Range(p.heap), h.key \in DOMAIN p.tracked
        PROVE  /\ h.deadline <= p.tracked[h.key].deadline
               /\ h.generation = p.tracked[h.key].generation =>
                    h.deadline = p.tracked[h.key].deadline
    <3>1. CASE h.key \in D
      <4>1. h.deadline = p.tracked[h.key].deadline
        BY <1>12, <1>13, <2>1, <3>1
      <4>2. QED
        BY <1>8, <4>1
    <3>2. CASE h.key \notin D
      <4>1. p.tracked[h.key] = tracked[h.key] /\ h.key \in DOMAIN tracked
        BY <1>8, <1>11, <2>1, <3>2
      <4>2. QED
        BY <1>14, <3>2, <4>1 DEF TrackerInv, LatestInv
    <3>3. QED
      BY <3>1, <3>2
  <2>2. QED
    BY <1>2, <2>1 DEF LatestInv
<1>20. RenewalInv'
  <2>1. ASSUME NEW h \in Range(p.heap), p.entry[h.key] = "queued"
        PROVE  /\ h.generation >= 2
               /\ h.key \in DOMAIN p.tracked => h.generation <= p.tracked[h.key].generation
    <3>1. CASE h.key \in D
      BY <1>13, <3>1
    <3>2. CASE h.key \notin D
      <4>1. /\ h \in Range(heap) /\ entry[h.key] = "queued"
            /\ h.key \in DOMAIN p.tracked =>
                 h.key \in DOMAIN tracked /\ p.tracked[h.key] = tracked[h.key]
        BY <1>8, <1>11, <1>14, <2>1, <3>2
      <4>2. QED
        BY <4>1 DEF TrackerInv, RenewalInv
    <3>3. QED
      BY <3>1, <3>2
  <2>2. QED
    BY <1>2, <2>1 DEF RenewalInv
<1>21. ASSUME ~Spilling
       PROVE  /\ \A h \in Range(p.heap) :
                   /\ h.key \in DOMAIN p.tracked => h.generation <= p.tracked[h.key].generation
                   /\ p.entry[h.key] = "queued" => h.key \in DOMAIN p.tracked
              /\ \A k \in DOMAIN p.tracked : p.entry[k] = "queued" => p.retryCount[k] > 0
              /\ DistinctKeys(p.decisions)
  <2>1. PassOnce(p)
    BY <1>4, <1>21
  <2>2. ASSUME NEW h \in Range(p.heap)
        PROVE  /\ h.key \in DOMAIN p.tracked => h.generation <= p.tracked[h.key].generation
               /\ p.entry[h.key] = "queued" => h.key \in DOMAIN p.tracked
    <3>1. CASE h.key \in D
      BY <1>13, <2>1, <3>1 DEF PassOnce
    <3>2. CASE h.key \notin D
      BY <1>8, <1>11, <1>14, <1>21, <3>2 DEF TrackerInv, OneGenerationInv
    <3>3. QED
      BY <3>1, <3>2
  <2>3. ASSUME NEW k \in DOMAIN p.tracked, p.entry[k] = "queued"
        PROVE  p.retryCount[k] > 0
    <3>1. CASE k \in D
      <4>1. PICK e \in Range(p.decisions) : e.key = k
        BY <1>5, <3>1 DEF DecidedKeys
      <4>2. p.retryCount[k] = retryCount[k] + 1
        BY <2>1, <2>3, <4>1 DEF PassOnce, DecidedOnce
      <4>3. QED
        BY <1>6, <1>7, <4>2
    <3>2. CASE k \notin D
      BY <1>7, <1>11, <1>21, <2>3, <3>2 DEF TrackerInv, OneGenerationInv
    <3>3. QED
      BY <3>1, <3>2
  <2>4. QED
    BY <2>1, <2>2, <2>3 DEF PassOnce
<1>22. OneGenerationInv'
  BY <1>2, <1>21, SameSpilling DEF OneGenerationInv, DistinctKeys
<1>23. QED
  BY <1>15, <1>16, <1>17, <1>18, <1>19, <1>20, <1>22 DEF TrackerInv

LEMMA HandleDecisionKeepsInv ==
  ASSUME TrackerInv, policy' = policy, HandleDecision
  PROVE  TrackerInv'
<1>1. /\ decisions # <<>> /\ decisions' = Tail(decisions)
      /\ UNCHANGED <<now, tracked, heap, retryCount>>
      /\ \/ entry' = entry
         \/ entry' = [entry EXCEPT ![Head(decisions).key] = "gone"]
  BY DEF HandleDecision, Idle
<1>2. decisions \in Seq(Decisions) /\ entry \in [Keys -> Entries]
  BY DEF TrackerInv, TrackerTypes
<1>3. entry' \in [Keys -> Entries] /\ \A k \in Keys : entry'[k] \in {entry[k], "gone"}
  <2>1. PICK k : k = Head(decisions).key
    OBVIOUS
  <2>2. entry' = entry \/ entry' = [entry EXCEPT ![k] = "gone"]
    BY <1>1, <2>1
  <2>3. QED
    BY <1>2, <2>2 DEF Entries
<1>4. decisions' \in Seq(Decisions)
  BY <1>1, <1>2, TailOfSequence
<1>5. DistinctKeys(decisions) => DistinctKeys(decisions')
  <2>1. /\ Len(decisions) \in Nat \ {0} /\ DOMAIN decisions = 1..Len(decisions)
        /\ DOMAIN decisions' = 1..(Len(decisions) - 1)
        /\ \A i \in 1..(Len(decisions) - 1) : decisions'[i] = decisions[i + 1]
    BY <1>1, <1>2, <1>4, HeadTailProperties, EmptySeq, LenProperties
  <2>2. QED
    BY <2>1 DEF DistinctKeys
<1>6. TrackerTypes'
  BY <1>1, <1>3, <1>4 DEF TrackerInv, TrackerTypes
<1>7. HeapOrdered' /\ HandlePerRegistration' /\ HandlesInv' /\ TrackedInv' /\ LatestInv'
  BY <1>1 DEF TrackerInv, HeapOrdered, HandlePerRegistration, HandlesInv, TrackedInv, LatestInv
<1>8. /\ \A h \in Range(heap) : h.key \in Keys
      /\ DOMAIN tracked \subseteq Keys
  <2>1. tracked \in Tables /\ heap \in Seq(Handles)
    BY DEF TrackerInv, TrackerTypes
  <2>2. DOMAIN tracked \subseteq Keys /\ Range(heap) \subseteq Handles
    BY <2>1, TableFacts, RangeOfSeq
  <2>3. QED
    BY <2>2 DEF Handles
<1>9. \A k \in Keys : entry'[k] = "queued" => entry[k] = "queued"
  BY <1>3
<1>10. RenewalInv'
  BY <1>1, <1>8, <1>9 DEF TrackerInv, RenewalInv
<1>11. ASSUME ~Spilling
       PROVE  /\ \A h \in Range(heap) :
                   /\ h.key \in DOMAIN tracked => h.generation <= tracked[h.key].generation
                   /\ entry'[h.key] = "queued" => h.key \in DOMAIN tracked
              /\ \A k \in DOMAIN tracked : entry'[k] = "queued" => retryCount[k] > 0
              /\ DistinctKeys(decisions')
  <2>1. DistinctKeys(decisions)
    BY <1>11 DEF TrackerInv, OneGenerationInv, DistinctKeys
  <2>2. QED
    BY <1>5, <1>8, <1>9, <1>11, <2>1 DEF TrackerInv, OneGenerationInv
<1>12. OneGenerationInv'
  BY <1>1, <1>11, SameSpilling DEF OneGenerationInv, DistinctKeys
<1>13. QED
  BY <1>6, <1>7, <1>10, <1>12 DEF TrackerInv

LEMMA TickKeepsInv ==
  ASSUME TrackerInv, policy' = policy, Tick
  PROVE  TrackerInv'
<1>1. now' = now + 1 /\ UNCHANGED <<tracked, heap, retryCount, entry, decisions>>
  BY DEF Tick
<1>2. now \in Nat /\ tracked \in Tables /\ heap \in Seq(Handles)
  BY DEF TrackerInv, TrackerTypes
<1>3. /\ DOMAIN tracked \subseteq Keys /\ tracked \in [DOMAIN tracked -> Registrations]
      /\ Range(heap) \subseteq Handles
  BY <1>2, TableFacts, RangeOfSeq
<1>4. \A k \in Keys : AckTimeout[k[1]] \in Nat
  BY TimingAssumption DEF Keys
<1>5. TrackerTypes'
  BY <1>1, <1>2 DEF TrackerInv, TrackerTypes
<1>6. HandlesInv'
  <2>1. ASSUME NEW h \in Range(heap)
        PROVE  h.generation >= 1 /\ h.deadline <= now' + AckTimeout[h.key[1]]
    <3>1. h.key \in Keys /\ h.deadline \in Nat /\ AckTimeout[h.key[1]] \in Nat
      BY <1>3, <1>4 DEF Handles
    <3>2. h.generation >= 1 /\ h.deadline <= now + AckTimeout[h.key[1]]
      BY DEF TrackerInv, HandlesInv
    <3>3. QED
      BY <1>1, <1>2, <3>1, <3>2
  <2>2. QED
    BY <1>1, <2>1 DEF HandlesInv
<1>7. TrackedInv'
  <2>1. ASSUME NEW k \in DOMAIN tracked
        PROVE  tracked[k].generation >= 1 /\ tracked[k].deadline <= now' + AckTimeout[k[1]]
    <3>1. k \in Keys /\ tracked[k].deadline \in Nat /\ AckTimeout[k[1]] \in Nat
      BY <1>3, <1>4 DEF Registrations
    <3>2. tracked[k].generation >= 1 /\ tracked[k].deadline <= now + AckTimeout[k[1]]
      BY DEF TrackerInv, TrackedInv
    <3>3. QED
      BY <1>1, <1>2, <3>1, <3>2
  <2>2. QED
    BY <1>1, <2>1 DEF TrackedInv
<1>8. HeapOrdered' /\ HandlePerRegistration' /\ LatestInv' /\ RenewalInv'
  BY <1>1 DEF TrackerInv, HeapOrdered, HandlePerRegistration, LatestInv, RenewalInv
<1>9. OneGenerationInv'
  BY <1>1, SameSpilling DEF TrackerInv, OneGenerationInv
<1>10. QED
  BY <1>5, <1>6, <1>7, <1>8, <1>9 DEF TrackerInv

\* The inductive invariant of the tracker, for any lanes, timeouts and policies.
THEOREM TrackerInvariant == Spec => []TrackerInv
<1>1. Init => TrackerInv
  <2>1. SUFFICES ASSUME Init
                 PROVE  TrackerInv
    OBVIOUS
  <2>2. /\ policy \in Policies /\ now = 0 /\ tracked = <<>> /\ heap = <<>>
        /\ retryCount = [k \in Keys |-> 0] /\ entry = [k \in Keys |-> "queued"]
        /\ decisions = <<>>
    BY <2>1 DEF Init
  <2>3. DOMAIN tracked = {} /\ DOMAIN heap = {} /\ DOMAIN decisions = {} /\ Len(heap) = 0
    BY <2>2
  <2>4. Range(heap) = {}
    BY <2>3 DEF Range
  <2>5. tracked \in Tables
    <3>1. tracked = [k \in {} |-> 0]
      BY <2>2
    <3>2. tracked \in [DOMAIN tracked -> Registrations]
      BY <2>3, <3>1
    <3>3. QED
      BY <2>3, <3>2, TableFacts
  <2>6. TrackerTypes
    BY <2>2, <2>5 DEF TrackerTypes, Entries
  <2>7. HeapOrdered /\ HandlePerRegistration
    BY <2>3 DEF HeapOrdered, HandlePerRegistration
  <2>8. HandlesInv /\ TrackedInv /\ LatestInv /\ RenewalInv /\ OneGenerationInv
    BY <2>3, <2>4 DEF HandlesInv, TrackedInv, LatestInv, RenewalInv, OneGenerationInv
  <2>9. QED
    BY <2>6, <2>7, <2>8 DEF TrackerInv
<1>2. TrackerInv /\ [Next]_vars => TrackerInv'
  <2>1. SUFFICES ASSUME TrackerInv, [Next]_vars
                 PROVE  TrackerInv'
    OBVIOUS
  <2>2. CASE UNCHANGED vars
    <3>1. UNCHANGED <<policy, now, tracked, heap, retryCount, entry, decisions>>
      BY <2>2 DEF vars
    <3>2. TrackerTypes' /\ HeapOrdered' /\ HandlePerRegistration'
      BY <2>1, <3>1 DEF TrackerInv, TrackerTypes, HeapOrdered, HandlePerRegistration
    <3>3. HandlesInv' /\ TrackedInv' /\ LatestInv' /\ RenewalInv' /\ OneGenerationInv'
      BY <2>1, <3>1, SameSpilling
         DEF TrackerInv, HandlesInv, TrackedInv, LatestInv, RenewalInv, OneGenerationInv
    <3>4. QED
      BY <3>2, <3>3 DEF TrackerInv
  <2>3. ASSUME policy' = policy, NEW l \in Lanes, NEW id \in Ids, Register(l, id)
        PROVE  TrackerInv'
    BY <2>1, <2>3, RegisterKeepsInv
  <2>4. ASSUME policy' = policy, NEW l \in Lanes, NEW id \in Ids, Acknowledge(l, id)
        PROVE  TrackerInv'
    BY <2>1, <2>4, AcknowledgeKeepsInv
  <2>5. ASSUME policy' = policy, NEW S \in SUBSET Lanes, RemoveLanes(S)
        PROVE  TrackerInv'
    BY <2>1, <2>5, RemoveLanesKeepsInv
  <2>6. ASSUME policy' = policy, CollectExpired
        PROVE  TrackerInv'
    BY <2>1, <2>6, CollectKeepsInv
  <2>7. ASSUME policy' = policy, HandleDecision
        PROVE  TrackerInv'
    BY <2>1, <2>7, HandleDecisionKeepsInv
  <2>8. ASSUME policy' = policy, Tick
        PROVE  TrackerInv'
    BY <2>1, <2>8, TickKeepsInv
  <2>9. QED
    BY <2>1, <2>2, <2>3, <2>4, <2>5, <2>6, <2>7, <2>8 DEF Next, Step
<1>3. QED
  BY <1>1, <1>2, PTL DEF Spec

\* heapPeek is the least deadline, whatever was pushed and popped.
THEOREM HeapStaysOrdered == Spec => []HeapOrdered
<1>1. TrackerInv => HeapOrdered
  BY DEF TrackerInv
<1>2. QED
  BY <1>1, TrackerInvariant, PTL

\* Nothing that waits for an ack is forgotten by the heap.
THEOREM EveryRegistrationHasItsHandle == Spec => []HandlePerRegistration
<1>1. TrackerInv => HandlePerRegistration
  BY DEF TrackerInv
<1>2. QED
  BY <1>1, TrackerInvariant, PTL

\* A pass decides about all that is due: the handle of a registration it left
\* would still be in the heap, and expired.
LEMMA PassDecidesDue ==
  ASSUME TrackerInv, CollectExpired
  PROVE  DecidedKeys(decisions') = Due
<1>1. PICK p : p = Rounds[Cardinality(Expired(heap))]
  OBVIOUS
<1>2. decisions' = p.decisions
  BY <1>1 DEF CollectExpired
<1>3. PassInv(p) /\ Complete(p.tracked, p.heap) /\ Expired(p.heap) = {}
  BY <1>1, PassEnds DEF CollectExpired
<1>4. DecidedKeys(p.decisions) \subseteq Due
  BY <1>3 DEF PassInv, PassDecides
<1>5. ASSUME NEW k \in Due, k \notin DecidedKeys(p.decisions)
      PROVE  FALSE
  <2>1. k \in Keys /\ k \in DOMAIN tracked /\ tracked[k].deadline <= now
    <3>1. k \in DOMAIN tracked /\ tracked[k].deadline <= now
      BY DEF Due
    <3>2. DOMAIN tracked \subseteq Keys
      BY TableFacts DEF TrackerInv, TrackerTypes
    <3>3. QED
      BY <3>1, <3>2
  <2>2. k \in DOMAIN p.tracked /\ p.tracked[k] = tracked[k]
    BY <1>3, <1>5, <2>1 DEF PassInv, PassDecides
  <2>3. PICK h \in Range(p.heap) : h = Handle(k, p.tracked[k].deadline, p.tracked[k].generation)
    BY <1>3, <2>2 DEF Complete
  <2>4. h.deadline <= now
    BY <2>1, <2>2, <2>3 DEF Handle
  <2>5. QED
    BY <1>3, <2>4 DEF Expired, Range
<1>6. QED
  BY <1>2, <1>4, <1>5

\* A pass decides exactly about the registrations whose deadline has come: none
\* early through an old handle, none hidden behind one.
THEOREM PassesDecideTheExpired == Spec => DecidesTheExpired
<1>1. TrackerInv /\ [Next]_vars =>
        [CollectExpired => DecidedKeys(decisions') =
           {k \in DOMAIN tracked : tracked[k].deadline <= now}]_vars
  BY PassDecidesDue DEF Due
<1>2. QED
  BY <1>1, TrackerInvariant, PTL DEF Spec, DecidesTheExpired

-----------------------------------------------------------------------------
(* The heap and its generations implement PendingAcks.                     *)

PendingOf(t) == [l \in Lanes |-> {id \in Ids : <<l, id>> \in DOMAIN t}]
CountsOf(r)  == [l \in Lanes |-> [id \in Ids |-> r[<<l, id>>]]]
Abstract(d)  == [lane |-> d.key[1], id |-> d.key[2], action |-> d.action]
AbstractsOf(ds) == {Abstract(d) : d \in Range(ds)}

LEMMA AckConstants == Acks!Lanes = Lanes /\ Acks!Ids = Ids
BY DEF Acks!Lanes, Lanes, Acks!Ids, Ids

LEMMA LaneKeys ==
  ASSUME NEW k \in Keys
  PROVE  k[1] \in Lanes /\ k[2] \in Ids /\ k = <<k[1], k[2]>>
BY DEF Keys

LEMMA RegisterStep ==
  ASSUME TrackerInv, NEW l \in Lanes, NEW id \in Ids, Register(l, id)
  PROVE  Acks!Register(l, id)
<1>1. DOMAIN tracked' = DOMAIN tracked \cup {<<l, id>>}
  BY DEF Register, Put
<1>2. retryCount' = retryCount /\ decisions' = decisions
  BY DEF Register
<1>3. PendingOf(tracked') = [PendingOf(tracked) EXCEPT ![l] = @ \cup {id}]
  <2>1. SUFFICES ASSUME NEW m \in Lanes
                 PROVE  PendingOf(tracked')[m] = [PendingOf(tracked) EXCEPT ![l] = @ \cup {id}][m]
    BY DEF PendingOf
  <2>2. QED
    BY <1>1 DEF PendingOf
<1>4. QED
  BY <1>2, <1>3 DEF Acks!Register, PendingOf

LEMMA AcknowledgeStep ==
  ASSUME TrackerInv, NEW l \in Lanes, NEW id \in Ids, Acknowledge(l, id)
  PROVE  Acks!Acknowledge(l, id)
<1>1. DOMAIN tracked' = DOMAIN tracked \ {<<l, id>>}
  BY DEF Acknowledge, Without
<1>2. retryCount' = retryCount /\ decisions' = decisions
  BY DEF Acknowledge
<1>3. PendingOf(tracked') = [PendingOf(tracked) EXCEPT ![l] = @ \ {id}]
  <2>1. SUFFICES ASSUME NEW m \in Lanes
                 PROVE  PendingOf(tracked')[m] = [PendingOf(tracked) EXCEPT ![l] = @ \ {id}][m]
    BY DEF PendingOf
  <2>2. QED
    BY <1>1 DEF PendingOf
<1>4. QED
  BY <1>2, <1>3 DEF Acks!Acknowledge, PendingOf

LEMMA RemoveLanesStep ==
  ASSUME TrackerInv, NEW S \in SUBSET Lanes, RemoveLanes(S)
  PROVE  Acks!RemoveLanes(S)
<1>1. DOMAIN tracked' = DOMAIN tracked \ (S \X Ids)
  BY DEF RemoveLanes, Without
<1>2. retryCount' = retryCount /\ decisions' = decisions
  BY DEF RemoveLanes
<1>3. PendingOf(tracked') = [l \in Lanes |-> IF l \in S THEN {} ELSE PendingOf(tracked)[l]]
  <2>1. \A l \in Lanes : PendingOf(tracked')[l] = IF l \in S THEN {} ELSE PendingOf(tracked)[l]
    BY <1>1 DEF PendingOf
  <2>2. QED
    BY <2>1 DEF PendingOf
<1>4. QED
  BY <1>2, <1>3, AckConstants DEF Acks!RemoveLanes, PendingOf

\* A pass is Expire of the keys it decided about, if it decided at all.
LEMMA CollectStep ==
  ASSUME TrackerInv, ~Spilling, CollectExpired
  PROVE  \/ UNCHANGED Acks!ackVars
         \/ AbstractsOf(decisions) = {} /\
            \E expired \in SUBSET {k \in Lanes \X Ids : k[2] \in PendingOf(tracked)[k[1]]} :
              expired # {} /\ Acks!Expire(expired)
<1>1. PICK p : p = Rounds[Cardinality(Expired(heap))]
  OBVIOUS
<1>2. /\ tracked' = p.tracked /\ retryCount' = p.retryCount /\ decisions' = p.decisions
      /\ decisions = <<>>
  BY <1>1 DEF CollectExpired, Idle
<1>3. p \in Passes /\ PassDecides(p) /\ PassOnce(p)
  BY <1>1, PassEnds DEF CollectExpired, PassInv
<1>4. PICK D : D = DecidedKeys(p.decisions)
  OBVIOUS
<1>5. /\ DOMAIN tracked \subseteq Keys /\ DOMAIN p.tracked \subseteq Keys
      /\ retryCount \in [Keys -> Nat] /\ p.retryCount \in [Keys -> Nat]
      /\ Range(p.decisions) \subseteq Decisions
  <2>1. tracked \in Tables /\ p.tracked \in Tables /\ p.decisions \in Seq(Decisions)
    BY <1>3 DEF TrackerInv, TrackerTypes, Passes
  <2>2. QED
    BY <1>3, <2>1, TableFacts, RangeOfSeq DEF TrackerInv, TrackerTypes, Passes
<1>6. /\ D \subseteq DOMAIN tracked /\ DOMAIN p.tracked \subseteq DOMAIN tracked
      /\ \A k \in Keys \ D : /\ k \in DOMAIN p.tracked <=> k \in DOMAIN tracked
                             /\ p.retryCount[k] = retryCount[k]
  BY <1>3, <1>4 DEF PassDecides, Due
<1>7. ASSUME NEW d \in Range(p.decisions)
      PROVE  /\ d.key \in D /\ d.key \in Keys
             /\ d.action = IF retryCount[d.key] < MaxRetries THEN "RETRY" ELSE "EXHAUSTED"
             /\ d.key \in DOMAIN p.tracked <=> retryCount[d.key] < MaxRetries
             /\ p.retryCount[d.key] = IF retryCount[d.key] < MaxRetries
                                        THEN retryCount[d.key] + 1 ELSE retryCount[d.key]
  <2>1. d.key \in D /\ d.key \in Keys
    BY <1>4, <1>5 DEF DecidedKeys, Decisions
  <2>2. DecidedOnce(p, d)
    BY <1>3 DEF PassOnce
  <2>3. QED
    BY <2>1, <2>2 DEF DecidedOnce
<1>8. \A k \in D : \E d \in Range(p.decisions) : d.key = k
  BY <1>4 DEF DecidedKeys
<1>9. /\ \A k \in D : k \in DOMAIN p.tracked <=> retryCount[k] < MaxRetries
      /\ \A k \in D : p.retryCount[k] = IF retryCount[k] < MaxRetries
                                          THEN retryCount[k] + 1 ELSE retryCount[k]
  BY <1>7, <1>8
<1>10. \A l \in Lanes, id \in Ids :
         Acks!Verdict(l, id) = IF retryCount[<<l, id>>] < MaxRetries THEN "RETRY" ELSE "EXHAUSTED"
  BY DEF Acks!Verdict, Acks!MaxRetries, MaxRetries
<1>11. CASE D = {}
  <2>1. Range(p.decisions) = {}
    BY <1>4, <1>11 DEF DecidedKeys
  <2>2. Range(decisions) = {}
    BY <1>2 DEF Range
  <2>3. PendingOf(p.tracked) = PendingOf(tracked)
    BY <1>5, <1>6, <1>11 DEF PendingOf, Keys
  <2>4. p.retryCount = retryCount
    BY <1>5, <1>6, <1>11
  <2>5. UNCHANGED Acks!ackVars
    BY <1>2, <2>1, <2>2, <2>3, <2>4 DEF Acks!ackVars, PendingOf
  <2>6. QED
    BY <2>5
<1>12. CASE D # {}
  <2>1. D \in SUBSET {k \in Lanes \X Ids : k[2] \in PendingOf(tracked)[k[1]]}
    <3>1. ASSUME NEW k \in D
          PROVE  k \in Lanes \X Ids /\ k[2] \in PendingOf(tracked)[k[1]]
      <4>1. k \in Keys /\ k \in DOMAIN tracked
        BY <1>5, <1>6
      <4>2. k[1] \in Lanes /\ k[2] \in Ids /\ <<k[1], k[2]>> \in DOMAIN tracked
        BY <4>1, LaneKeys
      <4>3. QED
        BY <4>1, <4>2 DEF PendingOf, Keys
    <3>2. QED
      BY <3>1
  <2>2. AbstractsOf(decisions) = {}
    BY <1>2 DEF AbstractsOf, Range
  <2>3. CountsOf(p.retryCount) = [l \in Lanes |-> [id \in Ids |->
          IF <<l, id>> \in D /\ Acks!Verdict(l, id) = "RETRY"
            THEN CountsOf(retryCount)[l][id] + 1 ELSE CountsOf(retryCount)[l][id]]]
    <3>1. ASSUME NEW l \in Lanes, NEW id \in Ids
          PROVE  p.retryCount[<<l, id>>] = IF <<l, id>> \in D /\ Acks!Verdict(l, id) = "RETRY"
                   THEN retryCount[<<l, id>>] + 1 ELSE retryCount[<<l, id>>]
      <4>1. <<l, id>> \in Keys
        BY DEF Keys
      <4>2. QED
        BY <1>6, <1>9, <1>10, <4>1
    <3>2. QED
      BY <3>1 DEF CountsOf
  <2>4. PendingOf(p.tracked) = [l \in Lanes |->
          {id \in PendingOf(tracked)[l] : <<l, id>> \in D => Acks!Verdict(l, id) = "RETRY"}]
    <3>1. ASSUME NEW l \in Lanes, NEW id \in Ids
          PROVE  <<l, id>> \in DOMAIN p.tracked <=>
                   /\ <<l, id>> \in DOMAIN tracked
                   /\ <<l, id>> \in D => Acks!Verdict(l, id) = "RETRY"
      <4>1. <<l, id>> \in Keys
        BY DEF Keys
      <4>2. QED
        BY <1>6, <1>9, <1>10, <4>1
    <3>2. \A l \in Lanes : PendingOf(p.tracked)[l] =
            {id \in PendingOf(tracked)[l] : <<l, id>> \in D => Acks!Verdict(l, id) = "RETRY"}
      BY <3>1 DEF PendingOf
    <3>3. QED
      BY <3>2 DEF PendingOf
  <2>5. AbstractsOf(p.decisions) =
          {[lane |-> k[1], id |-> k[2], action |-> Acks!Verdict(k[1], k[2])] : k \in D}
    <3>1. \A d \in Range(p.decisions) :
            Abstract(d) = [lane |-> d.key[1], id |-> d.key[2],
                           action |-> Acks!Verdict(d.key[1], d.key[2])]
      <4>1. SUFFICES ASSUME NEW d \in Range(p.decisions)
                     PROVE  d.action = Acks!Verdict(d.key[1], d.key[2])
        BY DEF Abstract
      <4>2. PICK k : k = d.key
        OBVIOUS
      <4>3. k[1] \in Lanes /\ k[2] \in Ids /\ k = <<k[1], k[2]>>
        BY <1>7, <4>2, LaneKeys
      <4>4. d.action = IF retryCount[k] < MaxRetries THEN "RETRY" ELSE "EXHAUSTED"
        BY <1>7, <4>2
      <4>5. QED
        BY <1>10, <4>2, <4>3, <4>4
    <3>2. QED
      BY <1>7, <1>8, <3>1 DEF AbstractsOf
  <2>6. Acks!Expire(D)
    BY <1>2, <2>3, <2>4, <2>5, AckConstants
       DEF Acks!Expire, AbstractsOf, Abstract, PendingOf, CountsOf
  <2>7. QED
    BY <1>12, <2>1, <2>2, <2>6
<1>13. QED
  BY <1>11, <1>12

LEMMA HandleDecisionStep ==
  ASSUME TrackerInv, ~Spilling, HandleDecision
  PROVE  \E d \in AbstractsOf(decisions) : Acks!Handled(d)
<1>1. /\ decisions # <<>> /\ decisions' = Tail(decisions)
      /\ tracked' = tracked /\ retryCount' = retryCount
  BY DEF HandleDecision, Idle
<1>2. decisions \in Seq(Decisions) /\ DistinctKeys(decisions)
  BY DEF TrackerInv, TrackerTypes, OneGenerationInv, DistinctKeys
<1>3. PICK e, rest : e = Head(decisions) /\ rest = Tail(decisions)
  OBVIOUS
<1>4. Range(decisions) = Range(rest) \cup {e} /\ Range(decisions) \subseteq Decisions
  BY <1>1, <1>2, <1>3, TailOfSequence, RangeOfSeq
<1>5. \A d \in Range(rest) : d.key # e.key
  <2>1. /\ Len(decisions) \in Nat \ {0} /\ DOMAIN decisions = 1..Len(decisions)
        /\ e = decisions[1] /\ DOMAIN rest = 1..(Len(decisions) - 1)
        /\ \A i \in 1..(Len(decisions) - 1) : rest[i] = decisions[i + 1]
    BY <1>1, <1>2, <1>3, HeadTailProperties, EmptySeq, LenProperties
  <2>2. QED
    BY <1>2, <2>1 DEF DistinctKeys, Range
<1>6. \A d \in Range(rest) : Abstract(d) # Abstract(e)
  <2>1. SUFFICES ASSUME NEW d \in Range(rest), Abstract(d) = Abstract(e)
                 PROVE  FALSE
    OBVIOUS
  <2>2. d.key[1] = e.key[1] /\ d.key[2] = e.key[2]
    BY <2>1 DEF Abstract
  <2>3. d.key \in Keys /\ e.key \in Keys
    BY <1>4 DEF Decisions
  <2>4. d.key = e.key
    BY <2>2, <2>3 DEF Keys
  <2>5. QED
    BY <1>5, <2>4
<1>7. AbstractsOf(rest) = AbstractsOf(decisions) \ {Abstract(e)}
  BY <1>4, <1>6 DEF AbstractsOf
<1>8. Abstract(e) \in AbstractsOf(decisions)
  BY <1>4 DEF AbstractsOf
<1>9. Acks!Handled(Abstract(e))
  BY <1>1, <1>3, <1>7 DEF Acks!Handled, AbstractsOf, Abstract
<1>10. QED
  BY <1>8, <1>9

LEMMA TrackerStep ==
  ASSUME TrackerInv, [Next]_vars
  PROVE  [~Spilling => Acks!AckNext]_(Acks!ackVars)
<1>1. SUFFICES ASSUME ~Spilling
               PROVE  Acks!AckNext \/ UNCHANGED Acks!ackVars
  OBVIOUS
<1>2. CASE UNCHANGED vars
  <2>1. tracked' = tracked /\ retryCount' = retryCount /\ decisions' = decisions
    BY <1>2 DEF vars
  <2>2. QED
    BY <2>1 DEF Acks!ackVars
<1>3. ASSUME NEW l \in Lanes, NEW id \in Ids, Register(l, id)
      PROVE  Acks!AckNext
  BY <1>3, RegisterStep, AckConstants DEF Acks!AckNext
<1>4. ASSUME NEW l \in Lanes, NEW id \in Ids, Acknowledge(l, id)
      PROVE  Acks!AckNext
  BY <1>4, AcknowledgeStep, AckConstants DEF Acks!AckNext
<1>5. ASSUME NEW S \in SUBSET Lanes, RemoveLanes(S)
      PROVE  Acks!AckNext
  BY <1>5, RemoveLanesStep, AckConstants DEF Acks!AckNext
<1>6. CASE CollectExpired
  <2>1. CASE UNCHANGED Acks!ackVars
    BY <2>1
  <2>2. CASE AbstractsOf(decisions) = {} /\
             \E expired \in SUBSET {k \in Lanes \X Ids : k[2] \in PendingOf(tracked)[k[1]]} :
               expired # {} /\ Acks!Expire(expired)
    BY <2>2, AckConstants DEF Acks!AckNext, AbstractsOf, Abstract, PendingOf
  <2>3. QED
    BY <1>1, <1>6, <2>1, <2>2, CollectStep
<1>7. CASE HandleDecision
  BY <1>1, <1>7, HandleDecisionStep DEF Acks!AckNext, AbstractsOf, Abstract
<1>8. CASE Tick
  <2>1. tracked' = tracked /\ retryCount' = retryCount /\ decisions' = decisions
    BY <1>8 DEF Tick
  <2>2. QED
    BY <2>1 DEF Acks!ackVars
<1>9. QED
  BY <1>2, <1>3, <1>4, <1>5, <1>6, <1>7, <1>8 DEF Next, Step

\* For a namespace that does not spill, what the dispatcher relies on: deadlines,
\* the heap and the generations only decide which of the sent messages expire,
\* each of them once in a pass.
THEOREM TrackerImplementsPendingAcks == Spec => ImplementsPendingAcks
<1>1. Init => Acks!AckInit
  <2>1. SUFFICES ASSUME Init
                 PROVE  Acks!AckInit
    OBVIOUS
  <2>2. /\ tracked = <<>> /\ decisions = <<>>
        /\ retryCount = [k \in Keys |-> 0]
    BY <2>1 DEF Init
  <2>3. DOMAIN tracked = {} /\ Range(decisions) = {}
    BY <2>2 DEF Range
  <2>4. \A l \in Lanes, id \in Ids : retryCount[<<l, id>>] = 0
    BY <2>2 DEF Keys
  <2>5. PendingOf(tracked) = [l \in Lanes |-> {}]
    BY <2>3 DEF PendingOf
  <2>6. CountsOf(retryCount) = [l \in Lanes |-> [id \in Ids |-> 0]]
    BY <2>4 DEF CountsOf
  <2>7. QED
    BY <2>3, <2>5, <2>6, AckConstants DEF Acks!AckInit, PendingOf, CountsOf
<1>2. TrackerInv /\ [Next]_vars => [~Spilling => Acks!AckNext]_(Acks!ackVars)
  BY TrackerStep
<1>3. QED
  BY <1>1, <1>2, TrackerInvariant, PTL DEF Spec, ImplementsPendingAcks
=============================================================================
