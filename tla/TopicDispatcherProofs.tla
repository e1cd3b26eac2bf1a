----------------------- MODULE TopicDispatcherProofs ------------------------
(***************************************************************************)
(* What holds of TopicDispatcher for every set of clients, topics and      *)
(* policies and every bound. First the lemmas about constants, policies    *)
(* and queue operations; then the range of the variables; then the in-     *)
(* flight budget of a lane. The drain tests the budget at the top of its   *)
(* loop and spends a slot only after one or two awaits, so the bound alone *)
(* is not inductive: between the test and the send the lane must keep the  *)
(* slot free, that is, nothing but its own drain may flag an entry, and a  *)
(* disk recovery belongs to a drain that passed the test. Last, the        *)
(* agreement of lane and tracker, and why no lane is forgotten.            *)
(***************************************************************************)
EXTENDS TopicDispatcher, DataLemmas, FiniteSets, SequenceTheorems,
        FiniteSetTheorems, TLAPS

\* What NamespaceSpec's validation leaves of a policy's numbers.
LEMMA PolicyNumbers ==
  ASSUME policy \in Policies
  PROVE  /\ MaxQueued \in Nat \ {0}
         /\ MaxInFlight \in Nat \ {0}
         /\ MaxRetries \in Nat
BY InstanceAssumption
   DEF ValidPolicy, MaxQueued, MaxInFlight, MaxRetries

\* Only finitely many publications are numbered, so sets of them are finite.
LEMMA IdsFinite ==
  ASSUME NEW T \in SUBSET Ids
  PROVE  IsFiniteSet(T) /\ Cardinality(T) \in Nat
<1>1. IsFiniteSet(Ids)
  BY InstanceAssumption, FS_Interval DEF Ids
<1>2. IsFiniteSet(T)
  BY <1>1, FS_Subset
<1>3. QED
  BY <1>2, FS_CardinalityType

-----------------------------------------------------------------------------
(* The queue operations of one lane return queues of message ids.          *)

\* RemoveAt closes the gap: the entries behind move up by one.
LEMMA RemoveAtProperties ==
  ASSUME NEW q \in Seq(Ids), NEW i \in 1..Len(q)
  PROVE  /\ RemoveAt(q, i) \in Seq(Ids)
         /\ DOMAIN RemoveAt(q, i) = 1..(Len(q) - 1)
         /\ \A j \in 1..(Len(q) - 1) :
              RemoveAt(q, i)[j] = IF j < i THEN q[j] ELSE q[j + 1]
<1>1. /\ Len(q) \in Nat /\ DOMAIN q = 1..Len(q)
      /\ \A j \in 1..Len(q) : q[j] \in Ids
  BY LenProperties, ElementOfSeq
<1>2. \A j \in 1..(i - 1) : q[j] \in Ids
  BY <1>1
<1>3. \A j \in (i + 1)..Len(q) : q[j] \in Ids
  BY <1>1
<1>4. PICK a : a = SubSeq(q, 1, i - 1)
  OBVIOUS
<1>5. PICK b : b = SubSeq(q, i + 1, Len(q))
  OBVIOUS
<1>6. /\ a \in Seq(Ids)
      /\ Len(a) = i - 1
      /\ \A j \in 1..(i - 1) : a[j] = q[j]
  <2>1. /\ a \in Seq(Ids)
        /\ Len(a) = IF 1 <= i - 1 THEN (i - 1) - 1 + 1 ELSE 0
        /\ \A j \in 1..((i - 1) - 1 + 1) : a[j] = q[1 + j - 1]
    BY <1>2, <1>4, <1>1, SubSeqProperties
  <2>2. QED
    BY <2>1, <1>1
<1>7. /\ b \in Seq(Ids)
      /\ Len(b) = Len(q) - i
      /\ \A j \in 1..(Len(q) - i) : b[j] = q[i + j]
  <2>1. /\ b \in Seq(Ids)
        /\ Len(b) = IF i + 1 <= Len(q) THEN Len(q) - (i + 1) + 1 ELSE 0
        /\ \A j \in 1..(Len(q) - (i + 1) + 1) : b[j] = q[(i + 1) + j - 1]
    BY <1>3, <1>5, <1>1, SubSeqProperties
  <2>2. Len(b) = Len(q) - i
    <3>1. Len(b) = IF i + 1 <= Len(q) THEN Len(q) - (i + 1) + 1 ELSE 0
      BY <2>1
    <3>2. Len(q) \in Nat /\ i \in Nat /\ i <= Len(q)
      BY <1>1
    <3>3. CASE i + 1 <= Len(q)
      <4>1. Len(b) = Len(q) - (i + 1) + 1
        BY <3>1, <3>3
      <4>2. QED
        BY <3>2, <4>1
    <3>4. CASE ~(i + 1 <= Len(q))
      <4>1. i = Len(q) /\ Len(b) = 0
        BY <3>1, <3>2, <3>4
      <4>2. QED
        BY <3>2, <4>1
    <3>5. QED
      BY <3>3, <3>4
  <2>3. ASSUME NEW j \in 1..(Len(q) - i)
        PROVE  b[j] = q[i + j]
    <3>1. j \in 1..(Len(q) - (i + 1) + 1) /\ (i + 1) + j - 1 = i + j
      BY <1>1
    <3>2. QED
      BY <2>1, <3>1
  <2>4. QED
    BY <2>1, <2>2, <2>3
<1>8. PICK r : r = a \o b
  OBVIOUS
<1>9. /\ r \in Seq(Ids)
      /\ Len(r) = Len(a) + Len(b)
      /\ \A j \in 1..(Len(a) + Len(b)) :
           r[j] = IF j <= Len(a) THEN a[j] ELSE b[j - Len(a)]
  BY <1>6, <1>7, <1>8, ConcatProperties
<1>10. DOMAIN r = 1..(Len(q) - 1)
  BY <1>1, <1>6, <1>7, <1>9, LenProperties
<1>11. ASSUME NEW j \in 1..(Len(q) - 1)
       PROVE  r[j] = IF j < i THEN q[j] ELSE q[j + 1]
  <2>1. CASE j < i
    BY <2>1, <1>1, <1>6, <1>7, <1>9
  <2>2. CASE ~(j < i)
    <3>1. j - (i - 1) \in 1..(Len(q) - i) /\ i + (j - (i - 1)) = j + 1
      BY <2>2, <1>1
    <3>2. r[j] = b[j - (i - 1)]
      <4>1. Len(a) = i - 1 /\ Len(b) = Len(q) - i
        BY <1>6, <1>7
      <4>2. j \in 1..(Len(a) + Len(b)) /\ ~(j <= Len(a))
        BY <4>1, <2>2, <1>1
      <4>3. r[j] = b[j - Len(a)]
        BY <4>2, <1>9
      <4>4. QED
        BY <4>1, <4>3
    <3>3. QED
      BY <2>2, <3>1, <3>2, <1>7
  <2>3. QED
    BY <2>1, <2>2
<1>12. QED
  BY <1>4, <1>5, <1>8, <1>9, <1>10, <1>11 DEF RemoveAt

\* removeByMessageId removes at most one entry, and no other message.
LEMMA WithoutProperties ==
  ASSUME NEW q \in Seq(Ids), NEW id
  PROVE  /\ Without(q, id) \in Seq(Ids)
         /\ Range(Without(q, id)) \subseteq Range(q)
         /\ Range(q) \ {id} \subseteq Range(Without(q, id))
<1>1. CASE id \notin Range(q)
  BY <1>1 DEF Without
<1>2. CASE id \in Range(q)
  <2>1. Len(q) \in Nat /\ DOMAIN q = 1..Len(q)
    BY LenProperties
  <2>2. PICK i : i = Min({j \in DOMAIN q : q[j] = id})
    OBVIOUS
  <2>3. i \in 1..Len(q) /\ q[i] = id
    <3>1. {j \in DOMAIN q : q[j] = id} # {}
      BY <1>2 DEF Range
    <3>2. {j \in DOMAIN q : q[j] = id} \subseteq Nat
      BY <2>1
    <3>3. QED
      BY <3>1, <3>2, <2>1, <2>2, MinIn
  <2>4. PICK r : r = RemoveAt(q, i)
    OBVIOUS
  <2>5. Without(q, id) = r
    BY <1>2, <2>2, <2>4 DEF Without
  <2>6. /\ r \in Seq(Ids)
        /\ DOMAIN r = 1..(Len(q) - 1)
        /\ \A j \in 1..(Len(q) - 1) : r[j] = IF j < i THEN q[j] ELSE q[j + 1]
    BY <2>3, <2>4, RemoveAtProperties
  <2>7. \A j \in DOMAIN r : r[j] \in Range(q)
    BY <2>1, <2>3, <2>6 DEF Range
  <2>8. ASSUME NEW j \in DOMAIN q, j # i
        PROVE  q[j] \in Range(r)
    <3>1. CASE j < i
      <4>1. j \in DOMAIN r /\ r[j] = q[j]
        BY <3>1, <2>1, <2>3, <2>6
      <4>2. QED
        BY <4>1 DEF Range
    <3>2. CASE j > i
      <4>1. j - 1 \in DOMAIN r /\ r[j - 1] = q[(j - 1) + 1] /\ (j - 1) + 1 = j
        BY <3>2, <2>1, <2>3, <2>6
      <4>2. QED
        BY <4>1 DEF Range
    <3>3. QED
      BY <3>1, <3>2, <2>1, <2>3, <2>8
  <2>9. Range(r) \subseteq Range(q)
    BY <2>7 DEF Range
  <2>10. Range(q) \ {id} \subseteq Range(r)
    BY <2>3, <2>8 DEF Range
  <2>11. QED
    BY <2>5, <2>6, <2>9, <2>10
<1>3. QED
  BY <1>1, <1>2

\* dropOldestUntilFits drops no more than there is.
LEMMA DropCountIn ==
  ASSUME NEW l, NEW n, queue[l] \in Seq(Ids)
  PROVE  DropCount(l, n) \in 0..Len(queue[l])
<1> DEFINE len == Len(queue[l])
           drops == {j \in 0..len : \/ j = len
                                    \/ Fits(SubSeq(queue[l], j + 1, len),
                                            BytesWithoutOldest(l, j), n)}
<1>1. len \in Nat
  BY LenProperties
<1>2. len \in drops
  BY <1>1
<1>3. drops \subseteq 0..len /\ 0..len \subseteq Nat
  BY <1>1
<1>4. DropCount(l, n) = Min(drops)
  BY DEF DropCount
<1> HIDE DEF drops
<1>5. QED
  BY <1>2, <1>3, <1>4, MinIn

\* It leaves a suffix of the queue.
LEMMA AfterDropType ==
  ASSUME NEW l, NEW n, queue[l] \in Seq(Ids)
  PROVE  AfterDrop(l, n) \in Seq(Ids)
<1>1. /\ Len(queue[l]) \in Nat
      /\ \A j \in 1..Len(queue[l]) : queue[l][j] \in Ids
  BY LenProperties, ElementOfSeq
<1>2. PICK k : k = DropCount(l, n)
  OBVIOUS
<1>3. k \in 0..Len(queue[l])
  BY <1>2, DropCountIn
<1>4. \A j \in (k + 1)..Len(queue[l]) : queue[l][j] \in Ids
  BY <1>1, <1>3
<1>5. SubSeq(queue[l], k + 1, Len(queue[l])) \in Seq(Ids)
  <2>1. k + 1 \in Int /\ Len(queue[l]) \in Int
    BY <1>1, <1>3
  <2>2. QED
    BY <1>4, <2>1, SubSeqProperties
<1>6. QED
  BY <1>2, <1>5 DEF AfterDrop

\* An enqueue leaves a queue of message ids, whatever the overflow action.
LEMMA QueueAfterType ==
  ASSUME NEW l, NEW n, NEW id \in Ids, queue[l] \in Seq(Ids)
  PROVE  QueueAfter(l, id, n) \in Seq(Ids)
<1>1. PICK status : status = EnqueueStatus(l, n)
  OBVIOUS
<1>2. CASE status = "ACCEPTED"
  <2>1. QueueAfter(l, id, n) = Append(queue[l], id)
    BY <1>1, <1>2 DEF QueueAfter
  <2>2. QED
    BY <2>1, AppendProperties
<1>3. CASE status = "REPLACED_SNAPSHOT"
  <2>1. QueueAfter(l, id, n) = <<id>>
    BY <1>1, <1>3 DEF QueueAfter
  <2>2. QED
    BY <2>1
<1>4. CASE status = "COALESCED"
  <2>1. PICK i : i = Max(Coalescable(l))
    OBVIOUS
  <2>2. QueueAfter(l, id, n) = [queue[l] EXCEPT ![i] = id]
    BY <1>1, <1>4, <2>1 DEF QueueAfter
  <2>3. CASE i \in 1..Len(queue[l])
    BY <2>2, <2>3, ExceptSeq
  <2>4. CASE i \notin 1..Len(queue[l])
    <3>1. queue[l] \in [1..Len(queue[l]) -> Ids]
      BY LenProperties
    <3>2. [queue[l] EXCEPT ![i] = id] = queue[l]
      BY <2>4, <3>1
    <3>3. QED
      BY <2>2, <3>2
  <2>5. QED
    BY <2>3, <2>4
<1>5. CASE status = "DROPPED_OLDEST_AND_ACCEPTED"
  <2>1. QueueAfter(l, id, n) = Append(AfterDrop(l, n), id)
    BY <1>1, <1>5 DEF QueueAfter
  <2>2. QED
    BY <2>1, AfterDropType, AppendProperties
<1>6. CASE status \notin {"ACCEPTED", "REPLACED_SNAPSHOT", "COALESCED",
                          "DROPPED_OLDEST_AND_ACCEPTED"}
  <2>1. QueueAfter(l, id, n) = queue[l]
    BY <1>1, <1>6 DEF QueueAfter
  <2>2. QED
    BY <2>1
<1>7. QED
  BY <1>2, <1>3, <1>4, <1>5, <1>6

\* The entry a drain takes is a message of the queue.
LEMMA FirstUnsentIn ==
  ASSUME NEW q \in Seq(Ids), NEW flagged, Unsent(q, flagged) # {}
  PROVE  FirstUnsent(q, flagged) \in Range(q) \ flagged
<1>1. Unsent(q, flagged) \subseteq Nat
  BY LenProperties DEF Unsent
<1>2. Min(Unsent(q, flagged)) \in Unsent(q, flagged)
  BY <1>1, MinIn
<1>3. QED
  BY <1>2 DEF FirstUnsent, Unsent, Range

\* A queue's messages are ids.
LEMMA RangeOfQueue ==
  ASSUME NEW q \in Seq(Ids)
  PROVE  Range(q) \subseteq Ids
BY LenProperties, ElementOfSeq DEF Range

-----------------------------------------------------------------------------
(* The range of the lane's variables.                                      *)

LEMMA LaneInitType == LaneInit => LaneTypeOK
BY DEF LaneInit, LaneTypeOK

\* enqueueForSession on any set of lanes.
LEMMA EnqueueAllType ==
  ASSUME LaneTypeOK, NEW S, NEW id \in Ids, NEW n \in Sizes,
         EnqueueAll(S, id, n)
  PROVE  LaneTypeOK'
<1>1. size' \in [Ids -> Nat]
  BY InstanceAssumption DEF EnqueueAll, LaneTypeOK
<1>2. queue' \in [Lanes -> Seq(Ids)]
  <2>1. \A l \in Lanes : queue[l] \in Seq(Ids)
    BY DEF LaneTypeOK
  <2>2. \A l \in Lanes : QueueAfter(l, id, n) \in Seq(Ids)
    BY <2>1, QueueAfterType
  <2>3. QED
    BY <2>1, <2>2 DEF EnqueueAll
<1>3. DOMAIN queuedBytes' = Lanes
  BY DEF EnqueueAll
<1>4. awaiting' \in [Lanes -> SUBSET Ids]
  BY DEF EnqueueAll, LaneTypeOK
<1>5. QED
  BY <1>1, <1>2, <1>3, <1>4 DEF LaneTypeOK

LEMMA RemoveByMessageIdType ==
  ASSUME LaneTypeOK, NEW l \in Lanes, NEW id, RemoveByMessageId(l, id)
  PROVE  LaneTypeOK'
<1>1. Without(queue[l], id) \in Seq(Ids)
  BY WithoutProperties DEF LaneTypeOK
<1>2. QED
  BY <1>1 DEF RemoveByMessageId, LaneTypeOK

-----------------------------------------------------------------------------
(* DiskSpillQueue.                                                         *)

LEMMA SpillInitType == SpillInit => SpillTypeOK
BY DEF SpillInit, SpillTypeOK, Stages, Clears

LEMMA SpillAllType ==
  ASSUME SpillTypeOK, NEW S, NEW id \in Ids, SpillAll(S, id)
  PROVE  SpillTypeOK'
BY DEF SpillTypeOK, SpillAll

LEMMA StartRecoverType ==
  ASSUME SpillTypeOK, NEW l \in Lanes, StartRecover(l)
  PROVE  SpillTypeOK'
BY DEF SpillTypeOK, StartRecover, Stages

LEMMA EndRecoverType ==
  ASSUME SpillTypeOK, NEW l \in Lanes, EndRecover(l)
  PROVE  SpillTypeOK'
BY DEF SpillTypeOK, EndRecover, Stages

LEMMA StartClearsType ==
  ASSUME SpillTypeOK, NEW S, StartClears(S)
  PROVE  SpillTypeOK'
BY DEF SpillTypeOK, StartClears

LEMMA FailWritesType ==
  ASSUME SpillTypeOK, NEW l \in Lanes, NEW ids \in SUBSET writing[l],
         FailWrites(l, ids)
  PROVE  /\ count' \in [Lanes -> Int]
         /\ writing' \in [Lanes -> SUBSET Ids]
         /\ lost' \in [Lanes -> SUBSET Ids]
         /\ \A k \in Lanes : count'[k] <= IF count[k] < 0 THEN 0 ELSE count[k]
<1>1. ids \in SUBSET Ids
  BY DEF SpillTypeOK
<1>2. Cardinality(ids) \in Nat
  BY <1>1, IdsFinite
<1>3. count \in [Lanes -> Int]
  BY DEF SpillTypeOK
<1>4. count' \in [Lanes -> Int]
  BY <1>2, <1>3 DEF FailWrites
<1>5. \A k \in Lanes : count'[k] <= IF count[k] < 0 THEN 0 ELSE count[k]
  BY <1>2, <1>3 DEF FailWrites
<1>6. writing' \in [Lanes -> SUBSET Ids] /\ lost' \in [Lanes -> SUBSET Ids]
  BY <1>1 DEF FailWrites, SpillTypeOK
<1>7. QED
  BY <1>4, <1>5, <1>6

\* The operations of the disk that complete as events of their own.
FileOperation(l) ==
  \/ \E id \in Ids : WriteDone(l, id) \/ WriteFails(l, id)
  \/ ListFiles(l) \/ ReadFile(l) \/ SkipFile(l)
  \/ ClearAfterWrites(l) \/ ClearNow(l)

\* A file operation keeps the ranges, starts and ends no recover() call, and
\* never makes hasSpilled() of a lane true.
LEMMA FileOperationType ==
  ASSUME SpillTypeOK, NEW l \in Lanes, FileOperation(l)
  PROVE  /\ SpillTypeOK'
         /\ \A k \in Lanes : recovery[k] = "none" <=> recovery'[k] = "none"
         /\ \A k \in Lanes : HasSpilled(k)' => HasSpilled(k)
<1> USE DEF SpillTypeOK, Stages, Clears, HasSpilled
<1>1. ASSUME NEW id \in Ids, WriteDone(l, id)
      PROVE  /\ SpillTypeOK'
             /\ \A k \in Lanes : recovery[k] = "none" <=> recovery'[k] = "none"
             /\ \A k \in Lanes : HasSpilled(k)' => HasSpilled(k)
  BY <1>1 DEF WriteDone
<1>2. ASSUME NEW id \in Ids, WriteFails(l, id)
      PROVE  /\ SpillTypeOK'
             /\ \A k \in Lanes : recovery[k] = "none" <=> recovery'[k] = "none"
             /\ \A k \in Lanes : HasSpilled(k)' => HasSpilled(k)
  <2>1. /\ count' \in [Lanes -> Int]
        /\ writing' \in [Lanes -> SUBSET Ids]
        /\ lost' \in [Lanes -> SUBSET Ids]
        /\ \A k \in Lanes : count'[k] <= IF count[k] < 0 THEN 0 ELSE count[k]
    BY <1>2, FailWritesType DEF WriteFails
  <2>2. UNCHANGED <<files, recovery, waitFor, batch, recovered, clearing>>
    BY <1>2 DEF WriteFails
  <2>3. QED
    BY <2>1, <2>2
<1>3. ASSUME ListFiles(l)
      PROVE  /\ SpillTypeOK'
             /\ \A k \in Lanes : recovery[k] = "none" <=> recovery'[k] = "none"
             /\ \A k \in Lanes : HasSpilled(k)' => HasSpilled(k)
  <2>1. Listed(l) \in SUBSET Ids
    BY DEF Listed
  <2>2. QED
    BY <1>3, <2>1 DEF ListFiles
<1>4. ASSUME ReadFile(l)
      PROVE  /\ SpillTypeOK'
             /\ \A k \in Lanes : recovery[k] = "none" <=> recovery'[k] = "none"
             /\ \A k \in Lanes : HasSpilled(k)' => HasSpilled(k)
  <2>1. NextFile(l) \in Ids
    BY <1>4 DEF ReadFile
  <2>2. Append(recovered[l], NextFile(l)) \in Seq(Ids)
    BY <2>1, AppendProperties
  <2>3. QED
    BY <1>4, <2>1, <2>2 DEF ReadFile, LeaveFile
<1>5. ASSUME SkipFile(l)
      PROVE  /\ SpillTypeOK'
             /\ \A k \in Lanes : recovery[k] = "none" <=> recovery'[k] = "none"
             /\ \A k \in Lanes : HasSpilled(k)' => HasSpilled(k)
  BY <1>5 DEF SkipFile, LeaveFile
<1>6. ASSUME ClearAfterWrites(l)
      PROVE  /\ SpillTypeOK'
             /\ \A k \in Lanes : recovery[k] = "none" <=> recovery'[k] = "none"
             /\ \A k \in Lanes : HasSpilled(k)' => HasSpilled(k)
  BY <1>6 DEF ClearAfterWrites
<1>7. ASSUME ClearNow(l)
      PROVE  /\ SpillTypeOK'
             /\ \A k \in Lanes : recovery[k] = "none" <=> recovery'[k] = "none"
             /\ \A k \in Lanes : HasSpilled(k)' => HasSpilled(k)
  <2>1. PICK unlinked \in SUBSET writing[l] : FailWrites(l, unlinked)
    BY <1>7 DEF ClearNow
  <2>2. /\ count' \in [Lanes -> Int]
        /\ writing' \in [Lanes -> SUBSET Ids]
        /\ lost' \in [Lanes -> SUBSET Ids]
        /\ \A k \in Lanes : count'[k] <= IF count[k] < 0 THEN 0 ELSE count[k]
    BY <2>1, FailWritesType
  <2>3. /\ files' = [files EXCEPT ![l] = {}]
        /\ clearing' = [clearing EXCEPT ![l] = @ \ {"immediate"}]
        /\ UNCHANGED <<recovery, waitFor, batch, recovered>>
    BY <1>7 DEF ClearNow
  <2>4. files' \in [Lanes -> SUBSET Ids] /\ clearing' \in [Lanes -> SUBSET Clears]
    BY <2>3
  <2>5. \A k \in Lanes : HasSpilled(k)' => HasSpilled(k)
    BY <2>2
  <2>6. QED
    BY <2>2, <2>3, <2>4, <2>5
<1>8. QED
  BY <1>1, <1>2, <1>3, <1>4, <1>5, <1>6, <1>7 DEF FileOperation

-----------------------------------------------------------------------------
(* AckTracker.                                                             *)

LEMMA AckInitType == policy \in Policies /\ AckInit => AckTypeOK
BY PolicyNumbers DEF AckInit, AckTypeOK

LEMMA RegisterType ==
  ASSUME AckTypeOK, UNCHANGED policy, NEW l \in Lanes, NEW id \in Ids,
         Register(l, id)
  PROVE  AckTypeOK'
BY DEF AckTypeOK, Register, MaxRetries

LEMMA AcknowledgeType ==
  ASSUME AckTypeOK, UNCHANGED policy, NEW l \in Lanes, NEW id,
         Acknowledge(l, id)
  PROVE  AckTypeOK'
BY DEF AckTypeOK, Acknowledge, MaxRetries

LEMMA RemoveLanesType ==
  ASSUME AckTypeOK, UNCHANGED policy, NEW S, RemoveLanes(S)
  PROVE  AckTypeOK'
BY DEF AckTypeOK, RemoveLanes, MaxRetries

LEMMA HandledType ==
  ASSUME AckTypeOK, UNCHANGED policy, NEW d, Handled(d)
  PROVE  AckTypeOK'
BY DEF AckTypeOK, Handled, MaxRetries

\* An expired entry is retried only while its retry count is below the budget.
LEMMA ExpireType ==
  ASSUME AckTypeOK, policy \in Policies, UNCHANGED policy,
         NEW expired \in SUBSET (Lanes \X Ids), Expire(expired)
  PROVE  AckTypeOK'
<1>1. MaxRetries \in Nat /\ MaxRetries' = MaxRetries
  BY PolicyNumbers DEF MaxRetries
<1>2. retryCount' \in [Lanes -> [Ids -> 0..MaxRetries]]
  BY <1>1 DEF AckTypeOK, Expire, Verdict
<1>3. pending' \in [Lanes -> SUBSET Ids]
  BY DEF AckTypeOK, Expire
<1>4. decisions' \in SUBSET Decision
  BY DEF AckTypeOK, Expire, Decision, Verdict
<1>5. QED
  BY <1>1, <1>2, <1>3, <1>4 DEF AckTypeOK

-----------------------------------------------------------------------------
(* The range of the variables.                                             *)

\* Between the two halves of an await a drain holds a message.
HeldIsMessage == \A l \in Lanes : drain[l] = "holding" => held[l] \in Ids

TypeInv == TypeOK /\ HeldIsMessage

LEMMA GotoType ==
  ASSUME TypeInv, NEW l \in Lanes, NEW stage \in DrainStages,
         NEW id \in Ids \cup {NoId}, Goto(l, stage, id),
         stage = "holding" => id \in Ids
  PROVE  /\ drain' \in [Lanes -> DrainStages]
         /\ held' \in [Lanes -> Ids \cup {NoId}]
         /\ HeldIsMessage'
         /\ drain'[l] = stage /\ held'[l] = id
         /\ \A k \in Lanes : k # l => drain'[k] = drain[k] /\ held'[k] = held[k]
BY DEF TypeInv, TypeOK, HeldIsMessage, Goto

\* scheduleDrain never interrupts a drain.
LEMMA ScheduleDrainType ==
  ASSUME TypeInv, NEW S, ScheduleDrain(S)
  PROVE  /\ drain' \in [Lanes -> DrainStages]
         /\ held' \in [Lanes -> Ids \cup {NoId}]
         /\ HeldIsMessage'
BY DEF TypeInv, TypeOK, HeldIsMessage, ScheduleDrain, DrainStages

LEMMA TakeNextType ==
  ASSUME TypeInv, NEW l \in Lanes, NEW q \in Seq(Ids), NEW bytes, NEW flagged,
         TakeNext(l, q, bytes, flagged)
  PROVE  /\ queue' \in [Lanes -> Seq(Ids)]
         /\ DOMAIN queuedBytes' = Lanes
         /\ drain' \in [Lanes -> DrainStages]
         /\ held' \in [Lanes -> Ids \cup {NoId}]
         /\ HeldIsMessage'
<1>1. queue \in [Lanes -> Seq(Ids)] /\ DOMAIN queuedBytes = Lanes
  BY DEF TypeInv, TypeOK, LaneTypeOK
<1>2. "holding" \in DrainStages
  BY DEF DrainStages
<1>3. CASE Reliable
  <2>1. PICK id : id = FirstUnsent(q, flagged)
    OBVIOUS
  <2>2. id \in Ids
    BY <1>3, <2>1, FirstUnsentIn, RangeOfQueue DEF TakeNext, Entries
  <2>3. Goto(l, "holding", id)
    BY <1>3, <2>1 DEF TakeNext
  <2>4. /\ queue' = [queue EXCEPT ![l] = q]
        /\ queuedBytes' = [queuedBytes EXCEPT ![l] = bytes]
    BY <1>3 DEF TakeNext
  <2>5. QED
    BY <1>1, <1>2, <2>2, <2>3, <2>4, GotoType
<1>4. CASE ~Reliable
  <2>1. q # <<>>
    BY <1>4, EmptySeq, LenProperties DEF TakeNext, Entries
  <2>2. Head(q) \in Ids /\ Tail(q) \in Seq(Ids)
    BY <2>1, HeadTailProperties
  <2>3. Goto(l, "holding", Head(q))
    BY <1>4 DEF TakeNext
  <2>4. /\ queue' = [queue EXCEPT ![l] = Tail(q)]
        /\ DOMAIN queuedBytes' = DOMAIN queuedBytes
    BY <1>4 DEF TakeNext
  <2>5. QED
    BY <1>1, <1>2, <2>2, <2>3, <2>4, GotoType
<1>5. QED
  BY <1>3, <1>4

LEMMA StayType ==
  ASSUME TypeInv, NEW l \in Lanes, NEW q \in Seq(Ids), NEW bytes,
         NEW stage \in {"recovering", "ending"}, Stay(l, q, bytes, stage)
  PROVE  /\ queue' \in [Lanes -> Seq(Ids)]
         /\ DOMAIN queuedBytes' = Lanes
         /\ drain' \in [Lanes -> DrainStages]
         /\ held' \in [Lanes -> Ids \cup {NoId}]
         /\ HeldIsMessage'
<1>1. queue \in [Lanes -> Seq(Ids)] /\ DOMAIN queuedBytes = Lanes
  BY DEF TypeInv, TypeOK, LaneTypeOK
<1>2. stage \in DrainStages /\ stage # "holding"
  BY DEF DrainStages
<1>3. QED
  BY <1>1, <1>2, GotoType DEF Stay

\* The part of a drain step that LoopHead is responsible for.
LEMMA LoopHeadType ==
  ASSUME TypeInv, UNCHANGED size, NEW l \in Lanes, NEW q \in Seq(Ids),
         NEW bytes, NEW flagged \in SUBSET Ids, LoopHead(l, q, bytes, flagged)
  PROVE  /\ LaneTypeOK' /\ SpillTypeOK'
         /\ drain' \in [Lanes -> DrainStages]
         /\ held' \in [Lanes -> Ids \cup {NoId}]
         /\ HeldIsMessage'
<1>1. SpillTypeOK /\ size \in [Ids -> Nat] /\ awaiting \in [Lanes -> SUBSET Ids]
  BY DEF TypeInv, TypeOK, LaneTypeOK
<1>2. size' \in [Ids -> Nat] /\ awaiting' \in [Lanes -> SUBSET Ids]
  BY <1>1 DEF LoopHead
<1>3. CASE TakeNext(l, q, bytes, flagged) /\ UNCHANGED spillVars
  <2>1. SpillTypeOK'
    BY <1>1, <1>3 DEF SpillTypeOK, spillVars
  <2>2. QED
    BY <1>2, <1>3, <2>1, TakeNextType DEF LaneTypeOK
<1>4. CASE Stay(l, q, bytes, "recovering") /\ StartRecover(l)
  <2>1. SpillTypeOK'
    BY <1>1, <1>4, StartRecoverType
  <2>2. QED
    BY <1>2, <1>4, <2>1, StayType DEF LaneTypeOK
<1>5. CASE Stay(l, q, bytes, "ending") /\ UNCHANGED spillVars
  <2>1. SpillTypeOK'
    BY <1>1, <1>5 DEF SpillTypeOK, spillVars
  <2>2. QED
    BY <1>2, <1>5, <2>1, StayType DEF LaneTypeOK
<1>6. QED
  BY <1>3, <1>4, <1>5 DEF LoopHead

LEMMA AttemptType ==
  ASSUME TypeOK, NEW l \in Lanes, NEW id, Attempt(l, id)
  PROVE  attempts' \in [Lanes -> [Ids -> Nat]]
<1>1. attempts \in [Lanes -> [Ids -> Nat]] /\ attempts[l] \in [Ids -> Nat]
  BY DEF TypeOK
<1>2. PICK f : f = [attempts[l] EXCEPT ![id] = @ + 1]
  OBVIOUS
<1>3. f \in [Ids -> Nat]
  <2>1. CASE id \in Ids
    BY <1>1, <1>2, <2>1
  <2>2. CASE id \notin Ids
    BY <1>1, <1>2, <2>2
  <2>3. QED
    BY <2>1, <2>2
<1>4. attempts' = [attempts EXCEPT ![l] = f]
  BY <1>2 DEF Attempt
<1>5. QED
  BY <1>1, <1>3, <1>4

LEMMA InitType == Init => TypeInv
<1> SUFFICES ASSUME Init PROVE TypeInv
  OBVIOUS
<1>1. LaneTypeOK /\ SpillTypeOK /\ AckTypeOK
  BY LaneInitType, SpillInitType, AckInitType DEF Init
<1>2. nextSequence \in 1..(MaxMessages + 1)
  BY InstanceAssumption DEF Init
<1>3. QED
  BY <1>1, <1>2 DEF Init, TypeInv, TypeOK, HeldIsMessage, DrainStages

-----------------------------------------------------------------------------
\* A disconnect and a stop are cleanups of some clients, between callbacks.
LEMMA DepartureLeaves ==
  ASSUME (\E c \in Clients : Disconnect(c)) \/ Stop
  PROVE  Idle /\ \E S \in SUBSET Clients : Leave(S)
<1>1. CASE \E c \in Clients : Disconnect(c)
  BY <1>1 DEF Disconnect, Quiet
<1>2. CASE Stop
  <2>1. {c \in Clients : session[c] = "open"} \in SUBSET Clients
    OBVIOUS
  <2>2. QED
    BY <1>2, <2>1 DEF Stop
<1>3. QED
  BY <1>1, <1>2

\* Whose cleanup it was has no session any more; the others keep theirs.
LEMMA LeaveSession ==
  ASSUME TypeInv, NEW S \in SUBSET Clients, Leave(S)
  PROVE  /\ session' \in [Clients -> {"absent", "open", "closed"}]
         /\ \A c \in Clients :
              session'[c] = IF c \in S THEN "closed" ELSE session[c]
BY DEF TypeInv, TypeOK, Leave

\* The lanes of the clients of S, and of nobody else.
LEMMA LanesOfProperties ==
  ASSUME NEW S \in SUBSET Clients
  PROVE  /\ LanesOf(S) \in SUBSET Lanes
         /\ \A k \in Lanes : k[1] \in Clients /\ (k \in LanesOf(S) <=> k[1] \in S)
BY DEF Lanes, LanesOf

LEMMA SocketEventType == TypeInv /\ SocketEvent => TypeInv'
<1> SUFFICES ASSUME TypeInv, SocketEvent PROVE TypeInv'
  OBVIOUS
<1> USE DEF TypeInv
<1>1. ASSUME NEW c \in Clients, Connect(c)
      PROVE  TypeInv'
  BY <1>1 DEF Connect, TypeOK, HeldIsMessage, laneVars, spillVars, ackVars,
              drainVars, LaneTypeOK, SpillTypeOK, AckTypeOK, MaxRetries
<1>2. ASSUME NEW S \in SUBSET Clients, Leave(S), serving' \in BOOLEAN
      PROVE  TypeInv'
  <2>1. AckTypeOK'
    BY <1>2, RemoveLanesType DEF Leave, TypeOK
  <2>2. SpillTypeOK'
    BY <1>2, StartClearsType DEF Leave, TypeOK
  <2>3. session' \in [Clients -> {"absent", "open", "closed"}]
    BY <1>2, LeaveSession
  <2>4. subscribed' \in [Clients -> SUBSET Topics]
    BY <1>2 DEF Leave, TypeOK
  <2>5. QED
    BY <1>2, <2>1, <2>2, <2>3, <2>4
       DEF Leave, TypeOK, HeldIsMessage, laneVars, drainVars, LaneTypeOK
<1>3. ASSUME NEW c \in Clients, NEW t \in Topics, Subscribe(c, t)
      PROVE  TypeInv'
  BY <1>3 DEF Subscribe, TypeOK, HeldIsMessage, laneVars, spillVars, ackVars,
              drainVars, LaneTypeOK, SpillTypeOK, AckTypeOK, MaxRetries
<1>4. ASSUME NEW c \in Clients, NEW t \in Topics, Unsubscribe(c, t)
      PROVE  TypeInv'
  <2>1. AckTypeOK'
    BY <1>4, RemoveLanesType DEF Unsubscribe, TypeOK
  <2>2. QED
    BY <1>4, <2>1
       DEF Unsubscribe, TypeOK, HeldIsMessage, laneVars, spillVars, drainVars,
           LaneTypeOK, SpillTypeOK
<1>5. ASSUME NEW l \in Lanes, NEW id \in Ids, Ack(l, id)
      PROVE  TypeInv'
  <2>1. UNCHANGED <<policy, serving, session, subscribed>>
    BY <1>5 DEF Ack, registryVars
  <2>2. AckTypeOK'
    BY <1>5, <2>1, AcknowledgeType DEF Ack, TypeOK
  <2>3. LaneTypeOK'
    BY <1>5, RemoveByMessageIdType DEF Ack, TypeOK
  <2>4. /\ drain' \in [Lanes -> DrainStages]
        /\ held' \in [Lanes -> Ids \cup {NoId}]
        /\ HeldIsMessage'
    BY <1>5, ScheduleDrainType DEF Ack
  <2>5. SpillTypeOK'
    BY <1>5 DEF Ack, TypeOK, SpillTypeOK, spillVars
  <2>6. QED
    BY <1>5, <2>1, <2>2, <2>3, <2>4, <2>5 DEF Ack, TypeOK
<1>6. CASE (\E c \in Clients : Disconnect(c)) \/ Stop
  <2>1. serving' \in BOOLEAN
    BY <1>6 DEF Disconnect, Stop, TypeOK
  <2>2. QED
    BY <1>2, <1>6, <2>1, DepartureLeaves
<1>7. QED
  BY <1>1, <1>3, <1>4, <1>5, <1>6 DEF SocketEvent

\* A publication is one delivery to a set of subscribed lanes.
LEMMA PublicationIsDelivery ==
  ASSUME Publication
  PROVE  Idle /\ \E n \in Sizes : \E S \in SUBSET Lanes :
                   Deliver(S, n) /\ \A l \in S : Open(l)
<1>1. CASE \E t \in Topics, n \in Sizes : Publish(t, n)
  <2>1. PICK t \in Topics, n \in Sizes : Publish(t, n)
    BY <1>1
  <2>2. Subscribers(t) \in SUBSET Lanes /\ \A l \in Subscribers(t) : Open(l)
    BY DEF Subscribers
  <2>3. QED
    BY <2>1, <2>2 DEF Publish
<1>2. CASE \E l \in Lanes, n \in Sizes : PublishTo(l, n)
  <2>1. PICK l \in Lanes, n \in Sizes : PublishTo(l, n)
    BY <1>2
  <2>2. Open(l)
    BY <2>1 DEF PublishTo, Subscribers
  <2>3. {l} \in SUBSET Lanes /\ \A k \in {l} : Open(k)
    BY <2>2
  <2>4. QED
    BY <2>1, <2>3 DEF PublishTo
<1>3. QED
  BY <1>1, <1>2 DEF Publication

LEMMA DeliverType ==
  ASSUME TypeInv, NEW S \in SUBSET Lanes, NEW n \in Sizes, Deliver(S, n)
  PROVE  TypeInv'
<1> DEFINE id == nextSequence
           result(status) == {l \in S : EnqueueStatus(l, n) = status}
           kept == S \ result("REJECTED")
<1>1. id \in Ids
  BY DEF Deliver
<1>2. UNCHANGED <<policy, serving, session, subscribed>> /\ UNCHANGED ackVars
      /\ UNCHANGED attempts
  BY DEF Deliver, registryVars
<1>3. LaneTypeOK'
  <2>1. EnqueueAll(S, id, n)
    BY DEF Deliver
  <2>2. QED
    BY <1>1, <2>1, EnqueueAllType DEF TypeInv, TypeOK
<1>4. SpillTypeOK'
  <2>1. SpillAll(result("SPILLED"), id)
    BY DEF Deliver
  <2>2. QED
    BY <1>1, <2>1, SpillAllType DEF TypeInv, TypeOK
<1>5. AckTypeOK'
  BY <1>2 DEF TypeInv, TypeOK, AckTypeOK, ackVars, MaxRetries
<1>6. nextSequence' \in 1..(MaxMessages + 1)
  BY <1>1, InstanceAssumption DEF Deliver, Ids
<1>7. accepted' \in [Lanes -> SUBSET Ids]
  BY <1>1 DEF Deliver, TypeInv, TypeOK
<1>8. /\ drain' \in [Lanes -> DrainStages]
      /\ held' \in [Lanes -> Ids \cup {NoId}]
      /\ HeldIsMessage'
  <2>1. ScheduleDrain(kept)
    BY DEF Deliver
  <2>2. QED
    BY <2>1, ScheduleDrainType
<1>9. QED
  BY <1>2, <1>3, <1>4, <1>5, <1>6, <1>7, <1>8 DEF TypeInv, TypeOK

LEMMA RetryingType == TypeInv /\ Retrying => TypeInv'
<1> SUFFICES ASSUME TypeInv, Retrying PROVE TypeInv'
  OBVIOUS
<1>1. ASSUME NEW expired \in SUBSET Tracked, RetryTick(expired)
      PROVE  TypeInv'
  <2>1. UNCHANGED <<policy, serving, session, subscribed>>
    BY <1>1 DEF RetryTick, registryVars
  <2>2. expired \in SUBSET (Lanes \X Ids)
    BY DEF Tracked
  <2>3. AckTypeOK'
    BY <1>1, <2>1, <2>2, ExpireType DEF RetryTick, TypeInv, TypeOK
  <2>4. LaneTypeOK'
    BY <1>1 DEF RetryTick, TypeInv, TypeOK, LaneTypeOK
  <2>5. SpillTypeOK'
    BY <1>1 DEF RetryTick, TypeInv, TypeOK, SpillTypeOK, spillVars
  <2>6. QED
    BY <1>1, <2>1, <2>3, <2>4, <2>5
       DEF RetryTick, TypeInv, TypeOK, HeldIsMessage, drainVars
<1>2. ASSUME NEW d \in decisions, HandleDecision(d)
      PROVE  TypeInv'
  <2>1. UNCHANGED <<policy, serving, session, subscribed>>
    BY <1>2 DEF HandleDecision, registryVars
  <2>2. d.lane \in Lanes
    BY DEF TypeInv, TypeOK, AckTypeOK, Decision
  <2>3. AckTypeOK'
    BY <1>2, <2>1, HandledType DEF HandleDecision, TypeInv, TypeOK
  <2>4. LaneTypeOK'
    <3>1. CASE UNCHANGED laneVars
      BY <3>1 DEF TypeInv, TypeOK, LaneTypeOK, laneVars
    <3>2. CASE RemoveByMessageId(d.lane, d.id)
      BY <2>2, <3>2, RemoveByMessageIdType DEF TypeInv, TypeOK
    <3>3. QED
      BY <1>2, <3>1, <3>2 DEF HandleDecision, HandleRetry, HandleExhausted
  <2>5. /\ drain' \in [Lanes -> DrainStages]
        /\ held' \in [Lanes -> Ids \cup {NoId}]
        /\ HeldIsMessage'
    <3>1. CASE UNCHANGED drainVars
      BY <3>1 DEF TypeInv, TypeOK, HeldIsMessage, drainVars
    <3>2. ASSUME NEW S, ScheduleDrain(S)
          PROVE  /\ drain' \in [Lanes -> DrainStages]
                 /\ held' \in [Lanes -> Ids \cup {NoId}]
                 /\ HeldIsMessage'
      BY <3>2, ScheduleDrainType
    <3>3. QED
      BY <1>2, <3>1, <3>2 DEF HandleDecision, HandleRetry, HandleExhausted
  <2>6. SpillTypeOK'
    BY <1>2 DEF HandleDecision, TypeInv, TypeOK, SpillTypeOK, spillVars
  <2>7. QED
    BY <1>2, <2>1, <2>3, <2>4, <2>5, <2>6 DEF HandleDecision, TypeInv, TypeOK
<1>3. QED
  BY <1>1, <1>2 DEF Retrying

LEMMA DrainStepType ==
  ASSUME TypeInv, NEW l \in Lanes, DrainStep(l)
  PROVE  TypeInv'
<1> DEFINE StepTypes == /\ LaneTypeOK' /\ SpillTypeOK' /\ AckTypeOK'
                        /\ drain' \in [Lanes -> DrainStages]
                        /\ held' \in [Lanes -> Ids \cup {NoId}]
                        /\ HeldIsMessage'
                        /\ attempts' \in [Lanes -> [Ids -> Nat]]
                        /\ UNCHANGED <<policy, serving, session, subscribed,
                                       nextSequence, accepted>>
<1>1. /\ TypeOK /\ HeldIsMessage
      /\ queue[l] \in Seq(Ids) /\ awaiting[l] \in SUBSET Ids
      /\ recovered[l] \in Seq(Ids)
  BY DEF TypeInv, TypeOK, LaneTypeOK, SpillTypeOK
<1>2. ASSUME DrainStart(l)
      PROVE  StepTypes
  <2>1. UNCHANGED <<policy, serving, session, subscribed, nextSequence, attempts,
                    accepted, size>> /\ UNCHANGED ackVars
    BY <1>2 DEF DrainStart, registryVars
  <2>2. AckTypeOK'
    BY <2>1, <1>1 DEF TypeOK, AckTypeOK, ackVars, MaxRetries
  <2>3. LoopHead(l, queue[l], queuedBytes[l], awaiting[l])
    BY <1>2 DEF DrainStart
  <2>4. QED
    BY <1>1, <2>1, <2>2, <2>3, LoopHeadType DEF TypeOK
<1>3. ASSUME SendHeld(l)
      PROVE  StepTypes
  <2>1. held[l] \in Ids
    BY <1>3, <1>1 DEF SendHeld, HeldIsMessage
  <2>2. UNCHANGED <<policy, serving, session, subscribed, nextSequence, accepted, size>>
    BY <1>3 DEF SendHeld, registryVars
  <2>3. attempts' \in [Lanes -> [Ids -> Nat]]
    BY <1>3, <1>1, AttemptType DEF SendHeld
  <2>4. AckTypeOK'
    <3>1. CASE Reliable
      BY <1>3, <1>1, <2>1, <2>2, <3>1, RegisterType DEF SendHeld, TypeOK
    <3>2. CASE ~Reliable
      BY <1>3, <1>1, <2>2, <3>2
         DEF SendHeld, TypeOK, AckTypeOK, ackVars, MaxRetries
    <3>3. QED
      BY <3>1, <3>2
  <2>5. PICK flagged \in SUBSET Ids :
          LoopHead(l, queue[l], queuedBytes[l], flagged)
    <3>1. awaiting[l] \cup {held[l]} \in SUBSET Ids
      BY <1>1, <2>1
    <3>2. QED
      BY <1>3, <1>1, <3>1 DEF SendHeld
  <2>6. QED
    BY <1>1, <2>2, <2>3, <2>4, <2>5, LoopHeadType
<1>4. ASSUME SendHeldFails(l)
      PROVE  StepTypes
  <2>1. UNCHANGED <<policy, serving, session, subscribed, nextSequence, accepted, size>>
    BY <1>4 DEF SendHeldFails, registryVars
  <2>2. attempts' \in [Lanes -> [Ids -> Nat]]
    BY <1>4, <1>1, AttemptType DEF SendHeldFails
  <2>3. AckTypeOK'
    BY <1>4, <1>1, <2>1, AcknowledgeType DEF SendHeldFails, TypeOK
  <2>4. Without(queue[l], held[l]) \in Seq(Ids)
    BY <1>1, WithoutProperties
  <2>5. awaiting[l] \ {held[l]} \in SUBSET Ids
    BY <1>1
  <2>6. PICK bytes : LoopHead(l, Without(queue[l], held[l]), bytes,
                              awaiting[l] \ {held[l]})
    BY <1>4 DEF SendHeldFails
  <2>7. QED
    BY <2>1, <2>2, <2>3, <2>4, <2>5, <2>6, LoopHeadType
<1>5. ASSUME Refill(l)
      PROVE  StepTypes
  <2>1. UNCHANGED <<policy, serving, session, subscribed, nextSequence, attempts,
                    accepted, size, awaiting>> /\ UNCHANGED ackVars
    BY <1>5 DEF Refill, registryVars
  <2>2. AckTypeOK'
    BY <2>1, <1>1 DEF TypeOK, AckTypeOK, ackVars, MaxRetries
  <2>3. SpillTypeOK'
    BY <1>5, <1>1, EndRecoverType DEF Refill, TypeOK
  <2>4. Refilled(l) \in Seq(Ids)
    BY <1>1, ConcatProperties DEF Refilled
  <2>5. /\ queue' \in [Lanes -> Seq(Ids)]
        /\ DOMAIN queuedBytes' = Lanes
        /\ drain' \in [Lanes -> DrainStages]
        /\ held' \in [Lanes -> Ids \cup {NoId}]
        /\ HeldIsMessage'
    <3>1. PICK bytes : \/ TakeNext(l, Refilled(l), bytes, awaiting[l])
                       \/ Stay(l, Refilled(l), bytes, "ending")
      BY <1>5 DEF Refill
    <3>2. QED
      BY <2>4, <3>1, TakeNextType, StayType
  <2>6. LaneTypeOK'
    BY <1>1, <2>1, <2>5 DEF TypeOK, LaneTypeOK
  <2>7. QED
    BY <1>1, <2>1, <2>2, <2>3, <2>5, <2>6 DEF TypeOK
<1>6. ASSUME DrainEnd(l)
      PROVE  StepTypes
  <2>1. UNCHANGED <<policy, serving, session, subscribed, nextSequence, attempts,
                    accepted>>
        /\ UNCHANGED laneVars /\ UNCHANGED spillVars /\ UNCHANGED ackVars
    BY <1>6 DEF DrainEnd, registryVars
  <2>2. PICK stage \in {"scheduled", "idle"} : Goto(l, stage, NoId)
    BY <1>6 DEF DrainEnd
  <2>3. /\ drain' \in [Lanes -> DrainStages]
        /\ held' \in [Lanes -> Ids \cup {NoId}]
        /\ HeldIsMessage'
    BY <2>2, GotoType DEF DrainStages
  <2>4. QED
    BY <1>1, <2>1, <2>3
       DEF TypeOK, LaneTypeOK, SpillTypeOK, AckTypeOK, laneVars, spillVars,
           ackVars, MaxRetries
<1>7. StepTypes
  BY <1>2, <1>3, <1>4, <1>5, <1>6 DEF DrainStep
<1>8. QED
  BY <1>1, <1>7 DEF TypeInv, TypeOK

\* The completion of a file operation is one of the disk's operations and
\* changes nothing else.
LEMMA FileEventIsOperation ==
  ASSUME NEW l \in Lanes, FileEvent(l)
  PROVE  /\ FileOperation(l) /\ Quiet
         /\ UNCHANGED <<laneVars, ackVars, registryVars, drainVars,
                        nextSequence, attempts, accepted>>
BY DEF FileEvent, FileOperation, Completes

LEMMA FileEventType ==
  ASSUME TypeInv, NEW l \in Lanes, FileEvent(l)
  PROVE  TypeInv'
<1>1. SpillTypeOK'
  BY FileEventIsOperation, FileOperationType DEF TypeInv, TypeOK
<1>2. UNCHANGED <<laneVars, ackVars, registryVars, drainVars, nextSequence,
                  attempts, accepted>>
  BY FileEventIsOperation
<1>3. QED
  BY <1>1, <1>2
     DEF TypeInv, TypeOK, HeldIsMessage, LaneTypeOK, AckTypeOK, laneVars,
         ackVars, registryVars, drainVars, MaxRetries

LEMMA StutterType == TypeInv /\ UNCHANGED vars => TypeInv'
BY DEF TypeInv, TypeOK, HeldIsMessage, LaneTypeOK, SpillTypeOK, AckTypeOK,
       vars, laneVars, spillVars, ackVars, registryVars, drainVars, MaxRetries

LEMMA NextType == TypeInv /\ Next => TypeInv'
<1> SUFFICES ASSUME TypeInv, Next PROVE TypeInv'
  OBVIOUS
<1>1. CASE SocketEvent
  BY <1>1, SocketEventType
<1>2. CASE Publication
  <2>1. PICK n \in Sizes : \E S \in SUBSET Lanes : Deliver(S, n)
    BY <1>2, PublicationIsDelivery
  <2>2. QED
    BY <2>1, DeliverType
<1>3. CASE Retrying
  BY <1>3, RetryingType
<1>4. CASE \E l \in Lanes : DrainStep(l) \/ FileEvent(l)
  BY <1>4, DrainStepType, FileEventType
<1>5. QED
  BY <1>1, <1>2, <1>3, <1>4 DEF Next

\* The type invariant, with what a drain holds between two steps.
THEOREM TypeInvariant == Spec => []TypeInv
<1>1. TypeInv /\ [Next]_vars => TypeInv'
  BY NextType, StutterType
<1>2. QED
  BY InitType, <1>1, PTL DEF Spec

\* Every variable of the dispatcher stays in its range, for every set of
\* clients, topics and policies and any number of messages.
THEOREM TypeCorrectness == Spec => []TypeOK
<1>1. TypeInv => TypeOK
  BY DEF TypeInv
<1>2. QED
  BY <1>1, TypeInvariant, PTL

-----------------------------------------------------------------------------
(* The in-flight budget.                                                   *)

\* A drain that passed the loop's test and has not sent yet has a free slot.
SlotIsFree ==
  Reliable => \A l \in Lanes :
    drain[l] \in {"holding", "recovering"} => InFlight(l) < MaxInFlight

\* Only a draining lane reads its disk.
RecoveryInDrain ==
  \A l \in Lanes : recovery[l] # "none" => drain[l] = "recovering"

BudgetInv == InFlightBound /\ SlotIsFree /\ RecoveryInDrain

-----------------------------------------------------------------------------
\* Fewer flags, fewer in flight.
LEMMA InFlightMonotonic ==
  ASSUME NEW A \in SUBSET Ids, NEW B \in SUBSET A
  PROVE  /\ Cardinality(A) \in Nat /\ Cardinality(B) \in Nat
         /\ Cardinality(B) <= Cardinality(A)
BY IdsFinite, FS_Subset

\* Flagging one more entry takes at most one slot.
LEMMA OneMoreInFlight ==
  ASSUME NEW A \in SUBSET Ids, NEW id \in Ids
  PROVE  /\ Cardinality(A) \in Nat /\ Cardinality(A \cup {id}) \in Nat
         /\ Cardinality(A \cup {id}) <= Cardinality(A) + 1
<1>1. IsFiniteSet(A) /\ Cardinality(A) \in Nat
  BY IdsFinite
<1>2. A \cup {id} \in SUBSET Ids
  OBVIOUS
<1>3. QED
  BY <1>1, <1>2, IdsFinite, FS_AddElement

\* Steps of the lane k that are not steps of its drain.
Undisturbed(k) ==
  /\ awaiting'[k] \subseteq awaiting[k]
  /\ drain'[k] = drain[k] \/ (drain[k] = "idle" /\ drain'[k] = "scheduled")
  /\ recovery'[k] = "none" <=> recovery[k] = "none"

LaneBudget(k) ==
  /\ InFlight(k) <= MaxInFlight
  /\ Reliable /\ drain[k] \in {"holding", "recovering"}
       => InFlight(k) < MaxInFlight
  /\ recovery[k] # "none" => drain[k] = "recovering"

LEMMA BudgetByLane == BudgetInv <=> \A k \in Lanes : LaneBudget(k)
BY DEF BudgetInv, InFlightBound, SlotIsFree, RecoveryInDrain, LaneBudget

LEMMA UndisturbedBudget ==
  ASSUME TypeInv, UNCHANGED policy, NEW k \in Lanes, Undisturbed(k),
         LaneBudget(k)
  PROVE  LaneBudget(k)'
<1>1. awaiting[k] \in SUBSET Ids /\ awaiting'[k] \in SUBSET awaiting[k]
  BY DEF TypeInv, TypeOK, LaneTypeOK, Undisturbed
<1>2. /\ InFlight(k)' \in Nat /\ InFlight(k) \in Nat
      /\ InFlight(k)' <= InFlight(k)
  BY <1>1, InFlightMonotonic DEF InFlight
<1>3. MaxInFlight \in Nat /\ MaxInFlight' = MaxInFlight /\ Reliable' = Reliable
  BY PolicyNumbers DEF TypeInv, TypeOK, MaxInFlight, Reliable
<1>4. QED
  BY <1>2, <1>3 DEF LaneBudget, Undisturbed

\* The loop's test makes the budget hold after it.
LEMMA LoopHeadBudget ==
  ASSUME TypeInv, UNCHANGED policy, NEW l \in Lanes, NEW q, NEW bytes,
         NEW flagged \in SUBSET Ids, LoopHead(l, q, bytes, flagged),
         Cardinality(flagged) <= MaxInFlight, recovery[l] = "none"
  PROVE  /\ LaneBudget(l)'
         /\ \A k \in Lanes : k # l => Undisturbed(k)
<1>1. /\ awaiting \in [Lanes -> SUBSET Ids]
      /\ drain \in [Lanes -> DrainStages] /\ recovery \in [Lanes -> Stages]
  BY DEF TypeInv, TypeOK, LaneTypeOK, SpillTypeOK
<1>2. awaiting' = [awaiting EXCEPT ![l] = flagged]
  BY DEF LoopHead
<1>3. InFlight(l)' = Cardinality(flagged) /\ Cardinality(flagged) \in Nat
  BY <1>1, <1>2, IdsFinite DEF InFlight
<1>4. MaxInFlight \in Nat /\ MaxInFlight' = MaxInFlight /\ Reliable' = Reliable
  BY PolicyNumbers DEF TypeInv, TypeOK, MaxInFlight, Reliable
<1>5. CASE MaySend(flagged) /\ TakeNext(l, q, bytes, flagged)
           /\ UNCHANGED spillVars
  <2>1. drain' = [drain EXCEPT ![l] = "holding"] /\ UNCHANGED recovery
    BY <1>5 DEF TakeNext, Goto, spillVars
  <2>2. QED
    BY <1>1, <1>2, <1>3, <1>4, <1>5, <2>1 DEF LaneBudget, Undisturbed, MaySend
<1>6. CASE MaySend(flagged) /\ Stay(l, q, bytes, "recovering")
           /\ StartRecover(l)
  <2>1. /\ drain' = [drain EXCEPT ![l] = "recovering"]
        /\ recovery' = [recovery EXCEPT ![l] = "listing"]
    BY <1>6 DEF Stay, Goto, StartRecover
  <2>2. QED
    BY <1>1, <1>2, <1>3, <1>4, <1>6, <2>1 DEF LaneBudget, Undisturbed, MaySend
<1>7. CASE Stay(l, q, bytes, "ending") /\ UNCHANGED spillVars
  <2>1. drain' = [drain EXCEPT ![l] = "ending"] /\ UNCHANGED recovery
    BY <1>7 DEF Stay, Goto, spillVars
  <2>2. QED
    BY <1>1, <1>2, <1>3, <1>4, <2>1 DEF LaneBudget, Undisturbed
<1>8. QED
  BY <1>5, <1>6, <1>7 DEF LoopHead

-----------------------------------------------------------------------------
LEMMA InitBudget == Init => BudgetInv
<1> SUFFICES ASSUME Init, NEW k \in Lanes PROVE LaneBudget(k)
  BY BudgetByLane
<1>1. awaiting[k] = {} /\ drain[k] = "idle" /\ recovery[k] = "none"
  BY DEF Init, LaneInit, SpillInit
<1>2. InFlight(k) = 0
  BY <1>1, FS_EmptySet DEF InFlight
<1>3. MaxInFlight \in Nat \ {0}
  BY PolicyNumbers DEF Init
<1>4. QED
  BY <1>1, <1>2, <1>3 DEF LaneBudget

\* ScheduleDrain leaves a draining lane alone.
LEMMA ScheduleUndisturbed ==
  ASSUME TypeInv, NEW S, ScheduleDrain(S), NEW k \in Lanes
  PROVE  drain'[k] = drain[k] \/ (drain[k] = "idle" /\ drain'[k] = "scheduled")
BY DEF ScheduleDrain

\* No event, publication or retry takes a slot of any lane.
LEMMA OthersUndisturbed ==
  ASSUME TypeInv, SocketEvent \/ Publication \/ Retrying
  PROVE  UNCHANGED policy /\ \A k \in Lanes : Undisturbed(k)
<1> DEFINE Kept == UNCHANGED policy /\ \A k \in Lanes : Undisturbed(k)
<1> USE DEF Undisturbed
<1>0. awaiting \in [Lanes -> SUBSET Ids]
  BY DEF TypeInv, TypeOK, LaneTypeOK
<1>1. ASSUME (\E c \in Clients : Connect(c)) \/ \E S \in SUBSET Clients : Leave(S)
      PROVE  Kept
  BY <1>1 DEF Connect, Leave, StartClears, laneVars, spillVars, drainVars
<1>2. ASSUME NEW c \in Clients, NEW t \in Topics,
             Subscribe(c, t) \/ Unsubscribe(c, t)
      PROVE  Kept
  BY <1>2 DEF Subscribe, Unsubscribe, laneVars, spillVars, drainVars
<1>3. ASSUME NEW l \in Lanes, NEW id \in Ids, Ack(l, id)
      PROVE  Kept
  <2>1. awaiting' = [awaiting EXCEPT ![l] = @ \ {id}]
    BY <1>3 DEF Ack, RemoveByMessageId
  <2>2. UNCHANGED policy /\ UNCHANGED recovery
    BY <1>3 DEF Ack, registryVars, spillVars
  <2>3. PICK S : ScheduleDrain(S)
    BY <1>3 DEF Ack
  <2>4. QED
    BY <1>0, <2>1, <2>2, <2>3, ScheduleUndisturbed
<1>4. ASSUME Publication
      PROVE  Kept
  <2>1. PICK n \in Sizes, S \in SUBSET Lanes : Deliver(S, n)
    BY <1>4, PublicationIsDelivery
  <2>2. UNCHANGED <<policy, awaiting, recovery>>
    BY <2>1 DEF Deliver, EnqueueAll, SpillAll, registryVars
  <2>3. PICK T : ScheduleDrain(T)
    BY <2>1 DEF Deliver
  <2>4. QED
    BY <2>2, <2>3, ScheduleUndisturbed
<1>5. ASSUME NEW expired \in SUBSET Tracked, RetryTick(expired)
      PROVE  Kept
  BY <1>0, <1>5 DEF RetryTick, registryVars, spillVars, drainVars
<1>6. ASSUME NEW d \in decisions, HandleDecision(d)
      PROVE  Kept
  <2>1. UNCHANGED policy /\ UNCHANGED recovery
    BY <1>6 DEF HandleDecision, registryVars, spillVars
  <2>2. \A k \in Lanes : awaiting'[k] \subseteq awaiting[k]
    BY <1>0, <1>6
       DEF HandleDecision, HandleRetry, HandleExhausted, RemoveByMessageId,
           laneVars
  <2>3. \/ UNCHANGED drain
        \/ \E S : ScheduleDrain(S)
    BY <1>6 DEF HandleDecision, HandleRetry, HandleExhausted, drainVars
  <2>4. QED
    BY <2>1, <2>2, <2>3, ScheduleUndisturbed
<1>7. QED
  BY <1>1, <1>2, <1>3, <1>4, <1>5, <1>6, DepartureLeaves
     DEF SocketEvent, Retrying

\* A step of the drain of l keeps its budget and disturbs no other lane.
LEMMA DrainStepBudget ==
  ASSUME TypeInv, NEW l \in Lanes, LaneBudget(l), DrainStep(l)
  PROVE  /\ UNCHANGED policy
         /\ LaneBudget(l)'
         /\ \A k \in Lanes : k # l => Undisturbed(k)
<1> DEFINE Kept == /\ LaneBudget(l)'
                   /\ \A k \in Lanes : k # l => Undisturbed(k)
<1>1. /\ awaiting[l] \in SUBSET Ids
      /\ awaiting \in [Lanes -> SUBSET Ids]
      /\ drain \in [Lanes -> DrainStages] /\ recovery \in [Lanes -> Stages]
      /\ drain[l] = "holding" => held[l] \in Ids
  BY DEF TypeInv, TypeOK, LaneTypeOK, SpillTypeOK, HeldIsMessage
<1>2. UNCHANGED policy
  BY DEF DrainStep, DrainStart, SendHeld, SendHeldFails, Refill, DrainEnd,
         registryVars
<1>3. MaxInFlight \in Nat /\ MaxInFlight' = MaxInFlight /\ Reliable' = Reliable
  BY <1>2, PolicyNumbers DEF TypeInv, TypeOK, MaxInFlight, Reliable
<1>4. InFlight(l) \in Nat /\ InFlight(l) <= MaxInFlight
  BY <1>1, IdsFinite DEF InFlight, LaneBudget
<1>5. ASSUME DrainStart(l)
      PROVE  Kept
  <2>1. recovery[l] = "none"
    BY <1>5 DEF DrainStart, LaneBudget
  <2>2. LoopHead(l, queue[l], queuedBytes[l], awaiting[l])
    BY <1>5 DEF DrainStart
  <2>3. QED
    BY <1>1, <1>2, <1>4, <2>1, <2>2, LoopHeadBudget DEF InFlight
<1>6. ASSUME SendHeld(l)
      PROVE  Kept
  <2>1. recovery[l] = "none" /\ held[l] \in Ids
    BY <1>1, <1>6 DEF SendHeld, LaneBudget
  <2>2. CASE Reliable
    <3>1. InFlight(l) < MaxInFlight
      BY <1>6, <2>2 DEF SendHeld, LaneBudget
    <3>2. /\ awaiting[l] \cup {held[l]} \in SUBSET Ids
          /\ Cardinality(awaiting[l] \cup {held[l]}) <= MaxInFlight
      BY <1>1, <1>3, <1>4, <2>1, <3>1, OneMoreInFlight DEF InFlight
    <3>3. LoopHead(l, queue[l], queuedBytes[l], awaiting[l] \cup {held[l]})
      BY <1>6, <2>2 DEF SendHeld
    <3>4. QED
      BY <1>2, <2>1, <3>2, <3>3, LoopHeadBudget
  <2>3. CASE ~Reliable
    <3>1. LoopHead(l, queue[l], queuedBytes[l], awaiting[l])
      BY <1>6, <2>3 DEF SendHeld
    <3>2. QED
      BY <1>1, <1>2, <1>4, <2>1, <3>1, LoopHeadBudget DEF InFlight
  <2>4. QED
    BY <2>2, <2>3
<1>7. ASSUME SendHeldFails(l)
      PROVE  Kept
  <2>1. recovery[l] = "none"
    BY <1>7 DEF SendHeldFails, LaneBudget
  <2>2. /\ awaiting[l] \ {held[l]} \in SUBSET Ids
        /\ Cardinality(awaiting[l] \ {held[l]}) <= MaxInFlight
    <3>1. /\ Cardinality(awaiting[l] \ {held[l]}) \in Nat
          /\ Cardinality(awaiting[l] \ {held[l]}) <= InFlight(l)
      BY <1>1, InFlightMonotonic DEF InFlight
    <3>2. QED
      BY <1>1, <1>3, <1>4, <3>1
  <2>3. PICK q, bytes : LoopHead(l, q, bytes, awaiting[l] \ {held[l]})
    BY <1>7 DEF SendHeldFails
  <2>4. QED
    BY <1>2, <2>1, <2>2, <2>3, LoopHeadBudget
<1>8. ASSUME Refill(l)
      PROVE  Kept
  <2>1. drain[l] = "recovering"
    BY <1>8 DEF Refill, LaneBudget
  <2>2. /\ UNCHANGED awaiting
        /\ recovery' = [recovery EXCEPT ![l] = "none"]
    BY <1>8 DEF Refill, EndRecover
  <2>3. PICK stage \in {"holding", "ending"} :
          drain' = [drain EXCEPT ![l] = stage]
    BY <1>8 DEF Refill, TakeNext, Stay, Goto
  <2>4. InFlight(l)' = InFlight(l)
    BY <2>2 DEF InFlight
  <2>5. QED
    BY <1>1, <1>3, <1>4, <2>1, <2>2, <2>3, <2>4 DEF LaneBudget, Undisturbed
<1>9. ASSUME DrainEnd(l)
      PROVE  Kept
  <2>1. recovery[l] = "none"
    BY <1>9 DEF DrainEnd, LaneBudget
  <2>2. UNCHANGED <<awaiting, recovery>>
    BY <1>9 DEF DrainEnd, laneVars, spillVars
  <2>3. PICK stage \in {"scheduled", "idle"} :
          drain' = [drain EXCEPT ![l] = stage]
    BY <1>9 DEF DrainEnd, Goto
  <2>4. InFlight(l)' = InFlight(l)
    BY <2>2 DEF InFlight
  <2>5. QED
    BY <1>1, <1>3, <1>4, <2>1, <2>2, <2>3, <2>4 DEF LaneBudget, Undisturbed
<1>10. QED
  BY <1>2, <1>5, <1>6, <1>7, <1>8, <1>9 DEF DrainStep

LEMMA NextBudget == TypeInv /\ BudgetInv /\ [Next]_vars => BudgetInv'
<1> SUFFICES ASSUME TypeInv, BudgetInv, [Next]_vars PROVE BudgetInv'
  OBVIOUS
<1>1. \A k \in Lanes : LaneBudget(k)
  BY BudgetByLane
<1>2. SUFFICES \A k \in Lanes : LaneBudget(k)'
  BY BudgetByLane DEF BudgetInv, InFlightBound, SlotIsFree, RecoveryInDrain,
                      LaneBudget
<1>3. CASE SocketEvent \/ Publication \/ Retrying
  BY <1>1, <1>3, OthersUndisturbed, UndisturbedBudget
<1>4. ASSUME NEW l \in Lanes, DrainStep(l)
      PROVE  \A k \in Lanes : LaneBudget(k)'
  BY <1>1, <1>4, DrainStepBudget, UndisturbedBudget
<1>5. ASSUME NEW l \in Lanes, FileEvent(l)
      PROVE  \A k \in Lanes : LaneBudget(k)'
  <2>1. UNCHANGED <<laneVars, registryVars, drainVars>>
    BY <1>5, FileEventIsOperation
  <2>2. \A k \in Lanes : recovery[k] = "none" <=> recovery'[k] = "none"
    BY <1>5, FileEventIsOperation, FileOperationType DEF TypeInv, TypeOK
  <2>3. UNCHANGED policy /\ \A k \in Lanes : Undisturbed(k)
    BY <2>1, <2>2 DEF laneVars, registryVars, drainVars, Undisturbed
  <2>4. QED
    BY <1>1, <2>3, UndisturbedBudget
<1>6. CASE UNCHANGED vars
  <2>1. UNCHANGED policy /\ \A k \in Lanes : Undisturbed(k)
    BY <1>6 DEF vars, laneVars, spillVars, registryVars, drainVars, Undisturbed
  <2>2. QED
    BY <1>1, <2>1, UndisturbedBudget
<1>7. QED
  BY <1>3, <1>4, <1>5, <1>6 DEF Next

\* The inductive invariant behind the budget.
THEOREM BudgetInvariant == Spec => []BudgetInv
<1>1. TypeInv /\ BudgetInv /\ [Next]_vars => BudgetInv'
  BY NextBudget
<1>2. QED
  BY InitBudget, TypeInvariant, <1>1, PTL DEF Spec

\* A lane never has more than maxInFlight entries in flight, whatever is
\* acked, retried, published or read from disk between the drain's test and
\* its send.
THEOREM InFlightBounded == Spec => []InFlightBound
<1>1. BudgetInv => InFlightBound
  BY DEF BudgetInv
<1>2. QED
  BY <1>1, BudgetInvariant, PTL

-----------------------------------------------------------------------------
(* Why no lane is forgotten. A lane that is not draining is woken by a     *)
(* publication, an ack or the retry timer, and each of these schedules a   *)
(* drain only on a condition it computes from the lane. The conditions are *)
(* enough because the lane and the tracker agree (a tracked or flagged     *)
(* entry is queued), because a decision of the timer is about an entry     *)
(* that is still as the timer left it, and because a lane that nobody      *)
(* scheduled was left with nothing to send or no slot to send it with.     *)

\* What the lane k, its drain and its tracked acks have to do with each other.
LaneAgrees(k) ==
  /\ awaiting[k] \subseteq Range(queue[k])
  /\ Open(k) => pending[k] \subseteq Range(queue[k])
  /\ ~Reliable => awaiting[k] = {} /\ pending[k] = {}
  /\ Reliable /\ drain[k] = "holding" => held[k] \in Range(queue[k])
  /\ decisions # {} => drain[k] # "holding"
  /\ session[k[1]] = "absent" =>
       /\ queue[k] = <<>> /\ pending[k] = {}
       /\ drain[k] = "idle" /\ ~HasSpilled(k)

\* A decision not yet handled still says what the tracker holds.
DecisionsFit ==
  \A d \in decisions : d.action = "RETRY" <=> d.id \in pending[d.lane]

AgreeInv == (\A k \in Lanes : LaneAgrees(k)) /\ DecisionsFit

\* In the middle of a timer pass a lane may be waiting for its decision.
LaneWoken(k) ==
  /\ Open(k)
  /\ drain[k] = "idle"
  /\ InFlight(k) < MaxInFlight
  /\ HasPendingSend(k, queue[k], awaiting[k])
  => \E d \in decisions : d.lane = k

WakeInv == \A k \in Lanes : LaneWoken(k)

-----------------------------------------------------------------------------
LEMMA RangeGrows ==
  ASSUME NEW q \in Seq(Ids)
  PROVE  /\ \A id \in Ids : Range(q) \subseteq Range(Append(q, id))
         /\ \A r \in Seq(Ids) : Range(q) \subseteq Range(q \o r)
<1>1. Len(q) \in Nat /\ DOMAIN q = 1..Len(q)
  BY LenProperties
<1>2. ASSUME NEW id \in Ids
      PROVE  Range(q) \subseteq Range(Append(q, id))
  <2>1. PICK s : s = Append(q, id)
    OBVIOUS
  <2>2. /\ DOMAIN s = 1..(Len(q) + 1)
        /\ \A i \in 1..Len(q) : s[i] = q[i]
    BY <2>1, AppendProperties, LenProperties
  <2>3. \A i \in DOMAIN q : i \in DOMAIN s /\ s[i] = q[i]
    BY <1>1, <2>2
  <2>4. QED
    BY <2>1, <2>3 DEF Range
<1>3. ASSUME NEW r \in Seq(Ids)
      PROVE  Range(q) \subseteq Range(q \o r)
  <2>1. PICK s : s = q \o r
    OBVIOUS
  <2>2. Len(r) \in Nat
    BY LenProperties
  <2>3. /\ DOMAIN s = 1..(Len(q) + Len(r))
        /\ \A i \in 1..(Len(q) + Len(r)) :
             s[i] = IF i <= Len(q) THEN q[i] ELSE r[i - Len(q)]
    BY <2>1, ConcatProperties, LenProperties
  <2>4. \A i \in DOMAIN q : i \in DOMAIN s /\ s[i] = q[i]
    BY <1>1, <2>2, <2>3
  <2>5. QED
    BY <2>1, <2>4 DEF Range
<1>4. QED
  BY <1>2, <1>3

\* AT_LEAST_ONCE never drops, replaces or coalesces what is queued.
LEMMA ReliableEnqueue ==
  ASSUME TypeInv, Reliable, NEW l \in Lanes, NEW id \in Ids, NEW n
  PROVE  Range(queue[l]) \subseteq Range(QueueAfter(l, id, n))
<1>1. queue[l] \in Seq(Ids)
  BY DEF TypeInv, TypeOK, LaneTypeOK
<1>2. /\ ~Overflow("SNAPSHOT_ONLY") /\ ~Overflow("DROP_OLDEST")
      /\ ~Coalesce
  BY InstanceAssumption
     DEF TypeInv, TypeOK, ValidPolicy, Reliable, Overflow, Coalesce
<1>3. ~Coalesces(l, n)
  BY <1>2 DEF Coalesces, Coalescable
<1>4. PICK status : status = EnqueueStatus(l, n)
  OBVIOUS
<1>5. status \in {"ACCEPTED", "SPILLED", "REJECTED"}
  BY <1>2, <1>3, <1>4 DEF EnqueueStatus
<1>6. QueueAfter(l, id, n) = IF status = "ACCEPTED" THEN Append(queue[l], id)
                                                   ELSE queue[l]
  BY <1>4, <1>5 DEF QueueAfter
<1>7. QED
  BY <1>1, <1>6, RangeGrows

\* The next await of a drain: what it leaves of its lane, and that it leaves
\* the other lanes alone.
LEMMA LoopHeadLane ==
  ASSUME TypeInv, NEW l \in Lanes, NEW q \in Seq(Ids), NEW bytes, NEW flagged,
         LoopHead(l, q, bytes, flagged)
  PROVE  /\ awaiting' = [awaiting EXCEPT ![l] = flagged]
         /\ Reliable => queue'[l] = q
         /\ Reliable /\ drain'[l] = "holding" => held'[l] \in Range(q)
         /\ drain'[l] \in {"holding", "recovering", "ending"}
         /\ \A k \in Lanes : k # l =>
              /\ queue'[k] = queue[k]
              /\ drain'[k] = drain[k] /\ held'[k] = held[k]
         /\ UNCHANGED count
<1>1. /\ queue \in [Lanes -> Seq(Ids)] /\ drain \in [Lanes -> DrainStages]
      /\ held \in [Lanes -> Ids \cup {NoId}]
  BY DEF TypeInv, TypeOK, LaneTypeOK
<1>2. awaiting' = [awaiting EXCEPT ![l] = flagged]
  BY DEF LoopHead
<1>3. CASE TakeNext(l, q, bytes, flagged) /\ UNCHANGED spillVars
  <2>1. UNCHANGED count
    BY <1>3 DEF spillVars
  <2>2. CASE Reliable
    <3>1. FirstUnsent(q, flagged) \in Range(q)
      BY <1>3, <2>2, FirstUnsentIn DEF TakeNext, Entries
    <3>2. /\ queue' = [queue EXCEPT ![l] = q]
          /\ drain' = [drain EXCEPT ![l] = "holding"]
          /\ held' = [held EXCEPT ![l] = FirstUnsent(q, flagged)]
      BY <1>3, <2>2 DEF TakeNext, Goto
    <3>3. QED
      BY <1>1, <1>2, <2>1, <3>1, <3>2
  <2>3. CASE ~Reliable
    <3>1. /\ queue' = [queue EXCEPT ![l] = Tail(q)]
          /\ drain' = [drain EXCEPT ![l] = "holding"]
          /\ held' = [held EXCEPT ![l] = Head(q)]
      BY <1>3, <2>3 DEF TakeNext, Goto
    <3>2. QED
      BY <1>1, <1>2, <2>1, <2>3, <3>1
  <2>4. QED
    BY <2>2, <2>3
<1>4. CASE \E stage \in {"recovering", "ending"} :
             Stay(l, q, bytes, stage) /\ (StartRecover(l) \/ UNCHANGED spillVars)
  <2>1. PICK stage \in {"recovering", "ending"} : Stay(l, q, bytes, stage)
    BY <1>4
  <2>2. /\ queue' = [queue EXCEPT ![l] = q]
        /\ drain' = [drain EXCEPT ![l] = stage]
        /\ held' = [held EXCEPT ![l] = NoId]
    BY <2>1 DEF Stay, Goto
  <2>3. UNCHANGED count
    BY <1>4 DEF StartRecover, spillVars
  <2>4. QED
    BY <1>1, <1>2, <2>1, <2>2, <2>3
<1>5. QED
  BY <1>3, <1>4 DEF LoopHead

-----------------------------------------------------------------------------
(* The lane and the tracker agree.                                         *)

LEMMA InitAgree == Init => AgreeInv
BY DEF Init, AgreeInv, LaneAgrees, DecisionsFit, LaneInit, SpillInit, AckInit,
       HasSpilled, Range

LEMMA ConnectAgree ==
  ASSUME TypeInv, AgreeInv, NEW c \in Clients, Connect(c)
  PROVE  AgreeInv'
<1>1. UNCHANGED <<laneVars, spillVars, ackVars, policy, drainVars>>
      /\ session' = [session EXCEPT ![c] = "open"] /\ session[c] = "absent"
  BY DEF Connect
<1>2. session \in [Clients -> {"absent", "open", "closed"}]
  BY DEF TypeInv, TypeOK
<1>3. ASSUME NEW k \in Lanes
      PROVE  LaneAgrees(k)'
  <2>1. k[1] \in Clients /\ LaneAgrees(k)
    BY DEF Lanes, AgreeInv
  <2>2. QED
    BY <1>1, <1>2, <2>1 DEF LaneAgrees, laneVars, spillVars, ackVars, drainVars,
                           Open, Reliable, HasSpilled
<1>4. QED
  BY <1>1, <1>3 DEF AgreeInv, DecisionsFit, ackVars

LEMMA LeaveAgree ==
  ASSUME TypeInv, AgreeInv, Idle, NEW S \in SUBSET Clients, Leave(S)
  PROVE  AgreeInv'
<1>1. UNCHANGED <<laneVars, policy, drainVars>> /\ decisions = {}
  BY DEF Leave, Idle
<1>2. /\ pending' = [k \in Lanes |-> IF k \in LanesOf(S) THEN {} ELSE pending[k]]
      /\ UNCHANGED decisions
  BY DEF Leave, RemoveLanes
<1>3. \A k \in Lanes : HasSpilled(k)' => HasSpilled(k)
  BY DEF Leave, StartClears, HasSpilled
<1>4. \A c \in Clients : session'[c] = "closed" \/ session'[c] = session[c]
  BY LeaveSession
<1>5. ASSUME NEW k \in Lanes
      PROVE  LaneAgrees(k)'
  <2>1. k[1] \in Clients /\ LaneAgrees(k)
    BY DEF Lanes, AgreeInv
  <2>2. pending'[k] \subseteq pending[k]
    BY <1>2
  <2>3. QED
    BY <1>1, <1>2, <1>3, <1>4, <2>1, <2>2
       DEF LaneAgrees, laneVars, drainVars, Open, Reliable
<1>6. QED
  BY <1>1, <1>2, <1>5 DEF AgreeInv, DecisionsFit

LEMMA SubscriptionAgree ==
  ASSUME TypeInv, AgreeInv, NEW c \in Clients, NEW t \in Topics,
         Subscribe(c, t) \/ Unsubscribe(c, t)
  PROVE  AgreeInv'
<1>1. /\ UNCHANGED <<laneVars, spillVars, policy, session, drainVars>>
      /\ decisions = {} /\ decisions' = {}
  BY DEF Subscribe, Unsubscribe, Quiet, Idle, RemoveLanes, ackVars
<1>2. \A k \in Lanes : pending'[k] \subseteq pending[k]
  BY DEF Subscribe, Unsubscribe, RemoveLanes, ackVars
<1>3. ASSUME NEW k \in Lanes
      PROVE  LaneAgrees(k)'
  BY <1>1, <1>2 DEF AgreeInv, LaneAgrees, laneVars, spillVars, drainVars, Open,
                    Reliable, HasSpilled
<1>4. QED
  BY <1>1, <1>3 DEF AgreeInv, DecisionsFit

\* Without(q, id) keeps every other flagged or tracked entry.
LEMMA RemovalAgrees ==
  ASSUME NEW q \in Seq(Ids), NEW A, NEW id, A \subseteq Range(q)
  PROVE  A \ {id} \subseteq Range(Without(q, id))
BY WithoutProperties

LEMMA AckAgree ==
  ASSUME TypeInv, AgreeInv, NEW l \in Lanes, NEW id \in Ids, Ack(l, id)
  PROVE  AgreeInv'
<1>1. /\ UNCHANGED <<policy, session, count>>
      /\ decisions = {} /\ decisions' = {} /\ Open(l) /\ Reliable
      /\ \A k \in Lanes : drain[k] # "holding"
  BY DEF Ack, Quiet, Idle, Microtask, Acknowledge, registryVars, spillVars
<1>2. /\ queue' = [queue EXCEPT ![l] = Without(@, id)]
      /\ awaiting' = [awaiting EXCEPT ![l] = @ \ {id}]
      /\ pending' = [pending EXCEPT ![l] = @ \ {id}]
  BY DEF Ack, RemoveByMessageId, Acknowledge
<1>3. \A k \in Lanes : drain'[k] = drain[k] \/ (k = l /\ drain'[k] = "scheduled")
  BY DEF Ack, ScheduleDrain
<1>4. /\ queue \in [Lanes -> Seq(Ids)] /\ awaiting \in [Lanes -> SUBSET Ids]
      /\ pending \in [Lanes -> SUBSET Ids]
  BY DEF TypeInv, TypeOK, LaneTypeOK, AckTypeOK
<1>5. LaneAgrees(l)'
  <2>1. /\ awaiting[l] \ {id} \subseteq Range(Without(queue[l], id))
        /\ pending[l] \ {id} \subseteq Range(Without(queue[l], id))
    BY <1>1, <1>4, RemovalAgrees DEF AgreeInv, LaneAgrees
  <2>2. QED
    BY <1>1, <1>2, <1>3, <1>4, <2>1 DEF LaneAgrees, Open, Reliable
<1>6. ASSUME NEW k \in Lanes, k # l
      PROVE  LaneAgrees(k)'
  BY <1>1, <1>2, <1>3, <1>4, <1>6
     DEF AgreeInv, LaneAgrees, Open, Reliable, HasSpilled
<1>7. QED
  BY <1>1, <1>5, <1>6 DEF AgreeInv, DecisionsFit

LEMMA DeliverAgree ==
  ASSUME TypeInv, AgreeInv, Idle, NEW S \in SUBSET Lanes, \A l \in S : Open(l),
         NEW n \in Sizes, Deliver(S, n)
  PROVE  AgreeInv'
<1>1. PICK id : id = nextSequence
  OBVIOUS
<1>2. /\ id \in Ids /\ decisions = {} /\ decisions' = {}
      /\ UNCHANGED <<policy, session, awaiting, pending>>
  BY <1>1 DEF Deliver, Idle, EnqueueAll, registryVars, ackVars
<1>3. queue' = [l \in Lanes |-> IF l \in S THEN QueueAfter(l, id, n)
                                           ELSE queue[l]]
  BY <1>1 DEF Deliver, EnqueueAll
<1>4. \A k \in Lanes : k \notin S => HasSpilled(k)' = HasSpilled(k)
  BY DEF Deliver, SpillAll, HasSpilled
<1>5. /\ UNCHANGED held
      /\ \A k \in Lanes : drain'[k] = drain[k]
                          \/ (k \in S /\ drain'[k] = "scheduled")
  <2>1. PICK T \in SUBSET S : ScheduleDrain(T)
    BY DEF Deliver
  <2>2. QED
    BY <2>1 DEF ScheduleDrain
<1>6. ASSUME NEW k \in Lanes
      PROVE  LaneAgrees(k)'
  <2>1. LaneAgrees(k)
    BY DEF AgreeInv
  <2>2. CASE k \notin S
    BY <1>2, <1>3, <1>4, <1>5, <2>1, <2>2 DEF LaneAgrees, Open, Reliable
  <2>3. CASE k \in S
    <3>1. Open(k) /\ session[k[1]] # "absent"
      BY <2>3 DEF Open
    <3>2. Reliable => Range(queue[k]) \subseteq Range(queue'[k])
      BY <1>2, <1>3, <2>3, ReliableEnqueue
    <3>3. QED
      BY <1>2, <1>5, <2>1, <3>1, <3>2 DEF LaneAgrees, Open, Reliable
  <2>4. QED
    BY <2>2, <2>3
<1>7. QED
  BY <1>2, <1>6 DEF AgreeInv, DecisionsFit

\* A pass of the timer decides about every entry it found expired.
LEMMA RetryTickAgree ==
  ASSUME TypeInv, AgreeInv, NEW expired \in SUBSET Tracked, RetryTick(expired)
  PROVE  AgreeInv'
<1>1. /\ UNCHANGED <<policy, session, queue, count, drain, held>>
      /\ \A k \in Lanes : drain[k] # "holding"
      /\ Expire(expired)
  BY DEF RetryTick, Quiet, Microtask, registryVars, spillVars, drainVars
<1>2. /\ \A k \in Lanes : awaiting'[k] \subseteq awaiting[k]
      /\ \A k \in Lanes : pending'[k] \subseteq pending[k]
  BY <1>1 DEF RetryTick, Expire
<1>3. ASSUME NEW k \in Lanes
      PROVE  LaneAgrees(k)'
  BY <1>1, <1>2 DEF AgreeInv, LaneAgrees, Open, Reliable, HasSpilled
<1>4. ASSUME NEW d \in decisions'
      PROVE  d.action = "RETRY" <=> d.id \in pending'[d.lane]
  <2>1. PICK p \in expired :
          d = [lane |-> p[1], id |-> p[2], action |-> Verdict(p[1], p[2])]
    BY <1>1 DEF Expire
  <2>2. p[1] \in Lanes /\ p[2] \in Ids /\ p = <<p[1], p[2]>>
        /\ p[2] \in pending[p[1]]
    BY DEF Tracked
  <2>3. p[2] \in pending'[p[1]] <=> Verdict(p[1], p[2]) = "RETRY"
    BY <1>1, <2>2 DEF Expire
  <2>4. QED
    BY <2>1, <2>3
<1>5. QED
  BY <1>3, <1>4 DEF AgreeInv, DecisionsFit

\* What handling a decision does to its lane and to the others.
LEMMA HandleDecisionLane ==
  ASSUME TypeInv, NEW d \in decisions, HandleDecision(d)
  PROVE  /\ d.lane \in Lanes
         /\ UNCHANGED <<policy, session, count, pending, held>>
         /\ decisions' = decisions \ {d}
         /\ \/ UNCHANGED <<queue, awaiting>>
            \/ /\ d.action = "EXHAUSTED"
               /\ queue' = [queue EXCEPT ![d.lane] = Without(@, d.id)]
               /\ awaiting' = [awaiting EXCEPT ![d.lane] = @ \ {d.id}]
         /\ \A k \in Lanes :
              drain'[k] = drain[k]
              \/ (k = d.lane /\ Open(k) /\ drain'[k] = "scheduled")
<1>1. d.lane \in Lanes
  BY DEF TypeInv, TypeOK, AckTypeOK, Decision
<1>2. /\ UNCHANGED <<policy, session, count, pending>>
      /\ decisions' = decisions \ {d}
  BY DEF HandleDecision, Handled, registryVars, spillVars
<1>3. CASE HandleRetry(d)
  BY <1>1, <1>2, <1>3 DEF HandleRetry, ScheduleDrain, laneVars
<1>4. CASE HandleExhausted(d)
  <2>1. CASE ~Open(d.lane)
    BY <1>1, <1>2, <1>4, <2>1 DEF HandleExhausted, laneVars, drainVars
  <2>2. CASE Open(d.lane)
    BY <1>1, <1>2, <1>4, <2>2
       DEF HandleExhausted, ScheduleDrain, RemoveByMessageId
  <2>3. QED
    BY <2>1, <2>2
<1>5. QED
  BY <1>3, <1>4 DEF HandleDecision

LEMMA HandleDecisionAgree ==
  ASSUME TypeInv, AgreeInv, NEW d \in decisions, HandleDecision(d)
  PROVE  AgreeInv'
<1>1. PICK l \in Lanes : l = d.lane
  BY HandleDecisionLane
<1>2. /\ UNCHANGED <<policy, session, count, pending, held>>
      /\ decisions' = decisions \ {d}
      /\ \A k \in Lanes : drain'[k] = drain[k]
                          \/ (k = l /\ Open(k) /\ drain'[k] = "scheduled")
  BY <1>1, HandleDecisionLane
<1>3. \A k \in Lanes : drain[k] # "holding"
  BY DEF AgreeInv, LaneAgrees
<1>4. /\ queue \in [Lanes -> Seq(Ids)] /\ awaiting \in [Lanes -> SUBSET Ids]
  BY DEF TypeInv, TypeOK, LaneTypeOK
<1>5. DecisionsFit'
  BY <1>2 DEF AgreeInv, DecisionsFit
<1>6. CASE UNCHANGED <<queue, awaiting>>
  <2>1. ASSUME NEW k \in Lanes
        PROVE  LaneAgrees(k)'
    BY <1>2, <1>3, <1>6 DEF AgreeInv, LaneAgrees, Open, Reliable, HasSpilled
  <2>2. QED
    BY <1>5, <2>1 DEF AgreeInv
<1>7. CASE /\ d.action = "EXHAUSTED"
           /\ queue' = [queue EXCEPT ![l] = Without(@, d.id)]
           /\ awaiting' = [awaiting EXCEPT ![l] = @ \ {d.id}]
  <2>1. d.id \notin pending[l]
    BY <1>1, <1>7 DEF AgreeInv, DecisionsFit
  <2>2. /\ awaiting[l] \ {d.id} \subseteq Range(Without(queue[l], d.id))
        /\ Open(l) => pending[l] \subseteq Range(Without(queue[l], d.id))
    <3>1. LaneAgrees(l)
      BY DEF AgreeInv
    <3>2. Range(queue[l]) \ {d.id} \subseteq Range(Without(queue[l], d.id))
      BY <1>4, WithoutProperties
    <3>3. QED
      BY <2>1, <3>1, <3>2 DEF LaneAgrees
  <2>3. queue[l] = <<>> => Without(queue[l], d.id) = <<>>
    BY DEF Without, Range
  <2>4. LaneAgrees(l)'
    BY <1>2, <1>3, <1>4, <1>7, <2>2, <2>3
       DEF AgreeInv, LaneAgrees, Open, Reliable, HasSpilled
  <2>5. ASSUME NEW k \in Lanes, k # l
        PROVE  LaneAgrees(k)'
    BY <1>2, <1>3, <1>4, <1>7, <2>5
       DEF AgreeInv, LaneAgrees, Open, Reliable, HasSpilled
  <2>6. QED
    BY <1>5, <2>4, <2>5 DEF AgreeInv
<1>8. QED
  BY <1>1, <1>6, <1>7, HandleDecisionLane

-----------------------------------------------------------------------------
(* The drain.                                                              *)

\* A draining lane has a client that was connected.
LEMMA DrainedIsNotAbsent ==
  ASSUME AgreeInv, BudgetInv, NEW l \in Lanes, DrainStep(l)
  PROVE  session[l[1]] # "absent" /\ decisions = {}
BY DEF AgreeInv, LaneAgrees, BudgetInv, RecoveryInDrain, DrainStep, DrainStart,
       SendHeld, SendHeldFails, Refill, DrainEnd, Idle

\* What a step of the drain of l leaves of its lane and of the tracked acks.
DrainedLane(l) ==
  /\ awaiting'[l] \subseteq Range(queue'[l])
  /\ Open(l) => pending'[l] \subseteq Range(queue'[l])
  /\ ~Reliable => awaiting'[l] = {} /\ pending'[l] = {}
  /\ Reliable /\ drain'[l] = "holding" => held'[l] \in Range(queue'[l])

\* It leaves the other lanes and the registry alone.
OthersKept(l) ==
  /\ UNCHANGED <<policy, session, decisions>>
  /\ \A k \in Lanes : k # l =>
       /\ queue'[k] = queue[k] /\ awaiting'[k] = awaiting[k]
       /\ pending'[k] = pending[k]
       /\ drain'[k] = drain[k] /\ held'[k] = held[k]
  /\ UNCHANGED count

LEMMA LoopHeadDrained ==
  ASSUME TypeInv, NEW l \in Lanes, NEW q \in Seq(Ids), NEW bytes, NEW flagged,
         NEW tracked, LoopHead(l, q, bytes, flagged),
         UNCHANGED <<policy, session, decisions>>,
         pending' = [pending EXCEPT ![l] = tracked],
         flagged \subseteq Range(q),
         Open(l) => tracked \subseteq Range(q),
         ~Reliable => flagged = {} /\ tracked = {}
  PROVE  DrainedLane(l) /\ OthersKept(l)
<1>1. /\ awaiting \in [Lanes -> SUBSET Ids] /\ pending \in [Lanes -> SUBSET Ids]
  BY DEF TypeInv, TypeOK, LaneTypeOK, AckTypeOK
<1>2. awaiting'[l] = flagged /\ pending'[l] = tracked
  BY <1>1, LoopHeadLane
<1>3. DrainedLane(l)
  BY <1>2, LoopHeadLane DEF DrainedLane
<1>4. OthersKept(l)
  BY <1>1, LoopHeadLane DEF OthersKept
<1>5. QED
  BY <1>3, <1>4

LEMMA DrainStepLane ==
  ASSUME TypeInv, AgreeInv, NEW l \in Lanes, DrainStep(l)
  PROVE  DrainedLane(l) /\ OthersKept(l)
<1>1. /\ queue \in [Lanes -> Seq(Ids)] /\ queue[l] \in Seq(Ids)
      /\ awaiting[l] \in SUBSET Ids /\ recovered[l] \in Seq(Ids)
      /\ pending \in [Lanes -> SUBSET Ids] /\ pending[l] \in SUBSET Ids
      /\ drain \in [Lanes -> DrainStages] /\ held \in [Lanes -> Ids \cup {NoId}]
  BY DEF TypeInv, TypeOK, LaneTypeOK, AckTypeOK, SpillTypeOK
<1>2. LaneAgrees(l)
  BY DEF AgreeInv
<1>3. CASE DrainStart(l)
  <2>1. /\ UNCHANGED <<policy, session, decisions>>
        /\ pending' = [pending EXCEPT ![l] = pending[l]]
        /\ LoopHead(l, queue[l], queuedBytes[l], awaiting[l])
    BY <1>1, <1>3 DEF DrainStart, registryVars, ackVars
  <2>2. QED
    BY <1>1, <1>2, <2>1, LoopHeadDrained DEF LaneAgrees
<1>4. CASE SendHeld(l) /\ Reliable
  <2>1. /\ UNCHANGED <<policy, session, decisions>>
        /\ pending' = [pending EXCEPT ![l] = pending[l] \cup {held[l]}]
        /\ LoopHead(l, queue[l], queuedBytes[l], awaiting[l] \cup {held[l]})
        /\ drain[l] = "holding"
    BY <1>1, <1>4 DEF SendHeld, Register, registryVars
  <2>2. held[l] \in Range(queue[l])
    BY <1>2, <1>4, <2>1 DEF LaneAgrees
  <2>3. /\ awaiting[l] \cup {held[l]} \subseteq Range(queue[l])
        /\ Open(l) => pending[l] \cup {held[l]} \subseteq Range(queue[l])
    BY <1>2, <2>2 DEF LaneAgrees
  <2>4. QED
    BY <1>1, <1>4, <2>1, <2>3, LoopHeadDrained
<1>5. CASE SendHeld(l) /\ ~Reliable
  <2>1. /\ UNCHANGED <<policy, session, decisions>>
        /\ pending' = [pending EXCEPT ![l] = pending[l]]
        /\ LoopHead(l, queue[l], queuedBytes[l], awaiting[l])
    BY <1>1, <1>5 DEF SendHeld, ackVars, registryVars
  <2>2. QED
    BY <1>1, <1>2, <2>1, LoopHeadDrained DEF LaneAgrees
<1>6. CASE SendHeldFails(l)
  <2>1. /\ UNCHANGED <<policy, session, decisions>>
        /\ pending' = [pending EXCEPT ![l] = pending[l] \ {held[l]}]
        /\ Reliable
    BY <1>1, <1>6 DEF SendHeldFails, Acknowledge, registryVars
  <2>2. PICK bytes : LoopHead(l, Without(queue[l], held[l]), bytes,
                              awaiting[l] \ {held[l]})
    BY <1>6 DEF SendHeldFails
  <2>3. Without(queue[l], held[l]) \in Seq(Ids)
    BY <1>1, WithoutProperties
  <2>4. awaiting[l] \ {held[l]} \subseteq Range(Without(queue[l], held[l]))
    BY <1>1, <1>2, RemovalAgrees DEF LaneAgrees
  <2>5. Open(l) =>
          pending[l] \ {held[l]} \subseteq Range(Without(queue[l], held[l]))
    BY <1>1, <1>2, RemovalAgrees DEF LaneAgrees
  <2>6. QED
    BY <2>1, <2>2, <2>3, <2>4, <2>5, LoopHeadDrained
<1>7. CASE Refill(l)
  <2>1. /\ UNCHANGED <<policy, session, decisions, awaiting, pending, count>>
    BY <1>7 DEF Refill, EndRecover, ackVars, registryVars
  <2>2. PICK q \in Seq(Ids) : q = Refilled(l)
    BY <1>1, ConcatProperties DEF Refilled
  <2>3. Range(queue[l]) \subseteq Range(q)
    BY <1>1, <2>2, RangeGrows DEF Refilled
  <2>4. PICK bytes : \/ TakeNext(l, q, bytes, awaiting[l])
                     \/ Stay(l, q, bytes, "ending")
    BY <1>7, <2>2 DEF Refill
  <2>5. /\ \A k \in Lanes : k # l => /\ queue'[k] = queue[k]
                                     /\ drain'[k] = drain[k]
                                     /\ held'[k] = held[k]
        /\ Reliable => queue'[l] = q
        /\ Reliable /\ drain'[l] = "holding" => held'[l] \in Range(q)
    <3>1. CASE TakeNext(l, q, bytes, awaiting[l])
      <4>1. Reliable => FirstUnsent(q, awaiting[l]) \in Range(q)
        BY <3>1, FirstUnsentIn DEF TakeNext, Entries
      <4>2. QED
        BY <1>1, <3>1, <4>1 DEF TakeNext, Goto
    <3>2. CASE Stay(l, q, bytes, "ending")
      BY <1>1, <3>2 DEF Stay, Goto
    <3>3. QED
      BY <2>4, <3>1, <3>2
  <2>6. DrainedLane(l)
    BY <1>2, <2>1, <2>3, <2>5 DEF DrainedLane, LaneAgrees
  <2>7. QED
    BY <2>1, <2>5, <2>6 DEF OthersKept
<1>8. CASE DrainEnd(l)
  <2>1. UNCHANGED <<policy, session, decisions, queue, awaiting, pending, count>>
    BY <1>8 DEF DrainEnd, laneVars, spillVars, ackVars, registryVars
  <2>2. PICK stage \in {"scheduled", "idle"} : Goto(l, stage, NoId)
    BY <1>8 DEF DrainEnd
  <2>3. QED
    BY <1>1, <1>2, <2>1, <2>2
       DEF Goto, DrainedLane, OthersKept, LaneAgrees
<1>9. QED
  BY <1>3, <1>4, <1>5, <1>6, <1>7, <1>8 DEF DrainStep

LEMMA DrainStepAgree ==
  ASSUME TypeInv, BudgetInv, AgreeInv, NEW l \in Lanes, DrainStep(l)
  PROVE  AgreeInv'
<1>1. DrainedLane(l) /\ OthersKept(l)
  BY DrainStepLane
<1>2. session[l[1]] # "absent" /\ decisions = {}
  BY DrainedIsNotAbsent
<1>3. LaneAgrees(l)'
  BY <1>1, <1>2 DEF DrainedLane, OthersKept, LaneAgrees, Open, Reliable
<1>4. ASSUME NEW k \in Lanes, k # l
      PROVE  LaneAgrees(k)'
  BY <1>1, <1>4
     DEF OthersKept, AgreeInv, LaneAgrees, Open, Reliable, HasSpilled
<1>5. QED
  BY <1>1, <1>2, <1>3, <1>4 DEF OthersKept, AgreeInv, DecisionsFit

LEMMA FileEventAgree ==
  ASSUME TypeInv, AgreeInv, NEW l \in Lanes, FileEvent(l)
  PROVE  AgreeInv'
<1>1. UNCHANGED <<laneVars, ackVars, registryVars, drainVars>>
  BY FileEventIsOperation
<1>2. \A k \in Lanes : HasSpilled(k)' => HasSpilled(k)
  BY FileEventIsOperation, FileOperationType DEF TypeInv, TypeOK
<1>3. ASSUME NEW k \in Lanes
      PROVE  LaneAgrees(k)'
  BY <1>1, <1>2 DEF AgreeInv, LaneAgrees, laneVars, ackVars, registryVars,
                    drainVars, Open, Reliable
<1>4. QED
  BY <1>1, <1>3 DEF AgreeInv, DecisionsFit, ackVars

LEMMA StutterAgree ==
  ASSUME AgreeInv, UNCHANGED vars
  PROVE  AgreeInv'
<1>1. UNCHANGED <<laneVars, spillVars, ackVars, registryVars, drainVars>>
  BY DEF vars
<1>2. ASSUME NEW k \in Lanes
      PROVE  LaneAgrees(k)'
  BY <1>1 DEF AgreeInv, LaneAgrees, laneVars, spillVars, ackVars, registryVars,
              drainVars, Open, Reliable, HasSpilled
<1>3. QED
  BY <1>1, <1>2 DEF AgreeInv, DecisionsFit, ackVars

LEMMA NextAgree ==
  TypeInv /\ BudgetInv /\ AgreeInv /\ [Next]_vars => AgreeInv'
<1> SUFFICES ASSUME TypeInv, BudgetInv, AgreeInv, [Next]_vars PROVE AgreeInv'
  OBVIOUS
<1>1. CASE SocketEvent
  BY <1>1, ConnectAgree, DepartureLeaves, LeaveAgree, SubscriptionAgree,
     AckAgree DEF SocketEvent
<1>2. CASE Publication
  BY <1>2, PublicationIsDelivery, DeliverAgree
<1>3. CASE Retrying
  BY <1>3, RetryTickAgree, HandleDecisionAgree DEF Retrying
<1>4. ASSUME NEW l \in Lanes, DrainStep(l) \/ FileEvent(l)
      PROVE  AgreeInv'
  BY <1>4, DrainStepAgree, FileEventAgree
<1>5. CASE UNCHANGED vars
  BY <1>5, StutterAgree
<1>6. QED
  BY <1>1, <1>2, <1>3, <1>4, <1>5 DEF Next

\* Lane, drain and tracker agree about every entry, also in a timer pass.
THEOREM AgreeInvariant == Spec => []AgreeInv
<1>1. TypeInv /\ BudgetInv /\ AgreeInv /\ [Next]_vars => AgreeInv'
  BY NextAgree
<1>2. QED
  BY InitAgree, TypeInvariant, BudgetInvariant, <1>1, PTL DEF Spec

\* The lane and the tracker never disagree about a connected client: what is
\* flagged or tracked is queued, through acks, retries, failed sends and
\* unsubscribes.
THEOREM LaneAndTrackerAgree == Spec => []AckStateAgrees
<1>1. AgreeInv => AckStateAgrees
  BY DEF AgreeInv, LaneAgrees, AckStateAgrees
<1>2. QED
  BY <1>1, AgreeInvariant, PTL

-----------------------------------------------------------------------------
(* Every lane with something to send and a slot to send it is woken.       *)

\* A lane that nothing was added to, and whose decisions are still to come,
\* needs no new drain.
LEMMA LaneLeftAlone ==
  ASSUME NEW k \in Lanes, LaneWoken(k), UNCHANGED policy,
         queue'[k] = queue[k], awaiting'[k] = awaiting[k],
         Open(k)' => Open(k), HasSpilled(k)' => HasSpilled(k),
         drain'[k] = "idle" => drain[k] = "idle",
         \A d \in decisions : d.lane = k => d \in decisions'
  PROVE  LaneWoken(k)'
<1>1. /\ HasPendingSend(k, queue[k], awaiting[k])'
           => HasPendingSend(k, queue[k], awaiting[k])
      /\ InFlight(k)' = InFlight(k) /\ MaxInFlight' = MaxInFlight
  BY DEF HasPendingSend, Unsent, InFlight, MaxInFlight
<1>2. QED
  BY <1>1 DEF LaneWoken

LEMMA InitWake == Init => WakeInv
BY DEF Init, WakeInv, LaneWoken, Open, Lanes

LEMMA ConnectWake ==
  ASSUME TypeInv, AgreeInv, WakeInv, NEW c \in Clients, Connect(c)
  PROVE  WakeInv'
<1> SUFFICES ASSUME NEW k \in Lanes PROVE LaneWoken(k)'
  BY DEF WakeInv
<1>1. /\ UNCHANGED <<laneVars, spillVars, ackVars, policy, drainVars>>
      /\ session' = [session EXCEPT ![c] = "open"] /\ session[c] = "absent"
  BY DEF Connect
<1>2. k[1] \in Clients /\ LaneAgrees(k) /\ LaneWoken(k)
  BY DEF Lanes, AgreeInv, WakeInv
<1>3. CASE k[1] = c
  <2>1. queue'[k] = <<>> /\ ~HasSpilled(k)'
    BY <1>1, <1>2, <1>3 DEF LaneAgrees, HasSpilled, laneVars, spillVars
  <2>2. Unsent(queue[k], awaiting[k])' = {}
    BY <2>1 DEF Unsent
  <2>3. QED
    BY <2>1, <2>2 DEF LaneWoken, HasPendingSend
<1>4. CASE k[1] # c
  <2>1. Open(k)' => Open(k)
    BY <1>1, <1>2, <1>4 DEF TypeInv, TypeOK, Open
  <2>2. QED
    BY <1>1, <1>2, <2>1, LaneLeftAlone
       DEF laneVars, spillVars, ackVars, drainVars, HasSpilled
<1>5. QED
  BY <1>3, <1>4

\* A departure, a subscription and its end add nothing to any lane.
LEMMA RegistryWake ==
  ASSUME TypeInv, WakeInv,
         \/ \E S \in SUBSET Clients : Leave(S)
         \/ \E c \in Clients, t \in Topics : Subscribe(c, t) \/ Unsubscribe(c, t)
  PROVE  WakeInv'
<1> SUFFICES ASSUME NEW k \in Lanes PROVE LaneWoken(k)'
  BY DEF WakeInv
<1>1. UNCHANGED <<laneVars, policy, drainVars, decisions>>
  BY DEF Leave, Subscribe, Unsubscribe, RemoveLanes, ackVars
<1>2. HasSpilled(k)' => HasSpilled(k)
  <2>1. UNCHANGED spillVars \/ \E T : StartClears(T)
    BY DEF Leave, Subscribe, Unsubscribe
  <2>2. QED
    BY <2>1 DEF StartClears, HasSpilled, spillVars
<1>3. Open(k)' => Open(k)
  BY LeaveSession DEF Subscribe, Unsubscribe, Open, Lanes
<1>4. LaneWoken(k)
  BY DEF WakeInv
<1>5. QED
  BY <1>1, <1>2, <1>3, <1>4, LaneLeftAlone DEF laneVars, drainVars

\* An ack that freed nothing leaves the lane as it was; one that removed an
\* entry has looked at what the lane still has to send.
LEMMA AckWake ==
  ASSUME TypeInv, AgreeInv, WakeInv, NEW l \in Lanes, NEW id \in Ids, Ack(l, id)
  PROVE  WakeInv'
<1> SUFFICES ASSUME NEW k \in Lanes PROVE LaneWoken(k)'
  BY DEF WakeInv
<1>1. /\ UNCHANGED <<policy, session, count, decisions>>
      /\ queue' = [queue EXCEPT ![l] = Without(@, id)]
      /\ awaiting' = [awaiting EXCEPT ![l] = @ \ {id}]
  BY DEF Ack, Acknowledge, RemoveByMessageId, registryVars, spillVars
<1>2. \A j \in Lanes : drain'[j] = "idle" => drain[j] = "idle"
  BY DEF Ack, ScheduleDrain
<1>3. /\ queue \in [Lanes -> Seq(Ids)] /\ awaiting \in [Lanes -> SUBSET Ids]
  BY DEF TypeInv, TypeOK, LaneTypeOK
<1>4. LaneWoken(k) /\ LaneAgrees(l)
  BY DEF WakeInv, AgreeInv
<1>5. CASE k # l \/ id \notin Range(queue[l])
  <2>1. id \notin Range(queue[l]) => id \notin awaiting[l]
    BY <1>4 DEF LaneAgrees
  <2>2. queue'[k] = queue[k] /\ awaiting'[k] = awaiting[k]
    BY <1>1, <1>3, <1>5, <2>1 DEF Without
  <2>3. QED
    BY <1>1, <1>2, <1>4, <2>2, LaneLeftAlone DEF Open, HasSpilled
<1>6. CASE k = l /\ id \in Range(queue[l])
  <2>1. HasPendingSend(l, queue'[l], awaiting'[l]) => drain'[l] # "idle"
    BY <1>6 DEF Ack, ScheduleDrain
  <2>2. HasPendingSend(l, queue[l], awaiting[l])'
          <=> HasPendingSend(l, queue'[l], awaiting'[l])
    BY <1>1 DEF HasPendingSend, HasSpilled, Unsent
  <2>3. QED
    BY <1>6, <2>1, <2>2 DEF LaneWoken
<1>7. QED
  BY <1>5, <1>6

\* Every lane that took or spilled the message is scheduled.
LEMMA DeliverWake ==
  ASSUME TypeInv, WakeInv, NEW S \in SUBSET Lanes, NEW n \in Sizes,
         Deliver(S, n)
  PROVE  WakeInv'
<1> SUFFICES ASSUME NEW k \in Lanes PROVE LaneWoken(k)'
  BY DEF WakeInv
<1> DEFINE rejected == {l \in S : EnqueueStatus(l, n) = "REJECTED"}
           kept == S \ rejected
<1>1. UNCHANGED <<policy, session, awaiting, decisions>>
  BY DEF Deliver, EnqueueAll, registryVars, ackVars
<1>2. ScheduleDrain(kept)
  BY DEF Deliver
<1>3. CASE k \in kept
  BY <1>2, <1>3 DEF ScheduleDrain, LaneWoken
<1>4. CASE k \notin kept
  <2>1. k \in S => EnqueueStatus(k, n) = "REJECTED"
    BY <1>4
  <2>2. queue'[k] = queue[k]
    BY <2>1 DEF Deliver, EnqueueAll, QueueAfter
  <2>3. HasSpilled(k)' = HasSpilled(k)
    BY <2>1 DEF Deliver, SpillAll, HasSpilled
  <2>4. drain'[k] = "idle" => drain[k] = "idle"
    BY <1>2 DEF ScheduleDrain
  <2>5. QED
    BY <1>1, <2>2, <2>3, <2>4, LaneLeftAlone DEF Open, WakeInv
<1>5. QED
  BY <1>3, <1>4

\* A pass of the timer frees slots only of lanes it will decide about.
LEMMA RetryTickWake ==
  ASSUME TypeInv, WakeInv, NEW expired \in SUBSET Tracked, RetryTick(expired)
  PROVE  WakeInv'
<1> SUFFICES ASSUME NEW k \in Lanes PROVE LaneWoken(k)'
  BY DEF WakeInv
<1>1. /\ UNCHANGED <<policy, session, queue, count, drain>>
      /\ decisions = {} /\ Expire(expired)
      /\ awaiting' = [l \in Lanes |->
                        {id \in awaiting[l] : <<l, id>> \notin expired}]
  BY DEF RetryTick, Quiet, Idle, registryVars, spillVars, drainVars
<1>2. CASE \E p \in expired : p[1] = k
  <2>1. PICK p \in expired : p[1] = k
    BY <1>2
  <2>2. [lane |-> p[1], id |-> p[2], action |-> Verdict(p[1], p[2])]
          \in decisions'
    BY <1>1 DEF Expire
  <2>3. QED
    BY <2>1, <2>2 DEF LaneWoken
<1>3. CASE \A p \in expired : p[1] # k
  <2>1. awaiting[k] \in SUBSET Ids
    BY DEF TypeInv, TypeOK, LaneTypeOK
  <2>2. awaiting'[k] = awaiting[k]
    BY <1>1, <1>3, <2>1
  <2>3. QED
    BY <1>1, <2>2, LaneLeftAlone DEF Open, HasSpilled, WakeInv
<1>4. QED
  BY <1>2, <1>3

\* A retried entry is still queued, so its lane is scheduled; an exhausted one
\* gives its slot to whatever the lane still has.
LEMMA HandleDecisionWake ==
  ASSUME TypeInv, AgreeInv, WakeInv, NEW d \in decisions, HandleDecision(d)
  PROVE  WakeInv'
<1> SUFFICES ASSUME NEW k \in Lanes PROVE LaneWoken(k)'
  BY DEF WakeInv
<1>1. /\ d.lane \in Lanes
      /\ UNCHANGED <<policy, session, count>>
      /\ decisions' = decisions \ {d}
      /\ \A j \in Lanes : drain'[j] = "idle" => drain[j] = "idle"
  BY HandleDecisionLane
<1>2. /\ queue \in [Lanes -> Seq(Ids)] /\ awaiting \in [Lanes -> SUBSET Ids]
  BY DEF TypeInv, TypeOK, LaneTypeOK
<1>3. CASE k # d.lane
  <2>1. queue'[k] = queue[k] /\ awaiting'[k] = awaiting[k]
    BY <1>2, <1>3, HandleDecisionLane
  <2>2. QED
    BY <1>1, <1>3, <2>1, LaneLeftAlone DEF Open, HasSpilled, WakeInv
<1>4. CASE k = d.lane /\ ~Open(k)
  BY <1>1, <1>4 DEF LaneWoken, Open
<1>5. CASE k = d.lane /\ Open(k) /\ HandleRetry(d)
  <2>1. d.id \in Range(queue[k])
    BY <1>5 DEF AgreeInv, LaneAgrees, DecisionsFit, HandleRetry
  <2>2. drain'[k] # "idle"
    BY <1>5, <2>1 DEF HandleRetry, ScheduleDrain
  <2>3. QED
    BY <2>2 DEF LaneWoken
<1>6. CASE k = d.lane /\ Open(k) /\ HandleExhausted(d)
  <2>1. /\ HasPendingSend(k, queue'[k], awaiting'[k])
        /\ Cardinality(awaiting'[k]) < MaxInFlight
        => drain'[k] # "idle"
    BY <1>6 DEF HandleExhausted, ScheduleDrain
  <2>2. /\ HasPendingSend(k, queue[k], awaiting[k])'
             <=> HasPendingSend(k, queue'[k], awaiting'[k])
        /\ InFlight(k)' = Cardinality(awaiting'[k])
        /\ MaxInFlight' = MaxInFlight
    BY <1>1 DEF HasPendingSend, HasSpilled, Unsent, InFlight, MaxInFlight
  <2>3. QED
    BY <2>1, <2>2 DEF LaneWoken
<1>7. QED
  BY <1>3, <1>4, <1>5, <1>6 DEF HandleDecision

\* A drain ends only after the finally clause has looked at its lane again.
LEMMA DrainStepWake ==
  ASSUME TypeInv, AgreeInv, WakeInv, NEW l \in Lanes, DrainStep(l)
  PROVE  WakeInv'
<1> SUFFICES ASSUME NEW k \in Lanes PROVE LaneWoken(k)'
  BY DEF WakeInv
<1>1. OthersKept(l)
  BY DrainStepLane
<1>2. CASE k # l
  BY <1>1, <1>2, LaneLeftAlone DEF OthersKept, Open, HasSpilled, WakeInv
<1>3. CASE k = l /\ DrainEnd(l)
  <2>1. drain \in [Lanes -> DrainStages]
    BY DEF TypeInv, TypeOK
  <2>2. UNCHANGED <<policy, queue, awaiting, count>>
    BY <1>3 DEF DrainEnd, laneVars, spillVars, registryVars
  <2>3. /\ HasPendingSend(l, queue[l], awaiting[l])
        /\ InFlight(l) < MaxInFlight
        => drain'[l] = "scheduled"
    BY <1>3, <2>1 DEF DrainEnd, Goto
  <2>4. /\ HasPendingSend(l, queue[l], awaiting[l])'
             <=> HasPendingSend(l, queue[l], awaiting[l])
        /\ InFlight(l)' = InFlight(l) /\ MaxInFlight' = MaxInFlight
    BY <2>2 DEF HasPendingSend, HasSpilled, Unsent, InFlight, MaxInFlight
  <2>5. QED
    BY <1>3, <2>3, <2>4 DEF LaneWoken
<1>4. CASE k = l /\ ~DrainEnd(l)
  <2>1. drain'[l] # "idle"
    <3>1. ASSUME NEW q, NEW bytes, NEW flagged, NEW qs \in Seq(Ids), q = qs,
                 LoopHead(l, q, bytes, flagged)
          PROVE  drain'[l] # "idle"
      BY <3>1, LoopHeadLane
    <3>2. queue[l] \in Seq(Ids) /\ drain \in [Lanes -> DrainStages]
      BY DEF TypeInv, TypeOK, LaneTypeOK
    <3>3. Without(queue[l], held[l]) \in Seq(Ids)
      BY <3>2, WithoutProperties
    <3>4. CASE DrainStart(l) \/ SendHeld(l)
      BY <3>1, <3>2, <3>4 DEF DrainStart, SendHeld
    <3>5. CASE SendHeldFails(l)
      BY <3>1, <3>3, <3>5 DEF SendHeldFails
    <3>6. CASE Refill(l)
      BY <3>2, <3>6 DEF Refill, TakeNext, Stay, Goto
    <3>7. QED
      BY <1>4, <3>4, <3>5, <3>6 DEF DrainStep
  <2>2. QED
    BY <1>4, <2>1 DEF LaneWoken
<1>5. QED
  BY <1>2, <1>3, <1>4

LEMMA FileEventWake ==
  ASSUME TypeInv, WakeInv, NEW l \in Lanes, FileEvent(l)
  PROVE  WakeInv'
<1> SUFFICES ASSUME NEW k \in Lanes PROVE LaneWoken(k)'
  BY DEF WakeInv
<1>1. UNCHANGED <<laneVars, ackVars, registryVars, drainVars>>
  BY FileEventIsOperation
<1>2. HasSpilled(k)' => HasSpilled(k)
  BY FileEventIsOperation, FileOperationType DEF TypeInv, TypeOK
<1>3. QED
  BY <1>1, <1>2, LaneLeftAlone
     DEF laneVars, ackVars, registryVars, drainVars, Open, WakeInv

LEMMA StutterWake ==
  ASSUME WakeInv, UNCHANGED vars
  PROVE  WakeInv'
<1> SUFFICES ASSUME NEW k \in Lanes PROVE LaneWoken(k)'
  BY DEF WakeInv
<1>1. UNCHANGED <<laneVars, spillVars, ackVars, registryVars, drainVars>>
  BY DEF vars
<1>2. QED
  BY <1>1, LaneLeftAlone
     DEF laneVars, spillVars, ackVars, registryVars, drainVars, Open,
         HasSpilled, WakeInv

LEMMA NextWake ==
  TypeInv /\ AgreeInv /\ WakeInv /\ [Next]_vars => WakeInv'
<1> SUFFICES ASSUME TypeInv, AgreeInv, WakeInv, [Next]_vars PROVE WakeInv'
  OBVIOUS
<1>1. CASE SocketEvent
  BY <1>1, ConnectWake, DepartureLeaves, RegistryWake, AckWake DEF SocketEvent
<1>2. CASE Publication
  BY <1>2, PublicationIsDelivery, DeliverWake
<1>3. CASE Retrying
  BY <1>3, RetryTickWake, HandleDecisionWake DEF Retrying
<1>4. ASSUME NEW l \in Lanes, DrainStep(l) \/ FileEvent(l)
      PROVE  WakeInv'
  BY <1>4, DrainStepWake, FileEventWake
<1>5. CASE UNCHANGED vars
  BY <1>5, StutterWake
<1>6. QED
  BY <1>1, <1>2, <1>3, <1>4, <1>5 DEF Next

\* Whatever could be sent is being drained, or a decision about it is to come.
THEOREM WakeInvariant == Spec => []WakeInv
<1>1. TypeInv /\ AgreeInv /\ WakeInv /\ [Next]_vars => WakeInv'
  BY NextWake
<1>2. QED
  BY InitWake, TypeInvariant, AgreeInvariant, <1>1, PTL DEF Spec

\* No wakeup is lost: between two handlers, every lane of a connected client
\* that has something to send and a slot to send it is being drained.
THEOREM NoWakeupLost == Spec => []NoLostWakeup
<1>1. WakeInv => NoLostWakeup
  BY DEF WakeInv, LaneWoken, NoLostWakeup, Idle
<1>2. QED
  BY <1>1, WakeInvariant, PTL

-----------------------------------------------------------------------------
(* A lane that cannot send will be able to.  Unsubscribing is left out: it *)
(* drops the tracked acks and leaves the entries flagged.                  *)

\* The tracker has a deadline for every entry that takes a slot.
LaneTracked(k) == Open(k) => awaiting[k] \subseteq pending[k]

TrackedInv == \A k \in Lanes : LaneTracked(k)

LEMMA InitTracked == Init => TrackedInv
BY DEF Init, LaneInit, TrackedInv, LaneTracked

LEMMA SocketEventTracked ==
  ASSUME TypeInv, AgreeInv, TrackedInv, SocketEvent, ~CanUnsubscribe
  PROVE  TrackedInv'
<1> SUFFICES ASSUME NEW k \in Lanes PROVE LaneTracked(k)'
  BY DEF TrackedInv
<1>1. /\ awaiting \in [Lanes -> SUBSET Ids] /\ pending \in [Lanes -> SUBSET Ids]
      /\ session \in [Clients -> {"absent", "open", "closed"}]
  BY DEF TypeInv, TypeOK, LaneTypeOK, AckTypeOK
<1>2. LaneTracked(k) /\ LaneAgrees(k) /\ k[1] \in Clients
  BY DEF TrackedInv, AgreeInv, Lanes
<1>3. ASSUME NEW c \in Clients, Connect(c)
      PROVE  LaneTracked(k)'
  <2>1. /\ UNCHANGED <<awaiting, pending>> /\ session[c] = "absent"
        /\ session' = [session EXCEPT ![c] = "open"]
    BY <1>3 DEF Connect, laneVars, ackVars
  <2>2. session[k[1]] = "absent" => awaiting[k] = {}
    BY <1>2 DEF LaneAgrees, Range
  <2>3. QED
    BY <1>1, <1>2, <2>1, <2>2 DEF LaneTracked, Open
<1>4. ASSUME NEW S \in SUBSET Clients, Leave(S)
      PROVE  LaneTracked(k)'
  <2>1. UNCHANGED awaiting /\ (k[1] \notin S => pending'[k] = pending[k])
    BY <1>4 DEF Leave, laneVars, RemoveLanes, LanesOf
  <2>2. session'[k[1]] = IF k[1] \in S THEN "closed" ELSE session[k[1]]
    BY <1>2, <1>4, LeaveSession
  <2>3. QED
    BY <1>2, <2>1, <2>2 DEF LaneTracked, Open
<1>5. ASSUME NEW c \in Clients, NEW t \in Topics,
             Subscribe(c, t) \/ Unsubscribe(c, t)
      PROVE  LaneTracked(k)'
  BY <1>2, <1>5
     DEF Subscribe, Unsubscribe, laneVars, ackVars, LaneTracked, Open
<1>6. ASSUME NEW l \in Lanes, NEW id \in Ids, Ack(l, id)
      PROVE  LaneTracked(k)'
  <2>1. /\ awaiting' = [awaiting EXCEPT ![l] = @ \ {id}]
        /\ pending' = [pending EXCEPT ![l] = @ \ {id}]
        /\ UNCHANGED session
    BY <1>6 DEF Ack, RemoveByMessageId, Acknowledge, registryVars
  <2>2. QED
    BY <1>1, <1>2, <2>1 DEF LaneTracked, Open
<1>7. QED
  BY <1>3, <1>4, <1>5, <1>6, DepartureLeaves DEF SocketEvent

\* A pass of the timer takes the flag of every entry it forgets.
LEMMA RetryingTracked ==
  ASSUME TypeInv, TrackedInv, Retrying
  PROVE  TrackedInv'
<1> SUFFICES ASSUME NEW k \in Lanes PROVE LaneTracked(k)'
  BY DEF TrackedInv
<1>1. LaneTracked(k) /\ awaiting \in [Lanes -> SUBSET Ids]
  BY DEF TrackedInv, TypeInv, TypeOK, LaneTypeOK
<1>2. ASSUME NEW expired \in SUBSET Tracked, RetryTick(expired)
      PROVE  LaneTracked(k)'
  <2>1. /\ UNCHANGED session
        /\ awaiting'[k] = {id \in awaiting[k] : <<k, id>> \notin expired}
        /\ \A id \in pending[k] : <<k, id>> \notin expired => id \in pending'[k]
    BY <1>2 DEF RetryTick, Expire, registryVars
  <2>2. QED
    BY <1>1, <2>1 DEF LaneTracked, Open
<1>3. ASSUME NEW d \in decisions, HandleDecision(d)
      PROVE  LaneTracked(k)'
  <2>1. UNCHANGED <<session, pending>> /\ awaiting'[k] \subseteq awaiting[k]
    BY <1>1, <1>3, HandleDecisionLane
  <2>2. QED
    BY <1>1, <2>1 DEF LaneTracked, Open
<1>4. QED
  BY <1>2, <1>3 DEF Retrying

LEMMA DrainStepTracked ==
  ASSUME TypeInv, AgreeInv, TrackedInv, NEW l \in Lanes, DrainStep(l)
  PROVE  TrackedInv'
<1> SUFFICES ASSUME NEW k \in Lanes PROVE LaneTracked(k)'
  BY DEF TrackedInv
<1>1. /\ awaiting \in [Lanes -> SUBSET Ids] /\ pending \in [Lanes -> SUBSET Ids]
      /\ LaneTracked(k) /\ LaneTracked(l)
  BY DEF TypeInv, TypeOK, LaneTypeOK, AckTypeOK, TrackedInv
<1>2. OthersKept(l)
  BY DrainStepLane
<1>3. CASE k # l
  BY <1>1, <1>2, <1>3 DEF OthersKept, LaneTracked, Open
<1>4. CASE k = l
  <2>1. CASE DrainStart(l)
    BY <1>1, <1>2, <1>4, <2>1
       DEF DrainStart, LoopHead, ackVars, OthersKept, LaneTracked, Open
  <2>2. CASE SendHeld(l)
    BY <1>1, <1>2, <1>4, <2>2
       DEF SendHeld, LoopHead, Register, ackVars, OthersKept, LaneTracked, Open
  <2>3. CASE SendHeldFails(l)
    BY <1>1, <1>2, <1>4, <2>3
       DEF SendHeldFails, LoopHead, Acknowledge, OthersKept, LaneTracked, Open
  <2>4. CASE Refill(l) \/ DrainEnd(l)
    BY <1>1, <1>2, <1>4, <2>4
       DEF Refill, DrainEnd, laneVars, ackVars, OthersKept, LaneTracked, Open
  <2>5. QED
    BY <2>1, <2>2, <2>3, <2>4 DEF DrainStep
<1>5. QED
  BY <1>3, <1>4

LEMMA NextTracked ==
  ASSUME ~CanUnsubscribe
  PROVE  TypeInv /\ AgreeInv /\ TrackedInv /\ [Next]_vars => TrackedInv'
<1> SUFFICES ASSUME TypeInv, AgreeInv, TrackedInv, [Next]_vars
             PROVE  TrackedInv'
  OBVIOUS
<1>1. CASE SocketEvent
  BY <1>1, SocketEventTracked
<1>2. CASE Publication
  <2>1. UNCHANGED <<session, awaiting, pending>>
    BY <1>2, PublicationIsDelivery DEF Deliver, EnqueueAll, ackVars, registryVars
  <2>2. QED
    BY <2>1 DEF TrackedInv, LaneTracked, Open
<1>3. CASE Retrying
  BY <1>3, RetryingTracked
<1>4. ASSUME NEW l \in Lanes, DrainStep(l)
      PROVE  TrackedInv'
  BY <1>4, DrainStepTracked
<1>5. CASE UNCHANGED vars \/ \E l \in Lanes : FileEvent(l)
  <2>1. UNCHANGED <<session, awaiting, pending>>
    BY <1>5, FileEventIsOperation DEF vars, laneVars, ackVars, registryVars
  <2>2. QED
    BY <2>1 DEF TrackedInv, LaneTracked, Open
<1>6. QED
  BY <1>1, <1>2, <1>3, <1>4, <1>5 DEF Next

\* A lane that is not drained although it has something to send has all its
\* slots taken, as no wakeup is lost, and what takes them is tracked.
LEMMA FullLaneIsTracked ==
  ASSUME TypeInv, WakeInv, TrackedInv
  PROVE  NoWedgedLane
<1> SUFFICES ASSUME Idle, NEW l \in Lanes, Open(l), drain[l] = "idle",
                    HasPendingSend(l, queue[l], awaiting[l])
             PROVE  pending[l] \cap awaiting[l] # {}
  BY DEF NoWedgedLane
<1>1. ~(InFlight(l) < MaxInFlight)
  BY DEF WakeInv, LaneWoken, Idle
<1>2. awaiting[l] # {}
  <2>1. MaxInFlight \in Nat \ {0}
    BY PolicyNumbers DEF TypeInv, TypeOK
  <2>2. QED
    BY <1>1, <2>1, FS_EmptySet DEF InFlight
<1>3. QED
  BY <1>2 DEF TrackedInv, LaneTracked

\* Unless clients unsubscribe, a lane is never stuck for good: when it cannot
\* send, the tracker holds one of the entries that take its slots.
THEOREM NoLaneWedged ==
  ASSUME ~CanUnsubscribe
  PROVE  Spec => []NoWedgedLane
<1>1. TypeInv /\ AgreeInv /\ TrackedInv /\ [Next]_vars => TrackedInv'
  BY NextTracked
<1>2. TypeInv /\ WakeInv /\ TrackedInv => NoWedgedLane
  BY FullLaneIsTracked
<1>3. QED
  BY InitTracked, TypeInvariant, AgreeInvariant, WakeInvariant, <1>1, <1>2, PTL
     DEF Spec
=============================================================================
