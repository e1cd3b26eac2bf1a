---------------------------- MODULE PlaceProofs -----------------------------
(***************************************************************************)
(* Where a message is, and what a lane may send. A message of a lane is in *)
(* its queue, in the result of its recover(), in a write under way or in a *)
(* file, and in one of them only: an enqueue brings a number that no place *)
(* knows yet, and whatever puts a message into one place takes it from     *)
(* another. From this follow OnePlace and, as every file operation moves   *)
(* one message and the counter by one, SpillCountExact; then what a client *)
(* leaves on disk, and how long a queue gets. A drain sends whatever is    *)
(* queued and not flagged as awaiting, and nothing in it looks at the      *)
(* number of transmissions: that a message is sent once, and once more for *)
(* every retry, holds because only a pass of the retry timer takes the     *)
(* flag from an entry that stays queued, and counts a retry when it does,  *)
(* and because the disk only holds messages that were never sent. A client *)
(* that has gone is sent nothing new, as whatever schedules a drain looks  *)
(* at its session first. And as a message enters a queue with a number no  *)
(* place knows, the byte counter of a lane stays the sum of the sizes of   *)
(* its entries.                                                            *)
(***************************************************************************)
EXTENDS TopicDispatcherProofs

\* The places of the lane k and what they have to do with each other.
LanePlaced(k) ==
  /\ \A id \in Range(queue[k]) \cup Range(recovered[k]) \cup OnDisk(k) :
       id < nextSequence
  /\ IsInjective(queue[k]) /\ IsInjective(recovered[k])
  /\ Range(queue[k]) \cap Range(recovered[k]) = {}
  /\ (Range(queue[k]) \cup Range(recovered[k])) \cap OnDisk(k) = {}
  /\ writing[k] \cap files[k] = {}
  /\ recovery[k] = "none" => recovered[k] = <<>>
  /\ drain[k] = "holding" =>
       /\ held[k] < nextSequence /\ held[k] \notin OnDisk(k)
       /\ ~Reliable => held[k] \notin Range(queue[k])

PlaceInv == \A k \in Lanes : LanePlaced(k)

-----------------------------------------------------------------------------
(* Queues without repetition.                                              *)

LEMMA AppendFresh ==
  ASSUME NEW q \in Seq(Ids), NEW id \in Ids
  PROVE  /\ Range(Append(q, id)) = Range(q) \cup {id}
         /\ IsInjective(q) /\ id \notin Range(q) => IsInjective(Append(q, id))
<1>1. Len(q) \in Nat /\ DOMAIN q = 1..Len(q)
  BY LenProperties
<1>2. PICK s : s = Append(q, id)
  OBVIOUS
<1>3. /\ DOMAIN s = 1..(Len(q) + 1)
      /\ \A i \in 1..Len(q) : s[i] = q[i]
      /\ s[Len(q) + 1] = id
  BY <1>2, AppendProperties, LenProperties
<1>4. \A i \in DOMAIN s : i \in DOMAIN q \/ i = Len(q) + 1
  BY <1>1, <1>3
<1>5. Range(s) = Range(q) \cup {id}
  BY <1>1, <1>3, <1>4 DEF Range
<1>6. ASSUME IsInjective(q), id \notin Range(q), NEW i \in DOMAIN s,
             NEW j \in DOMAIN s, s[i] = s[j]
      PROVE  i = j
  <2>1. \A x \in DOMAIN q : q[x] # id
    BY <1>6 DEF Range
  <2>2. QED
    BY <1>1, <1>3, <1>4, <1>6, <2>1 DEF IsInjective
<1>7. QED
  BY <1>2, <1>5, <1>6 DEF IsInjective

LEMMA ConcatDisjoint ==
  ASSUME NEW q \in Seq(Ids), NEW r \in Seq(Ids)
  PROVE  /\ Range(q \o r) = Range(q) \cup Range(r)
         /\ IsInjective(q) /\ IsInjective(r) /\ Range(q) \cap Range(r) = {}
              => IsInjective(q \o r)
<1>1. /\ Len(q) \in Nat /\ DOMAIN q = 1..Len(q)
      /\ Len(r) \in Nat /\ DOMAIN r = 1..Len(r)
  BY LenProperties
<1>2. PICK s : s = q \o r
  OBVIOUS
<1>3. /\ DOMAIN s = 1..(Len(q) + Len(r))
      /\ \A i \in 1..(Len(q) + Len(r)) :
           s[i] = IF i <= Len(q) THEN q[i] ELSE r[i - Len(q)]
  BY <1>2, ConcatProperties, LenProperties
<1>4. \A i \in DOMAIN s : \/ i \in DOMAIN q /\ s[i] = q[i]
                          \/ i - Len(q) \in DOMAIN r /\ s[i] = r[i - Len(q)]
  BY <1>1, <1>3
<1>5. \A i \in DOMAIN q : i \in DOMAIN s /\ s[i] = q[i]
  BY <1>1, <1>3
<1>6. \A i \in DOMAIN r : i + Len(q) \in DOMAIN s /\ s[i + Len(q)] = r[i]
  <2>1. ASSUME NEW i \in 1..Len(r)
        PROVE  /\ i + Len(q) \in 1..(Len(q) + Len(r)) /\ ~(i + Len(q) <= Len(q))
               /\ (i + Len(q)) - Len(q) = i
    BY <1>1
  <2>2. QED
    BY <1>1, <1>3, <2>1
<1>7. Range(s) = Range(q) \cup Range(r)
  <2>1. Range(s) \subseteq Range(q) \cup Range(r)
    BY <1>4 DEF Range
  <2>2. Range(q) \subseteq Range(s) /\ Range(r) \subseteq Range(s)
    BY <1>5, <1>6 DEF Range
  <2>3. QED
    BY <2>1, <2>2
<1>8. ASSUME IsInjective(q), IsInjective(r), Range(q) \cap Range(r) = {},
             NEW i \in DOMAIN s, NEW j \in DOMAIN s, s[i] = s[j]
      PROVE  i = j
  <2>1. \A x \in DOMAIN q, y \in DOMAIN r : q[x] # r[y]
    BY <1>8 DEF Range
  <2>2. i \in Int /\ j \in Int
    BY <1>1, <1>3
  <2>3. CASE i \in DOMAIN q /\ s[i] = q[i] /\ j \in DOMAIN q /\ s[j] = q[j]
    BY <1>8, <2>3 DEF IsInjective
  <2>4. CASE /\ i - Len(q) \in DOMAIN r /\ s[i] = r[i - Len(q)]
             /\ j - Len(q) \in DOMAIN r /\ s[j] = r[j - Len(q)]
    <3>1. i - Len(q) = j - Len(q)
      BY <1>8, <2>4 DEF IsInjective
    <3>2. QED
      BY <1>1, <2>2, <3>1
  <2>5. QED
    BY <1>4, <1>8, <2>1, <2>3, <2>4
<1>9. QED
  BY <1>2, <1>7, <1>8 DEF IsInjective

LEMMA TailApart ==
  ASSUME NEW q \in Seq(Ids), q # <<>>, IsInjective(q)
  PROVE  /\ Tail(q) \in Seq(Ids) /\ IsInjective(Tail(q))
         /\ Range(Tail(q)) \subseteq Range(q)
         /\ Head(q) \in Range(q) \ Range(Tail(q))
<1>1. Len(q) \in Nat /\ Len(q) > 0 /\ DOMAIN q = 1..Len(q)
  BY LenProperties, EmptySeq
<1>2. PICK s : s = Tail(q)
  OBVIOUS
<1>3. /\ s \in Seq(Ids) /\ Head(q) = q[1]
      /\ DOMAIN s = 1..(Len(q) - 1)
      /\ \A i \in 1..(Len(q) - 1) : s[i] = q[i + 1]
  BY <1>1, <1>2, HeadTailProperties, LenProperties
<1>4. \A i \in DOMAIN s : i + 1 \in DOMAIN q /\ s[i] = q[i + 1] /\ i + 1 # 1
  BY <1>1, <1>3
<1>5. 1 \in DOMAIN q
  BY <1>1
<1>6. Range(s) \subseteq Range(q) /\ Head(q) \in Range(q)
  BY <1>3, <1>4, <1>5 DEF Range
<1>7. Head(q) \notin Range(s)
  BY <1>3, <1>4, <1>5 DEF Range, IsInjective
<1>8. ASSUME NEW i \in DOMAIN s, NEW j \in DOMAIN s, s[i] = s[j]
      PROVE  i = j
  <2>1. i + 1 = j + 1
    BY <1>4, <1>8 DEF IsInjective
  <2>2. QED
    BY <1>1, <1>3, <2>1
<1>9. QED
  BY <1>2, <1>3, <1>6, <1>7, <1>8 DEF IsInjective

\* A suffix of a queue (dropOldestUntilFits).
LEMMA SuffixApart ==
  ASSUME NEW q \in Seq(Ids), NEW k \in 0..Len(q)
  PROVE  /\ SubSeq(q, k + 1, Len(q)) \in Seq(Ids)
         /\ Range(SubSeq(q, k + 1, Len(q))) \subseteq Range(q)
         /\ IsInjective(q) => IsInjective(SubSeq(q, k + 1, Len(q)))
<1>1. /\ Len(q) \in Nat /\ DOMAIN q = 1..Len(q) /\ k \in Nat /\ k <= Len(q)
      /\ \A j \in 1..Len(q) : q[j] \in Ids
  BY LenProperties, ElementOfSeq
<1>2. PICK s : s = SubSeq(q, k + 1, Len(q))
  OBVIOUS
<1>3. /\ s \in Seq(Ids)
      /\ Len(s) = IF k + 1 <= Len(q) THEN Len(q) - (k + 1) + 1 ELSE 0
      /\ \A j \in 1..(Len(q) - (k + 1) + 1) : s[j] = q[(k + 1) + j - 1]
  <2>1. \A j \in (k + 1)..Len(q) : q[j] \in Ids
    BY <1>1
  <2>2. k + 1 \in Int /\ Len(q) \in Int
    BY <1>1
  <2>3. QED
    BY <1>2, <2>1, <2>2, SubSeqProperties
<1>0. Len(q) \in Nat /\ k \in Nat /\ k <= Len(q)
  BY <1>1
<1>4. Len(s) = Len(q) - k
  <2>1. Len(s) = IF k + 1 <= Len(q) THEN Len(q) - (k + 1) + 1 ELSE 0
    BY <1>3
  <2>2. CASE k + 1 <= Len(q)
    BY <1>0, <2>1, <2>2
  <2>3. CASE ~(k + 1 <= Len(q))
    <3>1. k = Len(q) /\ Len(s) = 0
      BY <1>0, <2>1, <2>3
    <3>2. QED
      BY <1>0, <3>1
  <2>4. QED
    BY <2>2, <2>3
<1>5. ASSUME NEW j \in DOMAIN s
      PROVE  j \in Nat /\ j + k \in DOMAIN q /\ s[j] = q[j + k]
  <2>1. DOMAIN s = 1..(Len(q) - k)
    BY <1>3, <1>4, LenProperties
  <2>2. /\ j \in 1..(Len(q) - (k + 1) + 1) /\ (k + 1) + j - 1 = j + k
        /\ j \in Nat /\ j + k \in 1..Len(q)
    BY <1>0, <2>1
  <2>3. s[j] = q[(k + 1) + j - 1]
    BY <1>3, <2>2
  <2>4. QED
    BY <1>1, <2>2, <2>3
<1>6. Range(s) \subseteq Range(q)
  BY <1>5 DEF Range
<1>7. ASSUME IsInjective(q), NEW i \in DOMAIN s, NEW j \in DOMAIN s, s[i] = s[j]
      PROVE  i = j
  <2>1. i + k = j + k
    BY <1>5, <1>7 DEF IsInjective
  <2>2. QED
    BY <1>0, <1>5, <2>1
<1>8. QED
  BY <1>2, <1>3, <1>6, <1>7 DEF IsInjective

\* removeByMessageId removes the one entry of its message.
LEMMA WithoutApart ==
  ASSUME NEW q \in Seq(Ids), NEW id, IsInjective(q)
  PROVE  /\ Without(q, id) \in Seq(Ids) /\ IsInjective(Without(q, id))
         /\ Range(Without(q, id)) = Range(q) \ {id}
<1>1. CASE id \notin Range(q)
  BY <1>1 DEF Without
<1>2. CASE id \in Range(q)
  <2>1. Len(q) \in Nat /\ DOMAIN q = 1..Len(q)
    BY LenProperties
  <2>2. PICK i : i = Min({j \in DOMAIN q : q[j] = id})
    OBVIOUS
  <2>3. i \in 1..Len(q) /\ q[i] = id
    <3>1. {j \in DOMAIN q : q[j] = id} # {}
      BY <1>2 DEF Range
    <3>2. {j \in DOMAIN q : q[j] = id} \subseteq Nat
      BY <2>1
    <3>3. QED
      BY <3>1, <3>2, <2>1, <2>2, MinIn
  <2>4. PICK r : r = RemoveAt(q, i)
    OBVIOUS
  <2>5. Without(q, id) = r
    BY <1>2, <2>2, <2>4 DEF Without
  <2>6. /\ r \in Seq(Ids)
        /\ DOMAIN r = 1..(Len(q) - 1)
        /\ \A j \in 1..(Len(q) - 1) : r[j] = IF j < i THEN q[j] ELSE q[j + 1]
    BY <2>3, <2>4, RemoveAtProperties
  <2> DEFINE from(j) == IF j < i THEN j ELSE j + 1
  <2>7. \A j \in DOMAIN r :
          j \in Nat /\ from(j) \in DOMAIN q /\ from(j) # i /\ r[j] = q[from(j)]
    BY <2>1, <2>3, <2>6
  <2>8. \A j \in DOMAIN r, k \in DOMAIN r : from(j) = from(k) => j = k
    BY <2>3, <2>7
  <2>9. id \notin Range(r)
    <3>1. \A j \in DOMAIN r : r[j] # id
      BY <2>1, <2>3, <2>7 DEF IsInjective
    <3>2. QED
      BY <3>1 DEF Range
  <2>10. IsInjective(r)
    <3> SUFFICES ASSUME NEW j \in DOMAIN r, NEW k \in DOMAIN r, r[j] = r[k]
                 PROVE  j = k
      BY DEF IsInjective
    <3>1. from(j) = from(k)
      BY <2>7 DEF IsInjective
    <3>2. QED
      BY <2>8, <3>1
  <2>11. QED
    BY <2>5, <2>6, <2>9, <2>10, WithoutProperties
<1>3. QED
  BY <1>1, <1>2

\* An enqueue adds its own message to the queue, or spills it, or neither.
LEMMA EnqueueApart ==
  ASSUME NEW l, NEW n, NEW id \in Ids, queue[l] \in Seq(Ids),
         IsInjective(queue[l]), id \notin Range(queue[l])
  PROVE  /\ IsInjective(QueueAfter(l, id, n))
         /\ Range(QueueAfter(l, id, n)) \subseteq Range(queue[l]) \cup {id}
         /\ EnqueueStatus(l, n) = "SPILLED" => QueueAfter(l, id, n) = queue[l]
<1>1. PICK status : status = EnqueueStatus(l, n)
  OBVIOUS
<1>2. CASE status = "ACCEPTED"
  <2>1. QueueAfter(l, id, n) = Append(queue[l], id)
    BY <1>1, <1>2 DEF QueueAfter
  <2>2. QED
    BY <1>1, <1>2, <2>1, AppendFresh
<1>3. CASE status = "REPLACED_SNAPSHOT"
  <2>1. QueueAfter(l, id, n) = <<id>>
    BY <1>1, <1>3 DEF QueueAfter
  <2>2. QED
    BY <1>1, <1>3, <2>1 DEF Range, IsInjective
<1>4. CASE status = "COALESCED"
  <2>1. PICK i : i = Max(Coalescable(l))
    OBVIOUS
  <2>2. PICK q : q = [queue[l] EXCEPT ![i] = id]
    OBVIOUS
  <2>3. QueueAfter(l, id, n) = q
    BY <1>1, <1>4, <2>1, <2>2 DEF QueueAfter
  <2>4. /\ DOMAIN q = DOMAIN queue[l]
        /\ \A j \in DOMAIN q : q[j] = IF j = i THEN id ELSE queue[l][j]
    BY <2>2, LenProperties
  <2>5. Range(q) \subseteq Range(queue[l]) \cup {id}
    BY <2>4 DEF Range
  <2>6. IsInjective(q)
    BY <2>4 DEF Range, IsInjective
  <2>7. QED
    BY <1>1, <1>4, <2>3, <2>5, <2>6
<1>5. CASE status = "DROPPED_OLDEST_AND_ACCEPTED"
  <2>1. QueueAfter(l, id, n) = Append(AfterDrop(l, n), id)
    BY <1>1, <1>5 DEF QueueAfter
  <2>2. /\ AfterDrop(l, n) \in Seq(Ids) /\ IsInjective(AfterDrop(l, n))
        /\ Range(AfterDrop(l, n)) \subseteq Range(queue[l])
    BY DropCountIn, SuffixApart DEF AfterDrop
  <2>3. QED
    BY <1>1, <1>5, <2>1, <2>2, AppendFresh
<1>6. CASE status \notin {"ACCEPTED", "REPLACED_SNAPSHOT", "COALESCED",
                          "DROPPED_OLDEST_AND_ACCEPTED"}
  <2>1. QueueAfter(l, id, n) = queue[l]
    BY <1>1, <1>6 DEF QueueAfter
  <2>2. QED
    BY <2>1
<1>7. QED
  BY <1>2, <1>3, <1>4, <1>5, <1>6

-----------------------------------------------------------------------------
(* Each message is in one place.                                           *)

\* The ranges the numbers of messages are compared in.
LEMMA PlaceTypes ==
  ASSUME TypeInv, NEW k \in Lanes
  PROVE  /\ nextSequence \in Nat /\ held[k] \in Nat
         /\ queue[k] \in Seq(Ids) /\ recovered[k] \in Seq(Ids)
         /\ Range(queue[k]) \subseteq Ids /\ Range(recovered[k]) \subseteq Ids
         /\ OnDisk(k) \subseteq Ids /\ Ids \subseteq Nat
<1>1. queue[k] \in Seq(Ids) /\ recovered[k] \in Seq(Ids)
  BY DEF TypeInv, TypeOK, LaneTypeOK, SpillTypeOK
<1>2. Ids \subseteq Nat /\ NoId \in Nat
  BY DEF Ids, NoId
<1>3. nextSequence \in Nat /\ held[k] \in Nat
  <2>1. /\ nextSequence \in 1..(MaxMessages + 1)
        /\ held \in [Lanes -> Ids \cup {NoId}]
    BY DEF TypeInv, TypeOK
  <2>2. nextSequence \in Nat
    BY <2>1, InstanceAssumption
  <2>3. held[k] \in Ids \cup {NoId}
    BY <2>1
  <2>4. QED
    BY <1>2, <2>2, <2>3
<1>4. OnDisk(k) \subseteq Ids
  BY DEF OnDisk, TypeInv, TypeOK, SpillTypeOK
<1>5. QED
  BY <1>1, <1>2, <1>3, <1>4, RangeOfQueue

\* Steps that bring nothing into a place of the lane k.
Kept(k) ==
  /\ IsInjective(queue'[k]) /\ Range(queue'[k]) \subseteq Range(queue[k])
  /\ recovered'[k] = recovered[k]
  /\ OnDisk(k)' \subseteq OnDisk(k) /\ writing'[k] \cap files'[k] = {}
  /\ recovery'[k] = "none" => recovery[k] = "none"
  /\ drain'[k] = "holding" => drain[k] = "holding"
  /\ held'[k] = held[k]

\* Nor does a publication to other lanes.
LEMMA KeptPlaced ==
  ASSUME TypeInv, NEW k \in Lanes, LanePlaced(k), Kept(k), UNCHANGED policy,
         nextSequence' \in {nextSequence, nextSequence + 1}
  PROVE  LanePlaced(k)'
<1>1. Reliable' = Reliable
  BY DEF Reliable
<1>2. \A id \in Nat : id < nextSequence => id < nextSequence'
  BY PlaceTypes
<1>3. \A id \in Range(queue'[k]) \cup Range(recovered'[k]) \cup OnDisk(k)' :
        id < nextSequence'
  BY <1>2, PlaceTypes DEF LanePlaced, Kept
<1>4. drain'[k] = "holding" =>
        /\ held'[k] < nextSequence' /\ held'[k] \notin OnDisk(k)'
        /\ ~Reliable' => held'[k] \notin Range(queue'[k])
  BY <1>1, <1>2, PlaceTypes DEF LanePlaced, Kept
<1>5. /\ Range(queue'[k]) \cap Range(recovered'[k]) = {}
      /\ (Range(queue'[k]) \cup Range(recovered'[k])) \cap OnDisk(k)' = {}
  BY DEF LanePlaced, Kept
<1>6. QED
  BY <1>3, <1>4, <1>5 DEF LanePlaced, Kept

LEMMA InitPlaced == Init => PlaceInv
BY DEF Init, LaneInit, SpillInit, PlaceInv, LanePlaced, OnDisk, Range, IsInjective

\* A lane whose variables a step leaves alone.
LaneKept(k) ==
  /\ queue'[k] = queue[k] /\ recovered'[k] = recovered[k]
  /\ writing'[k] = writing[k] /\ files'[k] = files[k]
  /\ recovery'[k] = recovery[k] /\ held'[k] = held[k]
  /\ drain'[k] = "holding" => drain[k] = "holding"

LEMMA LaneKeptIsKept ==
  ASSUME NEW k \in Lanes, LanePlaced(k), LaneKept(k)
  PROVE  Kept(k)
BY DEF LanePlaced, LaneKept, Kept, OnDisk

LEMMA ScheduleKeeps ==
  ASSUME NEW S, ScheduleDrain(S), NEW k \in Lanes
  PROVE  /\ drain'[k] = "holding" => drain[k] = "holding"
         /\ held'[k] = held[k]
BY DEF ScheduleDrain

\* Sessions, subscriptions, acks and passes of the timer only take entries out
\* of a queue.
LEMMA EventKeeps ==
  ASSUME TypeInv, PlaceInv, SocketEvent \/ Retrying, NEW k \in Lanes
  PROVE  Kept(k) /\ UNCHANGED <<policy, nextSequence>>
<1> DEFINE Goal == Kept(k) /\ UNCHANGED <<policy, nextSequence>>
<1>0. LanePlaced(k) /\ queue \in [Lanes -> Seq(Ids)]
  BY DEF PlaceInv, TypeInv, TypeOK, LaneTypeOK
<1>1. ASSUME (\E c \in Clients : Connect(c)) \/ \E S \in SUBSET Clients : Leave(S)
      PROVE  Goal
  <2>1. LaneKept(k) /\ UNCHANGED <<policy, nextSequence>>
    BY <1>1 DEF Connect, Leave, StartClears, laneVars, spillVars, drainVars,
                LaneKept
  <2>2. QED
    BY <1>0, <2>1, LaneKeptIsKept
<1>2. ASSUME NEW c \in Clients, NEW t \in Topics,
             Subscribe(c, t) \/ Unsubscribe(c, t)
      PROVE  Goal
  <2>1. LaneKept(k) /\ UNCHANGED <<policy, nextSequence>>
    BY <1>2 DEF Subscribe, Unsubscribe, laneVars, spillVars, drainVars, LaneKept
  <2>2. QED
    BY <1>0, <2>1, LaneKeptIsKept
<1>3. ASSUME NEW l \in Lanes, NEW id \in Ids,
             queue' = [queue EXCEPT ![l] = Without(@, id)], UNCHANGED spillVars,
             UNCHANGED <<policy, nextSequence>>,
             UNCHANGED drainVars \/ \E S : ScheduleDrain(S)
      PROVE  Goal
  <2>1. /\ IsInjective(queue'[k]) /\ Range(queue'[k]) \subseteq Range(queue[k])
    BY <1>0, <1>3, WithoutApart DEF LanePlaced
  <2>2. /\ drain'[k] = "holding" => drain[k] = "holding"
        /\ held'[k] = held[k]
    BY <1>3, ScheduleKeeps DEF drainVars
  <2>3. QED
    BY <1>0, <1>3, <2>1, <2>2 DEF Kept, LanePlaced, OnDisk, spillVars
<1>4. ASSUME NEW l \in Lanes, NEW id \in Ids, Ack(l, id)
      PROVE  Goal
  BY <1>3, <1>4 DEF Ack, RemoveByMessageId, registryVars
<1>5. ASSUME NEW expired \in SUBSET Tracked, RetryTick(expired)
      PROVE  Goal
  <2>1. LaneKept(k) /\ UNCHANGED <<policy, nextSequence>>
    BY <1>5 DEF RetryTick, registryVars, spillVars, drainVars, LaneKept
  <2>2. QED
    BY <1>0, <2>1, LaneKeptIsKept
<1>6. ASSUME NEW d \in decisions, HandleDecision(d)
      PROVE  Goal
  <2>1. d.lane \in Lanes /\ d.id \in Ids
    BY DEF TypeInv, TypeOK, AckTypeOK, Decision
  <2>2. /\ UNCHANGED spillVars /\ UNCHANGED <<policy, nextSequence>>
        /\ UNCHANGED drainVars \/ \E S : ScheduleDrain(S)
        /\ UNCHANGED queue \/ queue' = [queue EXCEPT ![d.lane] = Without(@, d.id)]
    BY <1>6 DEF HandleDecision, HandleRetry, HandleExhausted, RemoveByMessageId,
                laneVars, registryVars
  <2>3. CASE UNCHANGED queue
    <3>1. /\ drain'[k] = "holding" => drain[k] = "holding"
          /\ held'[k] = held[k]
      BY <2>2, ScheduleKeeps DEF drainVars
    <3>2. QED
      BY <1>0, <2>2, <2>3, <3>1, LaneKeptIsKept DEF LaneKept, spillVars
  <2>4. QED
    BY <1>3, <2>1, <2>2, <2>3
<1>7. QED
  BY <1>1, <1>2, <1>4, <1>5, <1>6, DepartureLeaves DEF SocketEvent, Retrying

\* A publication brings a number above all others into one place of a lane.
LEMMA DeliverPlaced ==
  ASSUME TypeInv, PlaceInv, NEW S \in SUBSET Lanes, NEW n \in Sizes,
         Deliver(S, n)
  PROVE  PlaceInv'
<1>1. PICK id : id = nextSequence
  OBVIOUS
<1>2. PICK T : ScheduleDrain(T)
  BY DEF Deliver
<1>3. /\ id \in Ids /\ nextSequence' = id + 1 /\ UNCHANGED policy
      /\ UNCHANGED <<files, recovery, recovered>>
      /\ queue' = [l \in Lanes |-> IF l \in S THEN QueueAfter(l, id, n)
                                              ELSE queue[l]]
      /\ writing' = [l \in Lanes |->
           IF l \in {m \in S : EnqueueStatus(m, n) = "SPILLED"}
             THEN writing[l] \cup {id} ELSE writing[l]]
  BY <1>1 DEF Deliver, EnqueueAll, SpillAll, registryVars
<1>4. ASSUME NEW k \in Lanes
      PROVE  LanePlaced(k)'
  <2>1. LanePlaced(k) /\ queue[k] \in Seq(Ids)
    BY PlaceTypes DEF PlaceInv
  <2>2. /\ drain'[k] = "holding" => drain[k] = "holding"
        /\ held'[k] = held[k]
    BY <1>2, ScheduleKeeps
  <2>3. CASE k \notin S
    <3>1. LaneKept(k)
      BY <1>3, <2>2, <2>3 DEF LaneKept
    <3>2. QED
      BY <1>1, <1>3, <2>1, <3>1, LaneKeptIsKept, KeptPlaced
  <2>4. CASE k \in S
    <3>1. \A other \in Range(queue[k]) \cup Range(recovered[k]) \cup OnDisk(k)
                       \cup (IF drain[k] = "holding" THEN {held[k]} ELSE {}) :
            other \in Nat /\ other < id
      BY <1>1, <2>1, PlaceTypes DEF LanePlaced
    <3>2. id \notin Range(queue[k]) \cup Range(recovered[k]) \cup OnDisk(k)
          /\ (drain[k] = "holding" => held[k] # id)
      BY <1>3, <3>1
    <3>3. /\ IsInjective(queue'[k])
          /\ Range(queue'[k]) \subseteq Range(queue[k]) \cup {id}
          /\ EnqueueStatus(k, n) = "SPILLED" => queue'[k] = queue[k]
      BY <1>3, <2>1, <2>4, <3>2, EnqueueApart DEF LanePlaced
    <3>4. /\ OnDisk(k)' \subseteq OnDisk(k) \cup {id}
          /\ id \in OnDisk(k)' => EnqueueStatus(k, n) = "SPILLED"
          /\ writing'[k] \cap files'[k] = {}
      BY <1>3, <2>1, <3>2 DEF OnDisk, LanePlaced
    <3>5. \A other \in Nat : other < id => other < nextSequence'
      BY <1>3 DEF Ids
    <3>6. \A other \in Range(queue'[k]) \cup Range(recovered'[k]) \cup OnDisk(k)' :
            other < nextSequence'
      BY <1>3, <3>1, <3>3, <3>4, <3>5 DEF Ids
    <3>7. /\ Range(queue'[k]) \cap Range(recovered'[k]) = {}
          /\ (Range(queue'[k]) \cup Range(recovered'[k])) \cap OnDisk(k)' = {}
      BY <1>3, <2>1, <3>2, <3>3, <3>4 DEF LanePlaced
    <3>8. drain'[k] = "holding" =>
            /\ held'[k] < nextSequence' /\ held'[k] \notin OnDisk(k)'
            /\ ~Reliable' => held'[k] \notin Range(queue'[k])
      BY <1>3, <2>1, <2>2, <3>1, <3>2, <3>3, <3>4, <3>5 DEF LanePlaced, Reliable
    <3>9. QED
      BY <1>3, <2>1, <3>3, <3>4, <3>6, <3>7, <3>8 DEF LanePlaced
  <2>5. QED
    BY <2>3, <2>4
<1>5. QED
  BY <1>4 DEF PlaceInv

\* What is in memory and has nothing to do with the disk.
Sound(l, q) ==
  /\ q \in Seq(Ids) /\ IsInjective(q)
  /\ \A id \in Range(q) : id < nextSequence /\ id \notin OnDisk(l)

\* The drain takes an entry of q, out of it for BEST_EFFORT.
LEMMA TakeNextPlaced ==
  ASSUME TypeInv, NEW l \in Lanes, NEW q, Sound(l, q), NEW bytes, NEW flagged,
         TakeNext(l, q, bytes, flagged)
  PROVE  /\ Range(queue'[l]) \subseteq Range(q) /\ IsInjective(queue'[l])
         /\ held'[l] \in Range(q)
         /\ ~Reliable => held'[l] \notin Range(queue'[l])
         /\ \A k \in Lanes : k # l =>
              /\ queue'[k] = queue[k] /\ drain'[k] = drain[k]
              /\ held'[k] = held[k]
<1>1. /\ queue \in [Lanes -> Seq(Ids)] /\ drain \in [Lanes -> DrainStages]
      /\ held \in [Lanes -> Ids \cup {NoId}]
  BY DEF TypeInv, TypeOK, LaneTypeOK
<1>2. CASE Reliable
  <2>1. /\ queue' = [queue EXCEPT ![l] = q]
        /\ drain' = [drain EXCEPT ![l] = "holding"]
        /\ held' = [held EXCEPT ![l] = FirstUnsent(q, flagged)]
    BY <1>2 DEF TakeNext, Goto
  <2>2. FirstUnsent(q, flagged) \in Range(q)
    BY <1>2, FirstUnsentIn DEF TakeNext, Entries, Sound
  <2>3. QED
    BY <1>1, <1>2, <2>1, <2>2 DEF Sound
<1>3. CASE ~Reliable
  <2>1. /\ queue' = [queue EXCEPT ![l] = Tail(q)]
        /\ drain' = [drain EXCEPT ![l] = "holding"]
        /\ held' = [held EXCEPT ![l] = Head(q)]
    BY <1>3 DEF TakeNext, Goto
  <2>2. q # <<>>
    BY <1>3 DEF TakeNext, Entries
  <2>3. /\ IsInjective(Tail(q)) /\ Range(Tail(q)) \subseteq Range(q)
        /\ Head(q) \in Range(q) \ Range(Tail(q))
    BY <2>2, TailApart DEF Sound
  <2>4. QED
    BY <1>1, <2>1, <2>3
<1>4. QED
  BY <1>2, <1>3

LEMMA StayPlaced ==
  ASSUME TypeInv, NEW l \in Lanes, NEW q, NEW bytes, NEW stage,
         Stay(l, q, bytes, stage)
  PROVE  /\ queue'[l] = q /\ drain'[l] = stage
         /\ \A k \in Lanes : k # l =>
              /\ queue'[k] = queue[k] /\ drain'[k] = drain[k]
              /\ held'[k] = held[k]
BY DEF TypeInv, TypeOK, LaneTypeOK, Stay, Goto

\* The next await of a drain puts the lane's own entries nowhere else.
LEMMA LoopHeadPlaced ==
  ASSUME TypeInv, PlaceInv, NEW l \in Lanes, NEW q, Sound(l, q), NEW bytes,
         NEW flagged, LoopHead(l, q, bytes, flagged), recovery[l] = "none",
         UNCHANGED <<policy, nextSequence>>
  PROVE  PlaceInv'
<1>1. /\ recovery \in [Lanes -> Stages] /\ recovered \in [Lanes -> Seq(Ids)]
      /\ LanePlaced(l) /\ recovered[l] = <<>> /\ Range(recovered[l]) = {}
  <2>1. /\ recovery \in [Lanes -> Stages] /\ recovered \in [Lanes -> Seq(Ids)]
        /\ LanePlaced(l) /\ recovered[l] = <<>>
    BY DEF TypeInv, TypeOK, SpillTypeOK, PlaceInv, LanePlaced
  <2>2. QED
    BY <2>1 DEF Range
<1>2. CASE TakeNext(l, q, bytes, flagged) /\ UNCHANGED spillVars
  <2>1. UNCHANGED <<recovery, recovered, writing, files>>
    BY <1>2 DEF spillVars
  <2>2. \A k \in Lanes : k # l => LaneKept(k)
    BY <1>2, <2>1, TakeNextPlaced DEF LaneKept
  <2>3. LanePlaced(l)'
    BY <1>1, <1>2, <2>1, TakeNextPlaced DEF LanePlaced, Sound, OnDisk, Reliable
  <2>4. QED
    BY <2>2, <2>3, LaneKeptIsKept, KeptPlaced DEF PlaceInv
<1>3. CASE \E stage \in {"recovering", "ending"} :
             Stay(l, q, bytes, stage) /\ (StartRecover(l) \/ UNCHANGED spillVars)
  <2>1. PICK stage \in {"recovering", "ending"} : Stay(l, q, bytes, stage)
    BY <1>3
  <2>2. /\ UNCHANGED <<writing, files>>
        /\ \A k \in Lanes : k # l => recovery'[k] = recovery[k]
                                     /\ recovered'[k] = recovered[k]
        /\ recovered'[l] = <<>>
    BY <1>1, <1>3 DEF StartRecover, spillVars
  <2>3. \A k \in Lanes : k # l => LaneKept(k)
    BY <2>1, <2>2, StayPlaced DEF LaneKept
  <2>4. Range(recovered'[l]) = {} /\ IsInjective(recovered'[l])
    BY <2>2 DEF Range, IsInjective
  <2>5. LanePlaced(l)'
    BY <1>1, <2>1, <2>2, <2>4, StayPlaced DEF LanePlaced, Sound, OnDisk
  <2>6. QED
    BY <2>3, <2>5, LaneKeptIsKept, KeptPlaced DEF PlaceInv
<1>4. QED
  BY <1>2, <1>3 DEF LoopHead

\* A step of a drain.
LEMMA DrainStepPlaced ==
  ASSUME TypeInv, BudgetInv, PlaceInv, NEW l \in Lanes, DrainStep(l)
  PROVE  PlaceInv'
<1>1. /\ LanePlaced(l) /\ queue[l] \in Seq(Ids) /\ recovered[l] \in Seq(Ids)
      /\ Sound(l, queue[l])
  BY PlaceTypes DEF PlaceInv, LanePlaced, Sound
<1>2. UNCHANGED <<policy, nextSequence>>
  BY DEF DrainStep, DrainStart, SendHeld, SendHeldFails, Refill, DrainEnd,
         registryVars
<1>3. recovery[l] # "none" => drain[l] = "recovering"
  BY DEF BudgetInv, RecoveryInDrain
<1>4. CASE DrainStart(l) \/ SendHeld(l)
  <2>1. recovery[l] = "none"
    BY <1>3, <1>4 DEF DrainStart, SendHeld
  <2>2. PICK flagged : LoopHead(l, queue[l], queuedBytes[l], flagged)
    BY <1>4 DEF DrainStart, SendHeld
  <2>3. QED
    BY <1>1, <1>2, <2>1, <2>2, LoopHeadPlaced
<1>5. CASE SendHeldFails(l)
  <2>1. recovery[l] = "none"
    BY <1>3, <1>5 DEF SendHeldFails
  <2>2. PICK bytes, flagged : LoopHead(l, Without(queue[l], held[l]), bytes, flagged)
    BY <1>5 DEF SendHeldFails
  <2>3. Sound(l, Without(queue[l], held[l]))
    BY <1>1, WithoutApart DEF Sound
  <2>4. QED
    BY <1>2, <2>1, <2>2, <2>3, LoopHeadPlaced
<1>6. CASE Refill(l)
  <2>1. PICK q : q = queue[l] \o recovered[l]
    OBVIOUS
  <2>2. Sound(l, q) /\ Range(q) = Range(queue[l]) \cup Range(recovered[l])
    BY <1>1, <2>1, ConcatDisjoint, ConcatProperties DEF Sound, LanePlaced
  <2>3. /\ UNCHANGED <<writing, files>>
        /\ \A k \in Lanes : k # l => recovery'[k] = recovery[k]
                                     /\ recovered'[k] = recovered[k]
        /\ recovered'[l] = <<>>
    BY <1>6 DEF Refill, EndRecover, TypeInv, TypeOK, SpillTypeOK
  <2>4. Range(recovered'[l]) = {} /\ IsInjective(recovered'[l])
    BY <2>3 DEF Range, IsInjective
  <2>5. PICK bytes : \/ TakeNext(l, q, bytes, awaiting[l])
                     \/ Stay(l, q, bytes, "ending")
    BY <1>6, <2>1 DEF Refill, Refilled
  <2>6. \A k \in Lanes : k # l => LaneKept(k)
    BY <2>2, <2>3, <2>5, TakeNextPlaced, StayPlaced DEF LaneKept
  <2>7. LanePlaced(l)'
    <3>1. CASE TakeNext(l, q, bytes, awaiting[l])
      BY <1>1, <1>2, <2>2, <2>3, <2>4, <3>1, TakeNextPlaced
         DEF LanePlaced, Sound, OnDisk, Reliable
    <3>2. CASE Stay(l, q, bytes, "ending")
      BY <1>1, <1>2, <2>2, <2>3, <2>4, <3>2, StayPlaced
         DEF LanePlaced, Sound, OnDisk
    <3>3. QED
      BY <2>5, <3>1, <3>2
  <2>8. QED
    BY <1>2, <2>6, <2>7, LaneKeptIsKept, KeptPlaced DEF PlaceInv
<1>7. CASE DrainEnd(l)
  <2>1. \A k \in Lanes : LaneKept(k) \/ (k = l /\ drain'[k] # "holding")
    BY <1>7 DEF DrainEnd, Goto, laneVars, spillVars, LaneKept, TypeInv, TypeOK
  <2>2. LanePlaced(l)'
    BY <1>1, <1>2, <1>7 DEF DrainEnd, Goto, laneVars, spillVars, LanePlaced, OnDisk,
                            TypeInv, TypeOK
  <2>3. QED
    BY <1>2, <2>1, <2>2, LaneKeptIsKept, KeptPlaced DEF PlaceInv
<1>8. QED
  BY <1>4, <1>5, <1>6, <1>7 DEF DrainStep

\* A read moves an entry from its file to the result of recover(), a finished
\* write from the writes to the files; every other operation of the disk
\* takes entries from it.
LEMMA FileOperationPlaced ==
  ASSUME TypeInv, PlaceInv, NEW l \in Lanes, FileOperation(l),
         UNCHANGED <<queue, drain, held, policy, nextSequence>>
  PROVE  PlaceInv'
<1>1. /\ writing \in [Lanes -> SUBSET Ids] /\ files \in [Lanes -> SUBSET Ids]
      /\ recovery \in [Lanes -> Stages] /\ recovered \in [Lanes -> Seq(Ids)]
      /\ LanePlaced(l)
  BY DEF TypeInv, TypeOK, SpillTypeOK, PlaceInv
<1>2. \A k \in Lanes : k # l => LaneKept(k)
  BY <1>1 DEF FileOperation, WriteDone, WriteFails, FailWrites, ListFiles, ReadFile,
     SkipFile, LeaveFile, ClearAfterWrites, ClearNow, LaneKept
<1>3. ASSUME OnDisk(l)' \subseteq OnDisk(l), writing'[l] \cap files'[l] = {},
             recovered'[l] = recovered[l],
             recovery'[l] = "none" => recovery[l] = "none"
      PROVE  LanePlaced(l)'
  <2>1. Kept(l)
    BY <1>1, <1>3 DEF Kept, LanePlaced
  <2>2. QED
    BY <1>1, <2>1, KeptPlaced
<1>4. ASSUME NEW id \in Ids, WriteDone(l, id)
      PROVE  LanePlaced(l)'
  <2>1. /\ writing'[l] = writing[l] \ {id} /\ files'[l] = files[l] \cup {id}
        /\ id \in writing[l] /\ UNCHANGED <<recovered, recovery>>
    BY <1>1, <1>4 DEF WriteDone
  <2>2. QED
    BY <1>1, <1>3, <2>1 DEF OnDisk, LanePlaced
<1>5. ASSUME NEW ids, FailWrites(l, ids), files'[l] \subseteq files[l],
             UNCHANGED <<recovered, recovery>>
      PROVE  LanePlaced(l)'
  <2>1. writing'[l] = writing[l] \ ids
    BY <1>1, <1>5 DEF FailWrites
  <2>2. QED
    BY <1>1, <1>3, <1>5, <2>1 DEF OnDisk, LanePlaced
<1>6. ASSUME NEW id \in Ids, WriteFails(l, id)
      PROVE  LanePlaced(l)'
  BY <1>5, <1>6 DEF WriteFails
<1>7. ASSUME ListFiles(l) \/ SkipFile(l)
      PROVE  LanePlaced(l)'
  <2>1. UNCHANGED <<writing, files, recovered>> /\ recovery'[l] # "none"
    BY <1>1, <1>7 DEF ListFiles, SkipFile, LeaveFile
  <2>2. QED
    BY <1>1, <1>3, <2>1 DEF OnDisk, LanePlaced
<1>8. ASSUME ClearAfterWrites(l)
      PROVE  LanePlaced(l)'
  <2>1. UNCHANGED <<writing, recovered, recovery>> /\ files'[l] = {}
    BY <1>1, <1>8 DEF ClearAfterWrites
  <2>2. QED
    BY <1>1, <1>3, <2>1 DEF OnDisk, LanePlaced
<1>9. ASSUME ClearNow(l)
      PROVE  LanePlaced(l)'
  <2>1. UNCHANGED <<recovered, recovery>> /\ files'[l] = {}
    BY <1>1, <1>9 DEF ClearNow
  <2>2. QED
    BY <1>5, <1>9, <2>1 DEF ClearNow
<1>10. ASSUME ReadFile(l)
       PROVE  LanePlaced(l)'
  <2>1. PICK id : id = NextFile(l)
    OBVIOUS
  <2>2. /\ id \in files[l] /\ id \in Ids
        /\ recovered'[l] = Append(recovered[l], id)
        /\ files'[l] = files[l] \ {id} /\ UNCHANGED writing
        /\ recovery'[l] # "none"
    BY <1>1, <1>10, <2>1 DEF ReadFile, LeaveFile
  <2>3. id \notin Range(recovered[l]) /\ id \notin Range(queue[l])
        /\ id \notin writing[l] /\ id < nextSequence
    BY <1>1, <2>2 DEF LanePlaced, OnDisk
  <2>4. /\ IsInjective(recovered'[l])
        /\ Range(recovered'[l]) = Range(recovered[l]) \cup {id}
    BY <1>1, <2>2, <2>3, AppendFresh DEF LanePlaced
  <2>5. OnDisk(l)' = OnDisk(l) \ {id}
    BY <2>2, <2>3 DEF OnDisk
  <2>6. QED
    BY <1>1, <2>2, <2>3, <2>4, <2>5 DEF LanePlaced, Reliable
<1>11. LanePlaced(l)'
  BY <1>4, <1>6, <1>7, <1>8, <1>9, <1>10 DEF FileOperation
<1>12. QED
  BY <1>2, <1>11, LaneKeptIsKept, KeptPlaced DEF PlaceInv

LEMMA NextPlaced ==
  ASSUME TypeInv, BudgetInv, PlaceInv, [Next]_vars
  PROVE  PlaceInv'
<1>1. CASE SocketEvent \/ Retrying
  BY <1>1, EventKeeps, KeptPlaced DEF PlaceInv
<1>2. CASE Publication
  BY <1>2, PublicationIsDelivery, DeliverPlaced
<1>3. ASSUME NEW l \in Lanes, DrainStep(l)
      PROVE  PlaceInv'
  BY <1>3, DrainStepPlaced
<1>4. ASSUME NEW l \in Lanes, FileEvent(l)
      PROVE  PlaceInv'
  <2>1. FileOperation(l) /\ UNCHANGED <<queue, drain, held, policy, nextSequence>>
    BY <1>4, FileEventIsOperation DEF laneVars, registryVars, drainVars
  <2>2. QED
    BY <2>1, FileOperationPlaced
<1>5. CASE UNCHANGED vars
  <2>1. UNCHANGED <<policy, nextSequence>> /\ \A k \in Lanes : LaneKept(k)
    BY <1>5 DEF vars, laneVars, spillVars, registryVars, drainVars, LaneKept
  <2>2. QED
    BY <2>1, LaneKeptIsKept, KeptPlaced DEF PlaceInv
<1>6. QED
  BY <1>1, <1>2, <1>3, <1>4, <1>5 DEF Next

\* The inductive invariant behind OnePlace.
THEOREM PlaceInvariant == Spec => []PlaceInv
<1>1. TypeInv /\ BudgetInv /\ PlaceInv /\ [Next]_vars => PlaceInv'
  BY NextPlaced
<1>2. QED
  BY <1>1, InitPlaced, TypeInvariant, BudgetInvariant, PTL DEF Spec

\* No message of a lane is ever in two places, or twice in one: not when a
\* recovery overlaps publications, writes and clear() calls, and not when its
\* result meets a queue that has filled up meanwhile.
THEOREM EachInOnePlace == Spec => []OnePlace
<1>1. TypeInv /\ PlaceInv => OnePlace
  <2> SUFFICES ASSUME TypeInv, PlaceInv, NEW l \in Lanes
               PROVE  /\ IsInjective(queue[l] \o recovered[l])
                      /\ writing[l] \cap files[l] = {}
                      /\ Range(queue[l] \o recovered[l]) \cap OnDisk(l) = {}
    BY DEF OnePlace
  <2>1. LanePlaced(l) /\ queue[l] \in Seq(Ids) /\ recovered[l] \in Seq(Ids)
    BY PlaceTypes DEF PlaceInv
  <2>2. QED
    BY <2>1, ConcatDisjoint DEF LanePlaced
<1>2. QED
  BY <1>1, TypeInvariant, PlaceInvariant, PTL

-----------------------------------------------------------------------------
(* The counter behind hasSpilled().                                        *)

\* Of a client that has not left, whose files no clear() has touched.
LaneCounted(k) ==
  session[k[1]] # "closed" =>
    /\ clearing[k] = {}
    /\ count[k] = Cardinality(writing[k]) + Cardinality(files[k])

CountInv == \A k \in Lanes : LaneCounted(k)

LEMMA DiskSets ==
  ASSUME TypeInv, NEW k \in Lanes
  PROVE  /\ IsFiniteSet(writing[k]) /\ Cardinality(writing[k]) \in Nat
         /\ IsFiniteSet(files[k]) /\ Cardinality(files[k]) \in Nat
BY IdsFinite DEF TypeInv, TypeOK, SpillTypeOK

LEMMA InitCounted == Init => CountInv
BY FS_EmptySet DEF Init, SpillInit, CountInv, LaneCounted

\* Steps that leave the disk alone, or leave.
LEMMA CountKept ==
  ASSUME CountInv, UNCHANGED <<writing, files>>, NEW k \in Lanes,
         session'[k[1]] # "closed" =>
           /\ session[k[1]] # "closed"
           /\ count'[k] = count[k] /\ clearing'[k] = clearing[k]
  PROVE  LaneCounted(k)'
BY DEF CountInv, LaneCounted

LEMMA LeaveCounted ==
  ASSUME TypeInv, CountInv, NEW S \in SUBSET Clients, Leave(S)
  PROVE  CountInv'
<1>1. /\ UNCHANGED <<writing, files>>
      /\ \A k \in Lanes : k \notin LanesOf(S) =>
           count'[k] = count[k] /\ clearing'[k] = clearing[k]
  BY DEF Leave, StartClears, TypeInv, TypeOK
<1>2. ASSUME NEW k \in Lanes
      PROVE  LaneCounted(k)'
  <2>1. k[1] \in Clients /\ (k \in LanesOf(S) <=> k[1] \in S)
    BY LanesOfProperties
  <2>2. session'[k[1]] = IF k[1] \in S THEN "closed" ELSE session[k[1]]
    BY <2>1, LeaveSession
  <2>3. QED
    BY <1>1, <2>1, <2>2, CountKept
<1>3. QED
  BY <1>2 DEF CountInv

LEMMA DeliverCounted ==
  ASSUME TypeInv, PlaceInv, CountInv, NEW S \in SUBSET Lanes, NEW n \in Sizes,
         Deliver(S, n)
  PROVE  CountInv'
<1>1. PICK id, T : id = nextSequence /\ T = {l \in S : EnqueueStatus(l, n) = "SPILLED"}
  OBVIOUS
<1>2. /\ UNCHANGED <<session, files, clearing>>
      /\ count' = [l \in Lanes |-> IF l \in T THEN count[l] + 1 ELSE count[l]]
      /\ writing' = [l \in Lanes |-> IF l \in T THEN writing[l] \cup {id}
                                                ELSE writing[l]]
  BY <1>1 DEF Deliver, SpillAll, registryVars
<1>3. ASSUME NEW k \in Lanes
      PROVE  LaneCounted(k)'
  <2>1. id \notin writing[k]
    BY <1>1, PlaceTypes DEF PlaceInv, LanePlaced, OnDisk
  <2>2. Cardinality(writing[k] \cup {id}) = Cardinality(writing[k]) + 1
    BY <2>1, DiskSets, FS_AddElement
  <2>3. QED
    BY <1>2, <2>2, DiskSets DEF CountInv, LaneCounted
<1>4. QED
  BY <1>3 DEF CountInv

\* A file operation of a client that has not left moves one entry, and the
\* counter with it.
LEMMA FileOperationCounted ==
  ASSUME TypeInv, PlaceInv, CountInv, NEW l \in Lanes, FileOperation(l),
         UNCHANGED session
  PROVE  CountInv'
<1>1. /\ writing \in [Lanes -> SUBSET Ids] /\ files \in [Lanes -> SUBSET Ids]
      /\ count \in [Lanes -> Int] /\ clearing \in [Lanes -> SUBSET Clears]
      /\ LanePlaced(l) /\ LaneCounted(l)
  BY DEF TypeInv, TypeOK, SpillTypeOK, PlaceInv, CountInv
<1>2. \A k \in Lanes : k # l => /\ count'[k] = count[k]
                                /\ writing'[k] = writing[k] /\ files'[k] = files[k]
                                /\ clearing'[k] = clearing[k]
  BY <1>1 DEF FileOperation, WriteDone, WriteFails, FailWrites, ListFiles, ReadFile,
     SkipFile, LeaveFile, ClearAfterWrites, ClearNow
<1>3. /\ IsFiniteSet(writing[l]) /\ Cardinality(writing[l]) \in Nat
      /\ IsFiniteSet(files[l]) /\ Cardinality(files[l]) \in Nat
  BY DiskSets
<1>4. ASSUME NEW id \in Ids, WriteDone(l, id)
      PROVE  LaneCounted(l)'
  <2>1. /\ writing'[l] = writing[l] \ {id} /\ files'[l] = files[l] \cup {id}
        /\ id \in writing[l] /\ id \notin files[l]
        /\ count'[l] = count[l] /\ clearing'[l] = clearing[l]
    BY <1>1, <1>4 DEF WriteDone, LanePlaced
  <2>2. /\ Cardinality(writing[l] \ {id}) = Cardinality(writing[l]) - 1
        /\ Cardinality(files[l] \cup {id}) = Cardinality(files[l]) + 1
    BY <1>3, <2>1, FS_AddElement, FS_RemoveElement
  <2>3. QED
    BY <1>1, <1>3, <2>1, <2>2 DEF LaneCounted
<1>5. ASSUME NEW id \in Ids, WriteFails(l, id)
      PROVE  LaneCounted(l)'
  <2>1. /\ writing'[l] = writing[l] \ {id} /\ files'[l] = files[l]
        /\ id \in writing[l] /\ clearing'[l] = clearing[l]
        /\ count'[l] = IF count[l] - Cardinality({id}) < 0 THEN 0
                       ELSE count[l] - Cardinality({id})
    BY <1>1, <1>5 DEF WriteFails, FailWrites
  <2>2. /\ Cardinality(writing[l] \ {id}) = Cardinality(writing[l]) - 1
        /\ Cardinality(writing[l] \ {id}) \in Nat
        /\ Cardinality({id}) = 1
    BY <1>3, <2>1, FS_RemoveElement, FS_CardinalityType, FS_Singleton
  <2>3. QED
    BY <1>1, <1>3, <2>1, <2>2 DEF LaneCounted
<1>6. ASSUME ListFiles(l) \/ SkipFile(l)
      PROVE  LaneCounted(l)'
  BY <1>1, <1>6 DEF ListFiles, SkipFile, LaneCounted
<1>7. ASSUME ReadFile(l)
      PROVE  LaneCounted(l)'
  <2>1. PICK id : id = NextFile(l)
    OBVIOUS
  <2>2. /\ id \in files[l] /\ files'[l] = files[l] \ {id}
        /\ writing'[l] = writing[l] /\ clearing'[l] = clearing[l]
        /\ count'[l] = count[l] - 1
    BY <1>1, <1>7, <2>1 DEF ReadFile
  <2>3. Cardinality(files[l] \ {id}) = Cardinality(files[l]) - 1
    BY <1>3, <2>2, FS_RemoveElement
  <2>4. QED
    BY <1>1, <1>3, <2>2, <2>3 DEF LaneCounted
<1>8. ASSUME ClearAfterWrites(l) \/ ClearNow(l)
      PROVE  LaneCounted(l)'
  BY <1>1, <1>8 DEF ClearAfterWrites, ClearNow, LaneCounted
<1>9. LaneCounted(l)'
  BY <1>4, <1>5, <1>6, <1>7, <1>8 DEF FileOperation
<1>10. QED
  BY <1>2, <1>9 DEF CountInv, LaneCounted

\* What starts and ends a recovery leaves the counter alone.
LEMMA DrainStepCounted ==
  ASSUME TypeInv, CountInv, NEW l \in Lanes, DrainStep(l)
  PROVE  CountInv'
<1>1. UNCHANGED <<session, count, writing, files, clearing>>
  BY DEF DrainStep, DrainStart, SendHeld, SendHeldFails, Refill, DrainEnd, LoopHead,
     StartRecover, EndRecover, registryVars, spillVars
<1>2. QED
  BY <1>1 DEF CountInv, LaneCounted

\* Socket events but a departure, and the retry timer, do not touch the disk.
LEMMA EventCounted ==
  ASSUME TypeInv, CountInv, SocketEvent \/ Retrying,
         ~\E c \in Clients : Disconnect(c), ~Stop
  PROVE  CountInv'
<1>1. ASSUME NEW c \in Clients, Connect(c)
      PROVE  UNCHANGED spillVars /\ \A k \in Lanes : session'[k[1]] # "closed" =>
                                                       session[k[1]] # "closed"
  BY <1>1 DEF Connect, TypeInv, TypeOK, Lanes
<1>2. ASSUME NEW c \in Clients, NEW t \in Topics, Subscribe(c, t) \/ Unsubscribe(c, t)
      PROVE  UNCHANGED <<spillVars, session>>
  BY <1>2 DEF Subscribe, Unsubscribe
<1>3. ASSUME NEW l \in Lanes, NEW id \in Ids, Ack(l, id)
      PROVE  UNCHANGED <<spillVars, session>>
  BY <1>3 DEF Ack, registryVars
<1>4. ASSUME Retrying
      PROVE  UNCHANGED <<spillVars, session>>
  BY <1>4 DEF Retrying, RetryTick, HandleDecision, registryVars
<1>5. UNCHANGED spillVars
  BY <1>1, <1>2, <1>3, <1>4 DEF SocketEvent
<1>6. ASSUME NEW k \in Lanes, session'[k[1]] # "closed"
      PROVE  session[k[1]] # "closed"
  BY <1>1, <1>2, <1>3, <1>4, <1>6 DEF SocketEvent
<1>7. QED
  BY <1>5, <1>6, CountKept DEF CountInv, spillVars

LEMMA NextCounted ==
  ASSUME TypeInv, PlaceInv, CountInv, [Next]_vars
  PROVE  CountInv'
<1>1. CASE (\E c \in Clients : Disconnect(c)) \/ Stop
  BY <1>1, DepartureLeaves, LeaveCounted
<1>2. CASE SocketEvent \/ Retrying
  BY <1>1, <1>2, EventCounted
<1>3. CASE Publication
  BY <1>3, PublicationIsDelivery, DeliverCounted
<1>4. ASSUME NEW l \in Lanes, DrainStep(l)
      PROVE  CountInv'
  BY <1>4, DrainStepCounted
<1>5. ASSUME NEW l \in Lanes, FileEvent(l)
      PROVE  CountInv'
  BY <1>5, FileEventIsOperation, FileOperationCounted DEF registryVars
<1>6. CASE UNCHANGED vars
  BY <1>6 DEF vars, spillVars, registryVars, CountInv, LaneCounted
<1>7. QED
  BY <1>1, <1>2, <1>3, <1>4, <1>5, <1>6 DEF Next

\* The inductive invariant behind SpillCountExact: it needs PlaceInv, for an
\* entry spilled or written twice would be counted twice.
THEOREM CountInvariant == Spec => []CountInv
<1>1. TypeInv /\ PlaceInv /\ CountInv /\ [Next]_vars => CountInv'
  BY NextCounted
<1>2. QED
  BY <1>1, InitCounted, TypeInvariant, PlaceInvariant, PTL DEF Spec

\* hasSpilled() never misleads a drain: the counter of a connected client's
\* lane is the number of its entries on disk or on their way there, through
\* failed writes, skipped files and recoveries that overlap publications.
THEOREM SpilledIsCounted == Spec => []SpillCountExact
<1>1. CountInv => SpillCountExact
  BY DEF CountInv, LaneCounted, SpillCountExact, Open
<1>2. QED
  BY <1>1, CountInvariant, PTL

-----------------------------------------------------------------------------
(* What a client leaves behind.                                            *)

\* Only the first clear() of a disconnect is sure to see every file, as it
\* waits for the writes; the second may come before it or after it.
LaneCleared(k) ==
  /\ ~Spilling => OnDisk(k) = {}
  /\ session[k[1]] = "closed" /\ "awaited" \notin clearing[k] => OnDisk(k) = {}

ClearInv == \A k \in Lanes : LaneCleared(k)

LEMMA InitCleared == Init => ClearInv
BY DEF Init, SpillInit, ClearInv, LaneCleared, OnDisk

\* Steps that bring nothing to disk, or only to lanes of connected clients in
\* a spilling namespace.
LEMMA ClearKept ==
  ASSUME ClearInv, UNCHANGED policy, NEW k \in Lanes,
         OnDisk(k)' \subseteq OnDisk(k) \/ (Spilling /\ session'[k[1]] # "closed"),
         \/ session'[k[1]] # "closed"
         \/ session[k[1]] = "closed" /\ clearing[k] \subseteq clearing'[k]
         \/ OnDisk(k)' = {}
  PROVE  LaneCleared(k)'
BY DEF ClearInv, LaneCleared, Spilling, Overflow

LEMMA LeaveCleared ==
  ASSUME TypeInv, ClearInv, NEW S \in SUBSET Clients, Leave(S)
  PROVE  ClearInv'
<1>1. /\ UNCHANGED <<writing, files, policy>>
      /\ clearing' = [l \in Lanes |->
           IF l \in (IF Spilling THEN LanesOf(S) ELSE {}) THEN Clears ELSE clearing[l]]
  BY DEF Leave, StartClears, TypeInv, TypeOK
<1>2. ASSUME NEW k \in Lanes
      PROVE  LaneCleared(k)'
  <2>1. k[1] \in Clients /\ (k \in LanesOf(S) <=> k[1] \in S)
    BY LanesOfProperties
  <2>2. session'[k[1]] = IF k[1] \in S THEN "closed" ELSE session[k[1]]
    BY <2>1, LeaveSession
  <2>3. CASE k[1] \in S /\ Spilling
    <3>1. clearing'[k] = Clears
      BY <1>1, <2>1, <2>3
    <3>2. QED
      BY <1>1, <2>3, <3>1 DEF LaneCleared, Clears, Spilling, Overflow
  <2>4. CASE k[1] \in S /\ ~Spilling
    BY <1>1, <2>4 DEF ClearInv, LaneCleared, Spilling, Overflow, OnDisk
  <2>5. CASE k[1] \notin S
    BY <1>1, <2>1, <2>2, <2>5
       DEF ClearInv, LaneCleared, Spilling, Overflow, OnDisk
  <2>6. QED
    BY <2>3, <2>4, <2>5
<1>3. QED
  BY <1>2 DEF ClearInv

\* A publication writes to lanes of connected clients.
LEMMA DeliverCleared ==
  ASSUME ClearInv, NEW S \in SUBSET Lanes, NEW n \in Sizes, Deliver(S, n),
         \A l \in S : Open(l)
  PROVE  ClearInv'
<1>1. PICK id, T : id = nextSequence /\ T = {l \in S : EnqueueStatus(l, n) = "SPILLED"}
  OBVIOUS
<1>2. /\ UNCHANGED <<session, files, clearing, policy>>
      /\ writing' = [l \in Lanes |-> IF l \in T THEN writing[l] \cup {id}
                                                ELSE writing[l]]
  BY <1>1 DEF Deliver, SpillAll, registryVars
<1>3. \A l \in T : Spilling /\ Open(l)
  BY <1>1 DEF EnqueueStatus
<1>4. ASSUME NEW k \in Lanes
      PROVE  LaneCleared(k)'
  <2>1. CASE k \in T
    BY <1>2, <1>3, <2>1, ClearKept DEF Open
  <2>2. CASE k \notin T
    <3>1. OnDisk(k)' = OnDisk(k)
      BY <1>2, <2>2 DEF OnDisk
    <3>2. QED
      BY <1>2, <3>1, ClearKept
  <2>3. QED
    BY <2>1, <2>2
<1>5. QED
  BY <1>4 DEF ClearInv

\* The file operations of a lane only empty its directory, and the first
\* clear() is over when it is empty.
LEMMA FileOperationClears ==
  ASSUME TypeInv, NEW l \in Lanes, FileOperation(l), NEW k \in Lanes
  PROVE  /\ OnDisk(k)' \subseteq OnDisk(k)
         /\ "awaited" \in clearing[k] => "awaited" \in clearing'[k] \/ OnDisk(k)' = {}
<1>1. /\ writing \in [Lanes -> SUBSET Ids] /\ files \in [Lanes -> SUBSET Ids]
      /\ clearing \in [Lanes -> SUBSET Clears]
  BY DEF TypeInv, TypeOK, SpillTypeOK
<1>2. ASSUME NEW id \in Ids, WriteDone(l, id) \/ WriteFails(l, id)
      PROVE  OnDisk(k)' \subseteq OnDisk(k) /\ UNCHANGED clearing
  BY <1>1, <1>2 DEF WriteDone, WriteFails, FailWrites, OnDisk
<1>3. ASSUME ListFiles(l) \/ ReadFile(l) \/ SkipFile(l)
      PROVE  OnDisk(k)' \subseteq OnDisk(k) /\ UNCHANGED clearing
  BY <1>1, <1>3 DEF ListFiles, ReadFile, SkipFile, OnDisk
<1>4. ASSUME ClearAfterWrites(l)
      PROVE  /\ OnDisk(k)' \subseteq OnDisk(k)
             /\ clearing'[k] = clearing[k] \/ OnDisk(k)' = {}
  BY <1>1, <1>4 DEF ClearAfterWrites, OnDisk
<1>5. ASSUME ClearNow(l)
      PROVE  /\ OnDisk(k)' \subseteq OnDisk(k)
             /\ "awaited" \in clearing[k] => "awaited" \in clearing'[k]
  BY <1>1, <1>5 DEF ClearNow, FailWrites, OnDisk
<1>6. QED
  BY <1>2, <1>3, <1>4, <1>5 DEF FileOperation

LEMMA NextCleared ==
  ASSUME TypeInv, PlaceInv, ClearInv, [Next]_vars
  PROVE  ClearInv'
<1>1. ASSUME UNCHANGED <<writing, files, clearing, policy>>,
             \A k \in Lanes : session'[k[1]] = "closed" => session[k[1]] = "closed"
      PROVE  ClearInv'
  BY <1>1, ClearKept DEF OnDisk, ClearInv
<1>2. ASSUME NEW c \in Clients, Connect(c)
      PROVE  ClearInv'
  BY <1>1, <1>2 DEF Connect, spillVars, TypeInv, TypeOK, Lanes
<1>3. ASSUME (\E c \in Clients : Disconnect(c)) \/ Stop
      PROVE  ClearInv'
  BY <1>3, DepartureLeaves, LeaveCleared
<1>4. CASE /\ SocketEvent /\ ~Stop
           /\ ~\E c \in Clients : Connect(c) \/ Disconnect(c)
  BY <1>1, <1>4 DEF SocketEvent, Subscribe, Unsubscribe, Ack, registryVars, spillVars
<1>5. CASE Publication
  BY <1>5, PublicationIsDelivery, DeliverCleared
<1>6. CASE Retrying
  BY <1>1, <1>6 DEF Retrying, RetryTick, HandleDecision, registryVars, spillVars
<1>7. ASSUME NEW l \in Lanes, DrainStep(l)
      PROVE  ClearInv'
  BY <1>1, <1>7 DEF DrainStep, DrainStart, SendHeld, SendHeldFails, Refill, DrainEnd,
     LoopHead, StartRecover, EndRecover, registryVars, spillVars
<1>8. ASSUME NEW l \in Lanes, FileEvent(l)
      PROVE  ClearInv'
  <2>1. FileOperation(l) /\ UNCHANGED <<policy, session>>
    BY <1>8, FileEventIsOperation DEF registryVars
  <2>2. QED
    BY <2>1, FileOperationClears
       DEF ClearInv, LaneCleared, Spilling, Overflow
<1>9. CASE UNCHANGED vars
  BY <1>1, <1>9 DEF vars, registryVars, spillVars
<1>10. QED
  BY <1>2, <1>3, <1>4, <1>5, <1>6, <1>7, <1>8, <1>9 DEF Next, SocketEvent

\* The inductive invariant behind SpillCleared.
THEOREM ClearInvariant == Spec => []ClearInv
<1>1. TypeInv /\ PlaceInv /\ ClearInv /\ [Next]_vars => ClearInv'
  BY NextCleared
<1>2. QED
  BY <1>1, InitCleared, TypeInvariant, PlaceInvariant, PTL DEF Spec

\* Once both clear() calls of a disconnect have ended, nothing of the client is
\* on disk or on its way there, whatever writes and recoveries were under way
\* when it left and in whatever order the two calls end.
THEOREM NothingLeftOnDisk == Spec => []SpillCleared
<1>1. ClearInv => SpillCleared
  BY DEF ClearInv, LaneCleared, SpillCleared
<1>2. QED
  BY <1>1, ClearInvariant, PTL

-----------------------------------------------------------------------------
(* How long a queue gets.                                                  *)

\* A recovery starts with a queue that fits the in-flight budget or is empty,
\* and brings no more than one batch; meanwhile publications fill the queue no
\* further than its limit.
LaneBounded(k) ==
  /\ Len(queue[k]) <= IF Spilling THEN 2 * MaxQueued ELSE MaxQueued
  /\ recovery[k] # "none" => Len(queue[k]) <= MaxQueued
  /\ Len(recovered[k]) + Cardinality(batch[k]) <= MaxQueued
  /\ recovery[k] \in {"none", "listing"} => recovered[k] = <<>>
  /\ recovery[k] = "reading" => batch[k] # {}
  /\ recovered[k] # <<>> => Spilling

BoundInv == \A k \in Lanes : LaneBounded(k)

LEMMA BoundTypes ==
  ASSUME TypeInv, NEW k \in Lanes
  PROVE  /\ MaxQueued \in Nat \ {0} /\ MaxInFlight \in Nat \ {0}
         /\ queue[k] \in Seq(Ids) /\ Len(queue[k]) \in Nat
         /\ recovered[k] \in Seq(Ids) /\ Len(recovered[k]) \in Nat
         /\ batch[k] \in SUBSET Ids /\ IsFiniteSet(batch[k])
         /\ Cardinality(batch[k]) \in Nat
BY PolicyNumbers, LenProperties, IdsFinite
   DEF TypeInv, TypeOK, LaneTypeOK, SpillTypeOK

\* A queue without repetition is as long as its set of messages is large.
LEMMA LenIsCardinality ==
  ASSUME NEW q \in Seq(Ids), IsInjective(q)
  PROVE  Len(q) = Cardinality(Range(q))
<1>1. Len(q) \in Nat /\ q \in [1..Len(q) -> Ids] /\ DOMAIN q = 1..Len(q)
  BY LenProperties
<1>2. q \in Bijection(1..Len(q), Range(q))
  BY <1>1 DEF Bijection, Injection, Surjection, IsInjective, Range
<1>3. IsFiniteSet(1..Len(q)) /\ Cardinality(1..Len(q)) = Len(q)
  BY <1>1, FS_Interval
<1>4. ExistsBijection(1..Len(q), Range(q))
  BY <1>2 DEF ExistsBijection
<1>5. QED
  BY <1>3, <1>4, FS_Bijection

LEMMA ShorterQueue ==
  ASSUME NEW q \in Seq(Ids), NEW r \in Seq(Ids), IsInjective(q), IsInjective(r),
         Range(r) \subseteq Range(q)
  PROVE  Len(r) <= Len(q)
<1>1. Range(q) \subseteq Ids
  BY RangeOfQueue
<1>2. IsFiniteSet(Range(q))
  BY <1>1, IdsFinite
<1>3. Cardinality(Range(r)) <= Cardinality(Range(q))
  BY <1>2, FS_Subset
<1>4. QED
  BY <1>3, LenIsCardinality

\* dropOldestUntilFits leaves room for one more, or nothing.
LEMMA AfterDropFits ==
  ASSUME NEW l, NEW n, queue[l] \in Seq(Ids)
  PROVE  Len(AfterDrop(l, n)) < MaxQueued \/ Len(AfterDrop(l, n)) = 0
<1> DEFINE len == Len(queue[l])
           drops == {j \in 0..len : \/ j = len
                                    \/ Fits(SubSeq(queue[l], j + 1, len),
                                            BytesWithoutOldest(l, j), n)}
<1>1. len \in Nat /\ \A j \in 1..len : queue[l][j] \in Ids
  BY LenProperties, ElementOfSeq
<1>2. len \in drops /\ drops \subseteq Nat
  BY <1>1
<1>3. PICK k : k = DropCount(l, n)
  OBVIOUS
<1>4. k = Min(drops)
  BY <1>3 DEF DropCount
<1>5. k \in drops
  <2> HIDE DEF drops
  <2>1. QED
    BY <1>2, <1>4, MinIn
<1>6. AfterDrop(l, n) = SubSeq(queue[l], k + 1, len)
  BY <1>3 DEF AfterDrop
<1>7. CASE k = len
  <2>1. /\ k + 1 \in Int /\ len \in Int /\ ~(k + 1 <= len)
        /\ \A i \in (k + 1)..len : queue[l][i] \in Ids
    BY <1>1, <1>7
  <2>2. Len(SubSeq(queue[l], k + 1, len)) = 0
    BY <2>1, SubSeqProperties
  <2>3. QED
    BY <1>6, <2>2
<1>8. CASE k # len
  BY <1>5, <1>6, <1>8 DEF Fits
<1>9. QED
  BY <1>7, <1>8

\* An enqueue makes a queue longer only where it has room.
LEMMA EnqueueBounded ==
  ASSUME NEW l, NEW n, NEW id \in Ids, queue[l] \in Seq(Ids), MaxQueued \in Nat \ {0}
  PROVE  \/ Len(QueueAfter(l, id, n)) <= MaxQueued
         \/ Len(QueueAfter(l, id, n)) <= Len(queue[l])
<1>1. PICK status : status = EnqueueStatus(l, n)
  OBVIOUS
<1>2. Len(queue[l]) \in Nat /\ DOMAIN queue[l] = 1..Len(queue[l])
  BY LenProperties
<1>3. CASE status = "ACCEPTED"
  <2>1. QueueAfter(l, id, n) = Append(queue[l], id) /\ Len(queue[l]) < MaxQueued
    BY <1>1, <1>3 DEF QueueAfter, EnqueueStatus, Fits
  <2>2. Len(Append(queue[l], id)) = Len(queue[l]) + 1
    BY AppendProperties
  <2>3. QED
    BY <1>2, <2>1, <2>2
<1>4. CASE status = "REPLACED_SNAPSHOT"
  <2>1. QueueAfter(l, id, n) = <<id>> /\ Len(<<id>>) = 1
    BY <1>1, <1>4 DEF QueueAfter
  <2>2. QED
    BY <2>1
<1>5. CASE status = "COALESCED"
  <2>1. PICK q, i : q = [queue[l] EXCEPT ![i] = id] /\ QueueAfter(l, id, n) = q
    BY <1>1, <1>5 DEF QueueAfter
  <2>2. q \in Seq(Ids) /\ DOMAIN q = 1..Len(queue[l])
    <3>1. QueueAfter(l, id, n) \in Seq(Ids)
      BY QueueAfterType
    <3>2. DOMAIN q = DOMAIN queue[l]
      BY <2>1
    <3>3. QED
      BY <1>2, <2>1, <3>1, <3>2
  <2>3. Len(q) = Len(queue[l])
    BY <1>2, <2>2, LenProperties
  <2>4. QED
    BY <1>2, <2>1, <2>3
<1>6. CASE status = "DROPPED_OLDEST_AND_ACCEPTED"
  <2>1. QueueAfter(l, id, n) = Append(AfterDrop(l, n), id)
    BY <1>1, <1>6 DEF QueueAfter
  <2>2. /\ AfterDrop(l, n) \in Seq(Ids) /\ Len(AfterDrop(l, n)) \in Nat
        /\ Len(Append(AfterDrop(l, n), id)) = Len(AfterDrop(l, n)) + 1
    BY AfterDropType, LenProperties, AppendProperties
  <2>3. QED
    BY <2>1, <2>2, AfterDropFits
<1>7. CASE status \notin {"ACCEPTED", "REPLACED_SNAPSHOT", "COALESCED",
                          "DROPPED_OLDEST_AND_ACCEPTED"}
  <2>1. QueueAfter(l, id, n) = queue[l]
    BY <1>1, <1>7 DEF QueueAfter
  <2>2. QED
    BY <1>2, <2>1
<1>8. QED
  BY <1>3, <1>4, <1>5, <1>6, <1>7

\* A listing is cut to one queue's length: the rank of a file among the files
\* numbers the listed ones from 0 to MaxQueued - 1.
LEMMA ListedBounded ==
  ASSUME TypeInv, NEW l \in Lanes
  PROVE  Listed(l) \in SUBSET Ids /\ Cardinality(Listed(l)) <= MaxQueued
<1>1. files[l] \in SUBSET Ids /\ MaxQueued \in Nat \ {0} /\ Ids \subseteq Nat
  BY BoundTypes, PlaceTypes DEF TypeInv, TypeOK, SpillTypeOK
<1> DEFINE below(id) == {other \in files[l] : other < id}
           rank == [id \in Listed(l) |-> Cardinality(below(id))]
<1>2. \A id \in Listed(l) : id \in files[l] /\ id \in Nat /\ rank[id] < MaxQueued
  BY <1>1 DEF Listed
<1>3. \A id \in Listed(l) : rank[id] \in 0..(MaxQueued - 1)
  <2>1. \A id \in Listed(l) : rank[id] \in Nat
    BY <1>1, IdsFinite
  <2>2. QED
    BY <1>1, <1>2, <2>1
<1>4. ASSUME NEW a \in Listed(l), NEW b \in Listed(l), a < b
      PROVE  rank[a] # rank[b]
  <2>1. a \in files[l] /\ a \in Nat /\ b \in Nat /\ files[l] \subseteq Nat
    BY <1>1, <1>2
  <2>2. below(a) \subseteq below(b) /\ a \in below(b) /\ a \notin below(a)
    BY <1>4, <2>1
  <2>3. IsFiniteSet(below(b))
    BY <1>1, IdsFinite
  <2>4. Cardinality(below(a)) # Cardinality(below(b))
    BY <2>2, <2>3, FS_Subset
  <2>5. QED
    BY <2>4
<1>5. \A a, b \in Listed(l) : a # b => rank[a] # rank[b]
  BY <1>2, <1>4
<1>6. rank \in Injection(Listed(l), 0..(MaxQueued - 1))
  <2> HIDE DEF below
  <2>1. rank \in [Listed(l) -> 0..(MaxQueued - 1)]
    BY <1>3
  <2>2. QED
    BY <1>5, <2>1 DEF Injection, IsInjective
<1>7. /\ IsFiniteSet(0..(MaxQueued - 1))
      /\ Cardinality(0..(MaxQueued - 1)) = MaxQueued
  BY <1>1, FS_Interval
<1>8. Cardinality(Listed(l)) <= Cardinality(0..(MaxQueued - 1))
  BY <1>6, <1>7, FS_Injection
<1>9. QED
  BY <1>1, <1>7, <1>8 DEF Listed

LEMMA InitBounded == Init => BoundInv
<1>1. ASSUME Init, NEW k \in Lanes
      PROVE  LaneBounded(k)
  <2>1. /\ queue[k] = <<>> /\ recovered[k] = <<>> /\ batch[k] = {}
        /\ recovery[k] = "none" /\ policy \in Policies
    BY <1>1 DEF Init, LaneInit, SpillInit
  <2>2. MaxQueued \in Nat \ {0} /\ Len(<<>>) = 0
    BY <2>1, PolicyNumbers
  <2>3. Cardinality({}) = 0
    BY FS_EmptySet
  <2>4. QED
    BY <2>1, <2>2, <2>3 DEF LaneBounded
<1>2. QED
  BY <1>1 DEF BoundInv

\* Nothing but a refill makes a queue longer than its limit.
LEMMA BoundKept ==
  ASSUME TypeInv, TypeInv', NEW k \in Lanes, LaneBounded(k),
         Len(queue'[k]) <= MaxQueued \/ Len(queue'[k]) <= Len(queue[k]),
         recovered'[k] = recovered[k], batch'[k] = batch[k],
         recovery'[k] = recovery[k], UNCHANGED policy
  PROVE  LaneBounded(k)'
<1>1. MaxQueued' = MaxQueued /\ Spilling' = Spilling
  BY DEF MaxQueued, Spilling, Overflow
<1>2. /\ MaxQueued \in Nat \ {0} /\ Len(queue[k]) \in Nat /\ Len(queue'[k]) \in Nat
  BY BoundTypes
<1>3. QED
  BY <1>1, <1>2 DEF LaneBounded

LEMMA EventBounded ==
  ASSUME TypeInv, TypeInv', PlaceInv, BoundInv, SocketEvent \/ Retrying
  PROVE  BoundInv'
<1>1. ASSUME NEW k \in Lanes
      PROVE  LaneBounded(k)'
  <2>1. Kept(k) /\ UNCHANGED policy
    BY EventKeeps
  <2>2. UNCHANGED <<recovered, batch, recovery>>
    BY DEF SocketEvent, Connect, Disconnect, Stop, Leave, StartClears, Subscribe,
           Unsubscribe, Ack, Retrying, RetryTick, HandleDecision, spillVars
  <2>3. Len(queue'[k]) <= Len(queue[k])
    <3>1. queue[k] \in Seq(Ids) /\ queue'[k] \in Seq(Ids)
      BY DEF TypeInv, TypeOK, LaneTypeOK
    <3>2. /\ IsInjective(queue[k]) /\ IsInjective(queue'[k])
          /\ Range(queue'[k]) \subseteq Range(queue[k])
      BY <2>1 DEF Kept, PlaceInv, LanePlaced
    <3>3. QED
      BY <3>1, <3>2, ShorterQueue
  <2>4. QED
    BY <2>1, <2>2, <2>3, BoundKept DEF BoundInv
<1>2. QED
  BY <1>1 DEF BoundInv

LEMMA DeliverBounded ==
  ASSUME TypeInv, TypeInv', BoundInv, NEW S \in SUBSET Lanes, NEW n \in Sizes,
         Deliver(S, n)
  PROVE  BoundInv'
<1>1. PICK id : id = nextSequence
  OBVIOUS
<1>2. /\ id \in Ids /\ UNCHANGED <<recovered, batch, recovery, policy>>
      /\ queue' = [l \in Lanes |-> IF l \in S THEN QueueAfter(l, id, n) ELSE queue[l]]
  BY <1>1 DEF Deliver, EnqueueAll, SpillAll, registryVars
<1>3. ASSUME NEW k \in Lanes
      PROVE  LaneBounded(k)'
  <2>1. queue[k] \in Seq(Ids) /\ MaxQueued \in Nat \ {0} /\ Len(queue[k]) \in Nat
    BY BoundTypes
  <2>2. Len(queue'[k]) <= MaxQueued \/ Len(queue'[k]) <= Len(queue[k])
    BY <1>2, <2>1, EnqueueBounded
  <2>3. QED
    BY <1>2, <2>2, BoundKept DEF BoundInv
<1>4. QED
  BY <1>3 DEF BoundInv

\* A drain asks the disk only with nothing left to send in memory: the queue
\* is empty, or holds in-flight entries only and has budget for another one.
LEMMA RecoversNearlyEmpty ==
  ASSUME TypeInv, NEW q \in Seq(Ids), IsInjective(q), NEW flagged \in SUBSET Ids,
         Entries(q, flagged) = {}, MaySend(flagged)
  PROVE  Len(q) <= MaxQueued
<1>1. Len(q) \in Nat /\ DOMAIN q = 1..Len(q)
  BY LenProperties
<1>2. MaxQueued \in Nat \ {0} /\ MaxInFlight \in Nat \ {0}
  BY PolicyNumbers DEF TypeInv, TypeOK
<1>3. CASE ~Reliable
  <2>1. DOMAIN q = {}
    BY <1>3 DEF Entries
  <2>2. Len(q) = 0
    BY <1>1, <2>1
  <2>3. QED
    BY <1>2, <2>2
<1>4. CASE Reliable
  <2>1. Range(q) \subseteq flagged
    BY <1>4 DEF Entries, Unsent, Range
  <2>2. IsFiniteSet(flagged) /\ Cardinality(flagged) \in Nat
    BY IdsFinite
  <2>3. Cardinality(Range(q)) <= Cardinality(flagged)
    BY <2>1, <2>2, FS_Subset
  <2>4. Cardinality(flagged) < MaxInFlight
    BY <1>4 DEF MaySend
  <2>5. MaxInFlight <= MaxQueued
    BY <1>4, InstanceAssumption
       DEF TypeInv, TypeOK, ValidPolicy, Reliable, MaxInFlight, MaxQueued
  <2>6. Len(q) = Cardinality(Range(q))
    BY LenIsCardinality
  <2>7. QED
    BY <1>1, <1>2, <2>2, <2>3, <2>4, <2>5, <2>6
<1>5. QED
  BY <1>3, <1>4

\* The queue a drain leaves is not longer than the one it looked at.
LEMMA TakeNextShorter ==
  ASSUME TypeInv, TypeInv', NEW l \in Lanes, NEW q, Sound(l, q), NEW bytes,
         NEW flagged, TakeNext(l, q, bytes, flagged)
  PROVE  Len(queue'[l]) <= Len(q) /\ \A k \in Lanes : k # l => queue'[k] = queue[k]
<1>1. /\ Range(queue'[l]) \subseteq Range(q) /\ IsInjective(queue'[l])
      /\ \A k \in Lanes : k # l => queue'[k] = queue[k]
  BY TakeNextPlaced
<1>2. queue'[l] \in Seq(Ids) /\ q \in Seq(Ids) /\ IsInjective(q)
  BY DEF Sound, TypeInv, TypeOK, LaneTypeOK
<1>3. QED
  BY <1>1, <1>2, ShorterQueue

LEMMA LoopHeadBounded ==
  ASSUME TypeInv, TypeInv', BoundInv, NEW l \in Lanes, NEW q, Sound(l, q),
         Len(q) <= Len(queue[l]), NEW bytes, NEW flagged \in SUBSET Ids,
         LoopHead(l, q, bytes, flagged), recovery[l] = "none", UNCHANGED policy
  PROVE  BoundInv'
<1>1. Len(q) \in Nat /\ Len(queue[l]) \in Nat /\ Len(queue'[l]) \in Nat
  BY BoundTypes, LenProperties DEF Sound
<1>2. CASE TakeNext(l, q, bytes, flagged) /\ UNCHANGED spillVars
  <2>1. /\ UNCHANGED <<recovered, batch, recovery>>
        /\ Len(queue'[l]) <= Len(q) /\ \A k \in Lanes : k # l => queue'[k] = queue[k]
    BY <1>2, TakeNextShorter DEF spillVars
  <2>2. \A k \in Lanes : Len(queue'[k]) <= Len(queue[k])
    BY <1>1, <2>1, BoundTypes
  <2>3. QED
    BY <2>1, <2>2, BoundKept DEF BoundInv
<1>3. CASE /\ MaySend(flagged) /\ Entries(q, flagged) = {}
           /\ Stay(l, q, bytes, "recovering") /\ StartRecover(l)
  <2>1. /\ queue'[l] = q /\ recovered'[l] = <<>> /\ recovery'[l] = "listing"
        /\ batch'[l] = batch[l]
        /\ \A k \in Lanes : k # l => /\ queue'[k] = queue[k] /\ batch'[k] = batch[k]
                                     /\ recovered'[k] = recovered[k]
                                     /\ recovery'[k] = recovery[k]
    BY <1>3, StayPlaced DEF StartRecover, TypeInv, TypeOK, SpillTypeOK
  <2>2. Len(q) <= MaxQueued
    BY <1>3, RecoversNearlyEmpty DEF Sound
  <2>3. LaneBounded(l)'
    <3>1. MaxQueued' = MaxQueued /\ Len(recovered'[l]) = 0
      BY <2>1 DEF MaxQueued
    <3>2. /\ MaxQueued \in Nat /\ Len(recovered[l]) \in Nat
          /\ Cardinality(batch[l]) \in Nat
      BY BoundTypes
    <3>3. QED
      BY <1>1, <2>1, <2>2, <3>1, <3>2 DEF BoundInv, LaneBounded
  <2>4. \A k \in Lanes : k # l => LaneBounded(k)'
    BY <2>1, BoundTypes, BoundKept DEF BoundInv
  <2>5. QED
    BY <2>3, <2>4 DEF BoundInv
<1>4. CASE Stay(l, q, bytes, "ending") /\ UNCHANGED spillVars
  <2>1. /\ UNCHANGED <<recovered, batch, recovery>> /\ queue'[l] = q
        /\ \A k \in Lanes : k # l => queue'[k] = queue[k]
    BY <1>4, StayPlaced DEF spillVars
  <2>2. \A k \in Lanes : Len(queue'[k]) <= Len(queue[k])
    BY <1>1, <2>1, BoundTypes
  <2>3. QED
    BY <2>1, <2>2, BoundKept DEF BoundInv
<1>5. QED
  BY <1>2, <1>3, <1>4 DEF LoopHead

\* A refill adds at most one full batch to a queue within its limit.
LEMMA RefillBounded ==
  ASSUME TypeInv, TypeInv', PlaceInv, BoundInv, NEW l \in Lanes, Refill(l)
  PROVE  BoundInv'
<1>1. /\ LanePlaced(l) /\ LaneBounded(l) /\ recovery[l] = "done"
      /\ queue[l] \in Seq(Ids) /\ recovered[l] \in Seq(Ids) /\ UNCHANGED policy
  BY BoundTypes DEF PlaceInv, BoundInv, Refill, registryVars
<1>2. PICK q : q = queue[l] \o recovered[l]
  OBVIOUS
<1>3. Sound(l, q) /\ Len(q) = Len(queue[l]) + Len(recovered[l])
  BY <1>1, <1>2, ConcatDisjoint, ConcatProperties DEF Sound, LanePlaced
<1>4. PICK bytes : \/ TakeNext(l, q, bytes, awaiting[l])
                   \/ Stay(l, q, bytes, "ending")
  BY <1>2 DEF Refill, Refilled
<1>5. /\ recovered'[l] = <<>> /\ recovery'[l] = "none" /\ UNCHANGED batch
      /\ \A k \in Lanes : k # l => /\ recovered'[k] = recovered[k]
                                   /\ recovery'[k] = recovery[k]
  BY DEF Refill, EndRecover, TypeInv, TypeOK, SpillTypeOK
<1>6. /\ Len(queue'[l]) <= Len(q)
      /\ \A k \in Lanes : k # l => queue'[k] = queue[k]
  <2>1. CASE TakeNext(l, q, bytes, awaiting[l])
    BY <1>3, <2>1, TakeNextShorter
  <2>2. CASE Stay(l, q, bytes, "ending")
    <3>1. queue'[l] = q /\ \A k \in Lanes : k # l => queue'[k] = queue[k]
      BY <2>2, StayPlaced
    <3>2. Len(q) \in Nat
      BY <1>3, LenProperties DEF Sound
    <3>3. QED
      BY <3>1, <3>2
  <2>3. QED
    BY <1>4, <2>1, <2>2
<1>7. LaneBounded(l)'
  <2>1. /\ MaxQueued \in Nat \ {0} /\ Len(queue[l]) \in Nat
        /\ Len(recovered[l]) \in Nat /\ Cardinality(batch[l]) \in Nat
        /\ Len(queue'[l]) \in Nat
    BY BoundTypes
  <2>2. MaxQueued' = MaxQueued /\ Spilling' = Spilling
    BY <1>1 DEF MaxQueued, Spilling, Overflow
  <2>3. Len(queue[l]) <= MaxQueued /\ Len(recovered[l]) <= MaxQueued
    BY <1>1, <2>1 DEF LaneBounded
  <2>4. Spilling \/ Len(recovered[l]) = 0
    BY <1>1 DEF LaneBounded
  <2>5. Len(queue'[l]) <= IF Spilling THEN 2 * MaxQueued ELSE MaxQueued
    <3>1. PICK m \in Nat, a \in Nat, b \in Nat, c \in Nat :
            /\ m = MaxQueued /\ a = Len(queue[l]) /\ b = Len(recovered[l])
            /\ c = Len(queue'[l])
      BY <2>1
    <3>2. c <= a + b /\ a <= m /\ b <= m /\ (Spilling \/ b = 0)
      BY <1>3, <1>6, <2>3, <2>4, <3>1
    <3>3. c <= 2 * m /\ (b = 0 => c <= m)
      BY <3>2
    <3>4. QED
      BY <3>1, <3>2, <3>3
  <2>6. Len(recovered'[l]) + Cardinality(batch'[l]) <= MaxQueued
    <3>1. Len(recovered'[l]) = 0 /\ Cardinality(batch'[l]) = Cardinality(batch[l])
      BY <1>5
    <3>2. QED
      BY <1>1, <2>1, <3>1 DEF LaneBounded
  <2>7. QED
    BY <1>5, <2>2, <2>5, <2>6 DEF LaneBounded
<1>8. \A k \in Lanes : k # l => LaneBounded(k)'
  BY <1>1, <1>5, <1>6, BoundTypes, BoundKept DEF BoundInv
<1>9. QED
  BY <1>7, <1>8 DEF BoundInv

LEMMA DrainStepBounded ==
  ASSUME TypeInv, TypeInv', BudgetInv, PlaceInv, BoundInv, NEW l \in Lanes,
         DrainStep(l)
  PROVE  BoundInv'
<1>1. /\ queue[l] \in Seq(Ids) /\ IsInjective(queue[l]) /\ Sound(l, queue[l])
      /\ Len(queue[l]) \in Nat
  BY PlaceTypes, BoundTypes DEF PlaceInv, LanePlaced, Sound
<1>2. UNCHANGED policy
  BY DEF DrainStep, DrainStart, SendHeld, SendHeldFails, Refill, DrainEnd,
         registryVars
<1>3. /\ recovery[l] # "none" => drain[l] = "recovering"
      /\ awaiting[l] \in SUBSET Ids
      /\ drain[l] = "holding" => held[l] \in Ids
  BY DEF BudgetInv, RecoveryInDrain, TypeInv, TypeOK, LaneTypeOK, HeldIsMessage
<1>4. CASE DrainStart(l) \/ SendHeld(l)
  <2>1. recovery[l] = "none"
    BY <1>3, <1>4 DEF DrainStart, SendHeld
  <2>2. PICK flagged \in SUBSET Ids : LoopHead(l, queue[l], queuedBytes[l], flagged)
    <3>1. CASE DrainStart(l)
      BY <1>3, <3>1 DEF DrainStart
    <3>2. CASE SendHeld(l)
      BY <1>3, <3>2 DEF SendHeld
    <3>3. QED
      BY <1>4, <3>1, <3>2
  <2>3. QED
    BY <1>1, <1>2, <2>1, <2>2, LoopHeadBounded
<1>5. CASE SendHeldFails(l)
  <2>1. recovery[l] = "none"
    BY <1>3, <1>5 DEF SendHeldFails
  <2>2. PICK q : q = Without(queue[l], held[l])
    OBVIOUS
  <2>3. PICK bytes, flagged :
          LoopHead(l, q, bytes, flagged) /\ flagged \in SUBSET Ids
    BY <1>3, <1>5, <2>2 DEF SendHeldFails
  <2>4. q \in Seq(Ids) /\ IsInjective(q) /\ Range(q) = Range(queue[l]) \ {held[l]}
    BY <1>1, <2>2, WithoutApart
  <2>5. Sound(l, q) /\ Len(q) <= Len(queue[l])
    <3>1. Sound(l, q)
      BY <1>1, <2>4 DEF Sound
    <3>2. Range(q) \subseteq Range(queue[l])
      BY <2>4
    <3>3. QED
      BY <1>1, <2>4, <3>1, <3>2, ShorterQueue
  <2>6. QED
    BY <1>2, <2>1, <2>3, <2>5, LoopHeadBounded
<1>6. CASE Refill(l)
  BY <1>6, RefillBounded
<1>7. CASE DrainEnd(l)
  <2>1. UNCHANGED <<queue, recovered, batch, recovery>>
    BY <1>7 DEF DrainEnd, laneVars, spillVars
  <2>2. QED
    BY <1>2, <2>1, BoundTypes, BoundKept DEF BoundInv
<1>8. QED
  BY <1>4, <1>5, <1>6, <1>7 DEF DrainStep

\* A recovery moves at most one listing from the disk to its result.
LEMMA FileOperationBounded ==
  ASSUME TypeInv, TypeInv', ClearInv, BoundInv, NEW l \in Lanes, FileOperation(l),
         UNCHANGED <<queue, policy>>
  PROVE  BoundInv'
<1>1. /\ batch \in [Lanes -> SUBSET Ids] /\ recovery \in [Lanes -> Stages]
      /\ recovered \in [Lanes -> Seq(Ids)] /\ LaneBounded(l)
      /\ recovered[l] \in Seq(Ids) /\ batch[l] \in SUBSET Ids /\ Ids \subseteq Nat
      /\ files[l] \in SUBSET Ids
  BY PlaceTypes DEF TypeInv, TypeOK, SpillTypeOK, BoundInv
<1>2. \A k \in Lanes : k # l => /\ recovered'[k] = recovered[k]
                                /\ batch'[k] = batch[k]
                                /\ recovery'[k] = recovery[k]
  BY <1>1 DEF FileOperation, WriteDone, WriteFails, ListFiles, ReadFile,
     SkipFile, LeaveFile, ClearAfterWrites, ClearNow
<1>3. \A k \in Lanes : k # l => LaneBounded(k)'
  BY <1>2, BoundTypes, BoundKept DEF BoundInv
<1>4. MaxQueued' = MaxQueued /\ Spilling' = Spilling
  BY DEF MaxQueued, Spilling, Overflow
<1>5. /\ MaxQueued \in Nat \ {0} /\ Len(recovered[l]) \in Nat
      /\ IsFiniteSet(batch[l]) /\ Cardinality(batch[l]) \in Nat
  BY BoundTypes
<1>6. ASSUME ListFiles(l)
      PROVE  LaneBounded(l)'
  <2>1. /\ recovery[l] = "listing" /\ recovered'[l] = recovered[l]
        /\ batch'[l] = Listed(l)
        /\ recovery'[l] = IF Listed(l) = {} THEN "done" ELSE "reading"
    BY <1>1, <1>6 DEF ListFiles
  <2>2. recovered[l] = <<>> /\ Len(recovered[l]) = 0
    BY <1>1, <2>1 DEF LaneBounded
  <2>3. Cardinality(Listed(l)) <= MaxQueued /\ Cardinality(Listed(l)) \in Nat
    BY ListedBounded, IdsFinite
  <2>4. QED
    BY <1>1, <1>4, <1>5, <2>1, <2>2, <2>3 DEF LaneBounded
<1>7. ASSUME recovery[l] = "reading", LeaveFile(l)
      PROVE  /\ Cardinality(batch'[l]) = Cardinality(batch[l]) - 1
             /\ recovery'[l] \in {"done", "reading"}
             /\ recovery'[l] = "reading" => batch'[l] # {}
             /\ NextFile(l) \in batch[l]
  <2>1. batch[l] # {} /\ batch[l] \subseteq Nat
    BY <1>1, <1>7 DEF LaneBounded
  <2>2. NextFile(l) \in batch[l]
    BY <2>1, MinIn DEF NextFile
  <2>3. /\ batch'[l] = batch[l] \ {NextFile(l)}
        /\ recovery'[l] = IF batch[l] = {NextFile(l)} THEN "done" ELSE "reading"
    BY <1>1, <1>7 DEF LeaveFile
  <2>4. Cardinality(batch'[l]) = Cardinality(batch[l]) - 1
    BY <1>5, <2>2, <2>3, FS_RemoveElement
  <2>5. QED
    BY <2>2, <2>3, <2>4
<1>8. ASSUME SkipFile(l)
      PROVE  LaneBounded(l)'
  <2>1. recovery[l] = "reading" /\ LeaveFile(l) /\ UNCHANGED recovered
    BY <1>8 DEF SkipFile
  <2>2. QED
    BY <1>1, <1>4, <1>5, <1>7, <2>1 DEF LaneBounded
<1>9. ASSUME ReadFile(l)
      PROVE  LaneBounded(l)'
  <2>1. /\ recovery[l] = "reading" /\ LeaveFile(l) /\ NextFile(l) \in files[l]
        /\ recovered'[l] = Append(recovered[l], NextFile(l))
    BY <1>1, <1>9 DEF ReadFile
  <2>2. Len(recovered'[l]) = Len(recovered[l]) + 1
    BY <1>1, <2>1, AppendProperties
  <2>3. Spilling
    BY <2>1 DEF ClearInv, LaneCleared, OnDisk
  <2>4. QED
    BY <1>1, <1>4, <1>5, <1>7, <2>1, <2>2, <2>3 DEF LaneBounded
<1>10. ASSUME UNCHANGED <<recovered, batch, recovery>>
       PROVE  LaneBounded(l)'
  BY <1>1, <1>10, BoundTypes, BoundKept
<1>11. LaneBounded(l)'
  BY <1>6, <1>8, <1>9, <1>10 DEF FileOperation, WriteDone, WriteFails,
     ClearAfterWrites, ClearNow
<1>12. QED
  BY <1>3, <1>11 DEF BoundInv

LEMMA NextBounded ==
  ASSUME TypeInv, TypeInv', BudgetInv, PlaceInv, ClearInv, BoundInv, [Next]_vars
  PROVE  BoundInv'
<1>1. CASE SocketEvent \/ Retrying
  BY <1>1, EventBounded
<1>2. CASE Publication
  BY <1>2, PublicationIsDelivery, DeliverBounded
<1>3. ASSUME NEW l \in Lanes, DrainStep(l)
      PROVE  BoundInv'
  BY <1>3, DrainStepBounded
<1>4. ASSUME NEW l \in Lanes, FileEvent(l)
      PROVE  BoundInv'
  <2>1. FileOperation(l) /\ UNCHANGED <<queue, policy>>
    BY <1>4, FileEventIsOperation DEF laneVars, registryVars
  <2>2. QED
    BY <2>1, FileOperationBounded
<1>5. CASE UNCHANGED vars
  <2>1. UNCHANGED <<queue, recovered, batch, recovery, policy>>
    BY <1>5 DEF vars, laneVars, spillVars, registryVars
  <2>2. QED
    BY <2>1, BoundTypes, BoundKept DEF BoundInv
<1>6. QED
  BY <1>1, <1>2, <1>3, <1>4, <1>5 DEF Next

\* The inductive invariant behind QueueBound.
THEOREM BoundInvariant == Spec => []BoundInv
<1>1. TypeInv /\ TypeInv' /\ BudgetInv /\ PlaceInv /\ ClearInv
        /\ BoundInv /\ [Next]_vars => BoundInv'
  BY NextBounded
<1>2. QED
  BY <1>1, InitBounded, TypeInvariant, BudgetInvariant, PlaceInvariant,
     ClearInvariant, PTL DEF Spec

\* A queue holds no more than twice its configured limit, and no more than the
\* limit without SPILL_TO_DISK, although a refill looks neither at the room in
\* the queue nor at the publications that came while it read the files.
THEOREM QueueBounded == Spec => []QueueBound
<1>1. TypeInv /\ BoundInv => QueueBound
  BY DEF BoundInv, LaneBounded, QueueBound
<1>2. QED
  BY <1>1, TypeInvariant, BoundInvariant, PTL

-----------------------------------------------------------------------------
(* What a lane may send.                                                  *)

\* What the lane k has not sent yet, apart from its queue.
Untried(k) ==
  OnDisk(k) \cup Range(recovered[k]) \cup {id \in Ids : id >= nextSequence}

UntriedInv == \A k \in Lanes : \A id \in Untried(k) : attempts[k][id] = 0

\* The entries of the lane k that a decision not yet handled will remove.
Exhausted(k) ==
  {d.id : d \in {e \in decisions : e.lane = k /\ e.action = "EXHAUSTED"}}

\* An entry that may be sent has a transmission left, one that was sent has
\* used no more than it had.
LanePaid(k) ==
  /\ \A id \in Range(queue[k]) \ (awaiting[k] \cup Exhausted(k)) :
       attempts[k][id] <= retryCount[k][id]
  /\ \A id \in awaiting[k] : attempts[k][id] <= retryCount[k][id] + 1
  /\ drain[k] = "holding" => attempts[k][held[k]] <= retryCount[k][held[k]]

PaidInv == \A k \in Lanes : Open(k) => LanePaid(k)

-----------------------------------------------------------------------------
(* What was not tried.                                                     *)

LEMMA InitUntried == Init => UntriedInv
<1> SUFFICES ASSUME Init, NEW k \in Lanes, NEW id \in Untried(k)
             PROVE  attempts[k][id] = 0
  BY DEF UntriedInv
<1>1. id \in Ids
  BY DEF Init, SpillInit, Untried, OnDisk, Range
<1>2. QED
  BY <1>1 DEF Init

LEMMA UntriedTypes ==
  ASSUME TypeInv, NEW k \in Lanes
  PROVE  Untried(k) \subseteq Ids
BY PlaceTypes DEF Untried

\* No step makes an untried message of a number that was given away before.
LEMMA UntriedShrinks ==
  ASSUME TypeInv, PlaceInv, [Next]_vars, NEW k \in Lanes
  PROVE  Untried(k)' \subseteq Untried(k)
<1>1. ASSUME OnDisk(k)' \subseteq OnDisk(k), nextSequence' = nextSequence,
             recovered'[k] = recovered[k] \/ recovered'[k] = <<>>
      PROVE  Untried(k)' \subseteq Untried(k)
  <2>1. Range(recovered'[k]) \subseteq Range(recovered[k])
    BY <1>1 DEF Range
  <2>2. QED
    BY <1>1, <2>1 DEF Untried
<1>2. CASE SocketEvent \/ Retrying
  BY <1>1, <1>2, EventKeeps DEF Kept
<1>3. CASE Publication
  <2>1. PICK n \in Sizes, S \in SUBSET Lanes : Deliver(S, n)
    BY <1>3, PublicationIsDelivery
  <2>2. /\ nextSequence \in Ids /\ nextSequence' = nextSequence + 1
        /\ OnDisk(k)' \subseteq OnDisk(k) \cup {nextSequence}
        /\ recovered'[k] = recovered[k]
    BY <2>1 DEF Deliver, SpillAll, OnDisk
  <2>3. \A id \in Ids : id >= nextSequence' => id >= nextSequence
    BY <2>2 DEF Ids
  <2>4. nextSequence >= nextSequence
    BY <2>2 DEF Ids
  <2>5. QED
    BY <2>2, <2>3, <2>4 DEF Untried
<1>4. ASSUME NEW l \in Lanes, DrainStep(l)
      PROVE  Untried(k)' \subseteq Untried(k)
  <2>1. UNCHANGED <<writing, files, nextSequence>>
    BY <1>4 DEF DrainStep, DrainStart, SendHeld, SendHeldFails, Refill, DrainEnd,
       LoopHead, StartRecover, EndRecover, spillVars
  <2>2. recovered'[k] = recovered[k] \/ recovered'[k] = <<>>
    <3>1. \/ UNCHANGED recovered
          \/ recovered' = [recovered EXCEPT ![l] = <<>>]
      BY <1>4 DEF DrainStep, DrainStart, SendHeld, SendHeldFails, Refill, DrainEnd,
         LoopHead, StartRecover, EndRecover, spillVars
    <3>2. QED
      BY <3>1 DEF TypeInv, TypeOK, SpillTypeOK
  <2>3. QED
    BY <1>1, <2>1, <2>2 DEF OnDisk
<1>5. ASSUME NEW l \in Lanes, FileEvent(l)
      PROVE  Untried(k)' \subseteq Untried(k)
  <2>1. /\ writing \in [Lanes -> SUBSET Ids] /\ files \in [Lanes -> SUBSET Ids]
        /\ recovered \in [Lanes -> Seq(Ids)]
    BY DEF TypeInv, TypeOK, SpillTypeOK
  <2>2. FileOperation(l) /\ nextSequence' = nextSequence
    BY <1>5, FileEventIsOperation
  <2>3. CASE ReadFile(l) /\ k = l
    <3>1. PICK id : id = NextFile(l)
      OBVIOUS
    <3>2. /\ id \in files[l] /\ id \in Ids /\ files'[l] \subseteq files[l]
          /\ recovered'[l] = Append(recovered[l], id) /\ UNCHANGED writing
      BY <2>1, <2>3, <3>1 DEF ReadFile
    <3>3. id \notin Range(recovered[l]) /\ IsInjective(recovered[l])
      BY <3>2 DEF PlaceInv, LanePlaced, OnDisk
    <3>4. Range(recovered'[l]) = Range(recovered[l]) \cup {id}
      BY <2>1, <3>2, <3>3, AppendFresh
    <3>5. QED
      BY <2>2, <2>3, <3>2, <3>4 DEF Untried, OnDisk
  <2>4. CASE ~(ReadFile(l) /\ k = l)
    <3>1. recovered'[k] = recovered[k]
      BY <2>1, <2>2, <2>4 DEF FileOperation, WriteDone, WriteFails, FailWrites,
         ListFiles, ReadFile, SkipFile, ClearAfterWrites, ClearNow
    <3>2. ASSUME NEW id \in Ids, WriteDone(l, id)
          PROVE  OnDisk(k)' \subseteq OnDisk(k)
      BY <2>1, <3>2 DEF WriteDone, OnDisk
    <3>3. ASSUME NEW ids, FailWrites(l, ids), files'[k] \subseteq files[k]
          PROVE  OnDisk(k)' \subseteq OnDisk(k)
      BY <2>1, <3>3 DEF FailWrites, OnDisk
    <3>4. ASSUME NEW id \in Ids, WriteFails(l, id)
          PROVE  OnDisk(k)' \subseteq OnDisk(k)
      BY <3>3, <3>4 DEF WriteFails
    <3>5. ASSUME ClearNow(l)
          PROVE  OnDisk(k)' \subseteq OnDisk(k)
      <4>1. files'[k] \subseteq files[k]
        BY <2>1, <3>5 DEF ClearNow
      <4>2. QED
        BY <3>3, <3>5, <4>1 DEF ClearNow
    <3>6. ASSUME ListFiles(l) \/ ReadFile(l) \/ SkipFile(l) \/ ClearAfterWrites(l)
          PROVE  OnDisk(k)' \subseteq OnDisk(k)
      BY <2>1, <3>6 DEF ListFiles, ReadFile, SkipFile, ClearAfterWrites, OnDisk
    <3>7. OnDisk(k)' \subseteq OnDisk(k)
      BY <2>2, <3>2, <3>4, <3>5, <3>6 DEF FileOperation
    <3>8. QED
      BY <1>1, <2>2, <3>1, <3>7
  <2>5. QED
    BY <2>3, <2>4
<1>6. CASE UNCHANGED vars
  BY <1>1, <1>6 DEF vars, spillVars, OnDisk
<1>7. QED
  BY <1>2, <1>3, <1>4, <1>5, <1>6 DEF Next

\* Only a drain that holds an entry sends one.
LEMMA OnlyDrainsSend ==
  ASSUME [Next]_vars
  PROVE  \/ UNCHANGED attempts
         \/ \E l \in Lanes :
              /\ SendHeld(l) \/ SendHeldFails(l)
              /\ drain[l] = "holding"
              /\ attempts' = [attempts EXCEPT ![l][held[l]] = @ + 1]
<1>1. CASE SocketEvent
  BY <1>1
     DEF SocketEvent, Connect, Disconnect, Stop, Leave, Subscribe, Unsubscribe, Ack
<1>2. CASE Publication
  BY <1>2, PublicationIsDelivery DEF Deliver
<1>3. CASE Retrying
  BY <1>3 DEF Retrying, RetryTick, HandleDecision
<1>4. ASSUME NEW l \in Lanes, DrainStep(l)
      PROVE  \/ UNCHANGED attempts
             \/ /\ SendHeld(l) \/ SendHeldFails(l)
                /\ drain[l] = "holding"
                /\ attempts' = [attempts EXCEPT ![l][held[l]] = @ + 1]
  BY <1>4 DEF DrainStep, DrainStart, SendHeld, SendHeldFails, Refill, DrainEnd, Attempt
<1>5. ASSUME NEW l \in Lanes, FileEvent(l)
      PROVE  UNCHANGED attempts
  BY <1>5, FileEventIsOperation
<1>6. CASE UNCHANGED vars
  BY <1>6 DEF vars
<1>7. QED
  BY <1>1, <1>2, <1>3, <1>4, <1>5, <1>6 DEF Next

LEMMA NextUntried ==
  ASSUME TypeInv, BudgetInv, PlaceInv, UntriedInv, [Next]_vars
  PROVE  UntriedInv'
<1> SUFFICES ASSUME NEW k \in Lanes, NEW id \in Untried(k)'
             PROVE  attempts'[k][id] = 0
  BY DEF UntriedInv
<1>1. id \in Untried(k) /\ id \in Ids /\ attempts[k][id] = 0
  BY UntriedShrinks, UntriedTypes DEF UntriedInv
<1>2. CASE UNCHANGED attempts
  BY <1>1, <1>2
<1>3. ASSUME NEW l \in Lanes, drain[l] = "holding",
             attempts' = [attempts EXCEPT ![l][held[l]] = @ + 1]
      PROVE  attempts'[k][id] = 0
  <2>1. attempts \in [Lanes -> [Ids -> Nat]]
    BY DEF TypeInv, TypeOK
  <2>2. held[l] \notin Untried(l)
    <3>1. LanePlaced(l) /\ recovery[l] = "none"
      BY <1>3 DEF PlaceInv, BudgetInv, RecoveryInDrain
    <3>2. Range(recovered[l]) = {}
      BY <3>1 DEF LanePlaced, Range
    <3>3. held[l] < nextSequence /\ held[l] \notin OnDisk(l)
      BY <1>3, <3>1 DEF LanePlaced
    <3>4. QED
      BY <3>2, <3>3, PlaceTypes DEF Untried
  <2>3. QED
    BY <1>1, <1>3, <2>1, <2>2
<1>4. QED
  BY <1>2, <1>3, OnlyDrainsSend

\* What waits on disk or comes from it was never sent: a message that was
\* acked, exhausted or sent by BEST_EFFORT has no file left to return from.
THEOREM UntriedInvariant == Spec => []UntriedInv
<1>1. TypeInv /\ BudgetInv /\ PlaceInv /\ UntriedInv /\ [Next]_vars => UntriedInv'
  BY NextUntried
<1>2. QED
  BY <1>1, InitUntried, TypeInvariant, BudgetInvariant, PlaceInvariant, PTL DEF Spec

-----------------------------------------------------------------------------
(* What may be sent.                                                       *)

\* Steps that send nothing on the lane k, give it only untried messages, and
\* take the awaiting flag, or an open decision, only from what leaves it.
Unspent(k) ==
  /\ attempts'[k] = attempts[k] /\ retryCount'[k] = retryCount[k]
  /\ \A id \in Range(queue'[k]) \ Range(queue[k]) : id \in Ids /\ attempts[k][id] = 0
  /\ awaiting'[k] \subseteq awaiting[k]
  /\ Range(queue'[k]) \cap awaiting[k] \subseteq awaiting'[k]
  /\ Range(queue'[k]) \cap Exhausted(k) \subseteq Exhausted(k)'
  /\ drain'[k] = "holding" => drain[k] = "holding"
  /\ held'[k] = held[k]

LEMMA PaidTypes ==
  ASSUME TypeInv, NEW k \in Lanes
  PROVE  /\ attempts[k] \in [Ids -> Nat]
         /\ \A id \in Ids : retryCount[k][id] \in Int /\ retryCount[k][id] >= 0
         /\ awaiting[k] \in SUBSET Ids
BY DEF TypeInv, TypeOK, AckTypeOK, LaneTypeOK

LEMMA UnspentPaid ==
  ASSUME TypeInv, NEW k \in Lanes, LanePaid(k), Unspent(k)
  PROVE  LanePaid(k)'
<1>1. ASSUME NEW id \in Range(queue'[k]) \ (awaiting'[k] \cup Exhausted(k)')
      PROVE  attempts'[k][id] <= retryCount'[k][id]
  <2>1. CASE id \in Range(queue[k])
    BY <1>1, <2>1 DEF Unspent, LanePaid
  <2>2. CASE id \notin Range(queue[k])
    BY <1>1, <2>2, PaidTypes DEF Unspent
  <2>3. QED
    BY <2>1, <2>2
<1>2. QED
  BY <1>1 DEF Unspent, LanePaid

\* Steps that leave the lane k as it is, or schedule its drain.
LaneQuiet(k) ==
  /\ attempts'[k] = attempts[k] /\ retryCount'[k] = retryCount[k]
  /\ queue'[k] = queue[k] /\ awaiting'[k] = awaiting[k]
  /\ drain'[k] = "holding" => drain[k] = "holding"
  /\ held'[k] = held[k]

LEMMA QuietUnspent ==
  ASSUME NEW k, LaneQuiet(k), UNCHANGED decisions
  PROVE  Unspent(k)
BY DEF LaneQuiet, Unspent, Exhausted

\* Connections and subscriptions.
LEMMA RegistryPaid ==
  ASSUME TypeInv, AgreeInv, PaidInv,
         \/ \E c \in Clients : Connect(c)
         \/ \E S \in SUBSET Clients : Leave(S)
         \/ \E c \in Clients, t \in Topics : Subscribe(c, t) \/ Unsubscribe(c, t)
  PROVE  PaidInv'
<1>1. UNCHANGED <<laneVars, drainVars, attempts, retryCount, decisions>>
  BY DEF Connect, Leave, Subscribe, Unsubscribe, ackVars, RemoveLanes
<1>2. ASSUME NEW k \in Lanes, session'[k[1]] = "open"
      PROVE  LanePaid(k)'
  <2>1. CASE session[k[1]] = "open"
    <3>1. Unspent(k)
      BY <1>1, QuietUnspent DEF LaneQuiet, laneVars, drainVars
    <3>2. QED
      BY <2>1, <3>1, UnspentPaid DEF PaidInv, Open
  <2>2. CASE session[k[1]] # "open"
    <3>1. session[k[1]] = "absent"
      <4>1. k[1] \in Clients
        BY DEF Lanes
      <4>2. CASE \E S \in SUBSET Clients : Leave(S)
        BY <1>2, <2>2, <4>1, <4>2, LeaveSession
      <4>3. QED
        BY <1>2, <2>2, <4>1, <4>2
           DEF Connect, Subscribe, Unsubscribe, TypeInv, TypeOK
    <3>2. queue[k] = <<>> /\ awaiting[k] \subseteq Range(queue[k]) /\ drain[k] = "idle"
      BY <3>1 DEF AgreeInv, LaneAgrees
    <3>3. Range(queue[k]) = {}
      BY <3>2 DEF Range
    <3>4. QED
      BY <1>1, <3>2, <3>3 DEF LanePaid, laneVars, drainVars
  <2>3. QED
    BY <2>1, <2>2
<1>3. QED
  BY <1>2 DEF PaidInv, Open

\* removeByMessageId takes the flag only from what it removes.
LEMMA RemovalUnspent ==
  ASSUME TypeInv, PlaceInv, NEW k \in Lanes, NEW id,
         queue'[k] = Without(queue[k], id), awaiting'[k] = awaiting[k] \ {id},
         Exhausted(k) \subseteq Exhausted(k)' \cup {id},
         attempts'[k] = attempts[k], retryCount'[k] = retryCount[k],
         drain'[k] = "holding" => drain[k] = "holding", held'[k] = held[k]
  PROVE  Unspent(k)
<1>1. Range(queue'[k]) = Range(queue[k]) \ {id}
  BY PlaceTypes, WithoutApart DEF PlaceInv, LanePlaced
<1>2. QED
  BY <1>1 DEF Unspent

LEMMA AckPaid ==
  ASSUME TypeInv, PlaceInv, PaidInv, NEW l \in Lanes, NEW id \in Ids, Ack(l, id)
  PROVE  PaidInv'
<1>1. /\ queue' = [queue EXCEPT ![l] = Without(@, id)]
      /\ awaiting' = [awaiting EXCEPT ![l] = @ \ {id}]
      /\ UNCHANGED <<session, attempts, retryCount, decisions>>
  BY DEF Ack, RemoveByMessageId, Acknowledge, registryVars
<1>2. PICK S : ScheduleDrain(S)
  BY DEF Ack
<1>3. ASSUME NEW k \in Lanes, Open(k)
      PROVE  LanePaid(k)'
  <2>1. /\ drain'[k] = "holding" => drain[k] = "holding"
        /\ held'[k] = held[k]
    BY <1>2, ScheduleKeeps
  <2>2. CASE k = l
    <3>1. queue'[k] = Without(queue[k], id) /\ awaiting'[k] = awaiting[k] \ {id}
      BY <1>1, <2>2 DEF TypeInv, TypeOK, LaneTypeOK
    <3>2. Exhausted(k)' = Exhausted(k)
      BY <1>1 DEF Exhausted
    <3>3. QED
      BY <1>1, <1>3, <2>1, <3>1, <3>2, RemovalUnspent, UnspentPaid DEF PaidInv
  <2>3. CASE k # l
    <3>1. LaneQuiet(k)
      BY <1>1, <2>1, <2>3 DEF LaneQuiet, TypeInv, TypeOK, LaneTypeOK
    <3>2. QED
      BY <1>1, <1>3, <3>1, QuietUnspent, UnspentPaid DEF PaidInv
  <2>4. QED
    BY <2>2, <2>3
<1>4. QED
  BY <1>1, <1>3 DEF PaidInv, Open

\* A publication brings the lane a message that was never tried.
LEMMA DeliverPaid ==
  ASSUME TypeInv, PlaceInv, UntriedInv, PaidInv, NEW S \in SUBSET Lanes,
         NEW n \in Sizes, Deliver(S, n)
  PROVE  PaidInv'
<1>1. PICK id : id = nextSequence
  OBVIOUS
<1>2. /\ id \in Ids /\ UNCHANGED <<session, awaiting, attempts, retryCount, decisions>>
      /\ queue' = [l \in Lanes |-> IF l \in S THEN QueueAfter(l, id, n)
                                              ELSE queue[l]]
  BY <1>1 DEF Deliver, EnqueueAll, ackVars, registryVars
<1>3. PICK T : ScheduleDrain(T)
  BY DEF Deliver
<1>4. ASSUME NEW k \in Lanes, Open(k)
      PROVE  LanePaid(k)'
  <2>1. id \in Untried(k) /\ id \notin Range(queue[k]) /\ IsInjective(queue[k])
    <3>1. id \in Nat /\ id >= nextSequence /\ ~(id < nextSequence)
      BY <1>1, <1>2 DEF Ids
    <3>2. QED
      BY <1>2, <3>1 DEF Untried, PlaceInv, LanePlaced
  <2>2. attempts[k][id] = 0
    BY <2>1 DEF UntriedInv
  <2>3. Range(queue'[k]) \subseteq Range(queue[k]) \cup {id}
    BY <1>2, <2>1, PlaceTypes, EnqueueApart
  <2>4. Unspent(k)
    BY <1>2, <1>3, <2>2, <2>3, ScheduleKeeps DEF Unspent, Exhausted
  <2>5. QED
    BY <1>4, <2>4, UnspentPaid DEF PaidInv
<1>5. QED
  BY <1>2, <1>4 DEF PaidInv, Open

\* A pass of the timer takes the flag from an entry and adds a retry, or
\* decides to remove it.
LEMMA RetryTickPaid ==
  ASSUME TypeInv, PaidInv, NEW expired \in SUBSET Tracked, RetryTick(expired)
  PROVE  PaidInv'
<1>1. /\ UNCHANGED <<queue, session, drain, held, attempts>>
      /\ decisions = {} /\ \A k \in Lanes : drain[k] # "holding"
      /\ Expire(expired)
      /\ awaiting' = [l \in Lanes |-> {id \in awaiting[l] : <<l, id>> \notin expired}]
  BY DEF RetryTick, Quiet, Idle, Microtask, registryVars, drainVars
<1>2. ASSUME NEW k \in Lanes, Open(k)
      PROVE  LanePaid(k)'
  <2>1. LanePaid(k) /\ Exhausted(k) = {}
    BY <1>1, <1>2 DEF PaidInv, Exhausted
  <2>2. \A id \in Ids :
          retryCount'[k][id] = IF <<k, id>> \in expired /\ Verdict(k, id) = "RETRY"
                                 THEN retryCount[k][id] + 1 ELSE retryCount[k][id]
    BY <1>1 DEF Expire
  <2>3. ASSUME NEW id \in Ids, <<k, id>> \in expired, Verdict(k, id) # "RETRY"
        PROVE  id \in Exhausted(k)'
    <3>1. Verdict(k, id) = "EXHAUSTED"
      BY <2>3 DEF Verdict
    <3>2. [lane |-> k, id |-> id, action |-> "EXHAUSTED"] \in decisions'
      <4>1. PICK p \in expired : p = <<k, id>>
        BY <2>3
      <4>2. [lane |-> p[1], id |-> p[2], action |-> Verdict(p[1], p[2])] \in decisions'
        BY <1>1, <4>1 DEF Expire
      <4>3. QED
        BY <3>1, <4>1, <4>2
    <3>3. QED
      BY <3>2 DEF Exhausted
  <2>4. ASSUME NEW id \in Range(queue[k]), id \notin awaiting'[k],
               id \notin Exhausted(k)'
        PROVE  attempts[k][id] <= retryCount'[k][id]
    <3>1. id \in Ids /\ attempts[k][id] \in Nat /\ retryCount[k][id] \in Int
      BY PlaceTypes, PaidTypes
    <3>2. CASE <<k, id>> \in expired
      <4>1. retryCount'[k][id] = retryCount[k][id] + 1
        BY <2>2, <2>3, <2>4, <3>1, <3>2
      <4>2. attempts[k][id] <= retryCount[k][id] + 1
        BY <2>1, <3>1 DEF LanePaid
      <4>3. QED
        BY <4>1, <4>2
    <3>3. CASE <<k, id>> \notin expired
      BY <1>1, <2>1, <2>2, <2>4, <3>1, <3>3 DEF LanePaid
    <3>4. QED
      BY <3>2, <3>3
  <2>5. ASSUME NEW id \in awaiting'[k]
        PROVE  attempts[k][id] <= retryCount'[k][id] + 1
    <3>1. id \in awaiting[k] /\ <<k, id>> \notin expired /\ id \in Ids
      BY <1>1, <2>5, PaidTypes
    <3>2. QED
      BY <2>1, <2>2, <3>1 DEF LanePaid
  <2>6. QED
    BY <1>1, <2>4, <2>5 DEF LanePaid
<1>3. QED
  BY <1>1, <1>2 DEF PaidInv, Open

LEMMA HandleDecisionPaid ==
  ASSUME TypeInv, PlaceInv, PaidInv, NEW d \in decisions, HandleDecision(d)
  PROVE  PaidInv'
<1>1. /\ UNCHANGED <<session, attempts, retryCount>>
      /\ decisions' = decisions \ {d}
  BY DEF HandleDecision, Handled, registryVars
<1>2. PICK l \in Lanes : l = d.lane
  BY DEF TypeInv, TypeOK, AckTypeOK, Decision
<1>3. /\ held' = held
      /\ \A k \in Lanes : drain'[k] = "holding" => drain[k] = "holding"
  BY HandleDecisionLane
<1>4. \A k \in Lanes : Exhausted(k) \subseteq
        Exhausted(k)' \cup (IF k = l /\ d.action = "EXHAUSTED" THEN {d.id} ELSE {})
  BY <1>1, <1>2 DEF Exhausted
<1>5. queue \in [Lanes -> Seq(Ids)] /\ awaiting \in [Lanes -> SUBSET Ids]
  BY DEF TypeInv, TypeOK, LaneTypeOK
<1>6. CASE HandleRetry(d)
  <2>1. UNCHANGED <<queue, awaiting>> /\ d.action # "EXHAUSTED"
    BY <1>6 DEF HandleRetry, laneVars
  <2>2. \A k \in Lanes : Unspent(k)
    BY <1>1, <1>3, <1>4, <2>1 DEF Unspent
  <2>3. QED
    BY <1>1, <2>2, UnspentPaid DEF PaidInv, Open
<1>7. CASE HandleExhausted(d)
  <2>1. ASSUME NEW k \in Lanes, Open(k)
        PROVE  Unspent(k)
    <3>1. CASE k = l
      <4>1. RemoveByMessageId(l, d.id)
        BY <1>2, <1>7, <2>1, <3>1 DEF HandleExhausted
      <4>2. queue'[k] = Without(queue[k], d.id) /\ awaiting'[k] = awaiting[k] \ {d.id}
        BY <1>5, <3>1, <4>1 DEF RemoveByMessageId
      <4>3. Exhausted(k) \subseteq Exhausted(k)' \cup {d.id}
        BY <1>4
      <4>4. QED
        BY <1>1, <1>3, <4>2, <4>3, RemovalUnspent
    <3>2. CASE k # l
      <4>1. queue'[k] = queue[k] /\ awaiting'[k] = awaiting[k]
        BY <1>2, <1>5, <1>7, <3>2 DEF HandleExhausted, RemoveByMessageId, laneVars
      <4>2. QED
        BY <1>1, <1>3, <1>4, <3>2, <4>1 DEF Unspent
    <3>3. QED
      BY <3>1, <3>2
  <2>2. QED
    BY <1>1, <2>1, UnspentPaid DEF PaidInv, Open
<1>8. QED
  BY <1>6, <1>7 DEF HandleDecision

\* The next await of the drain of l: it takes an entry that it may send.
LEMMA DrainedPaid ==
  ASSUME TypeInv, NEW l \in Lanes, NEW q, Sound(l, q), NEW bytes, NEW flagged,
         \/ TakeNext(l, q, bytes, flagged)
         \/ \E stage \in {"recovering", "ending"} : Stay(l, q, bytes, stage),
         awaiting'[l] = flagged, ~Reliable => flagged = {},
         UNCHANGED retryCount,
         \A id \in Range(q) \ flagged : attempts'[l][id] <= retryCount[l][id],
         \A id \in flagged : attempts'[l][id] <= retryCount[l][id] + 1
  PROVE  LanePaid(l)'
<1>1. CASE TakeNext(l, q, bytes, flagged)
  <2>1. Range(queue'[l]) \subseteq Range(q)
    BY <1>1, TakeNextPlaced
  <2>2. held'[l] \in Range(q) \ flagged
    <3>1. CASE Reliable
      <4>1. held'[l] = FirstUnsent(q, flagged)
        BY <1>1, <3>1 DEF TakeNext, Goto, TypeInv, TypeOK
      <4>2. QED
        BY <1>1, <3>1, <4>1, FirstUnsentIn DEF TakeNext, Entries, Sound
    <3>2. CASE ~Reliable
      BY <1>1, <3>2, TakeNextPlaced
    <3>3. QED
      BY <3>1, <3>2
  <2>3. QED
    BY <2>1, <2>2 DEF LanePaid
<1>2. CASE \E stage \in {"recovering", "ending"} : Stay(l, q, bytes, stage)
  BY <1>2, StayPlaced DEF LanePaid
<1>3. QED
  BY <1>1, <1>2

LEMMA LoopHeadPaid ==
  ASSUME TypeInv, NEW l \in Lanes, NEW q, Sound(l, q), NEW bytes, NEW flagged,
         LoopHead(l, q, bytes, flagged), ~Reliable => flagged = {},
         UNCHANGED retryCount,
         \A id \in Range(q) \ flagged : attempts'[l][id] <= retryCount[l][id],
         \A id \in flagged : attempts'[l][id] <= retryCount[l][id] + 1
  PROVE  LanePaid(l)'
<1>1. awaiting'[l] = flagged
  BY DEF LoopHead, TypeInv, TypeOK, LaneTypeOK
<1>2. \/ TakeNext(l, q, bytes, flagged)
      \/ \E stage \in {"recovering", "ending"} : Stay(l, q, bytes, stage)
  BY DEF LoopHead
<1>3. QED
  BY <1>1, <1>2, DrainedPaid

\* The drain of l leaves the budget of the other lanes alone.
LEMMA OthersPaid ==
  ASSUME TypeInv, BudgetInv, AgreeInv, PaidInv, NEW l \in Lanes, DrainStep(l),
         NEW k \in Lanes, k # l, Open(k)
  PROVE  LanePaid(k)'
<1>1. OthersKept(l)
  BY DrainStepLane
<1>2. attempts'[k] = attempts[k] /\ UNCHANGED retryCount
  BY DEF DrainStep, DrainStart, SendHeld, SendHeldFails, Refill, DrainEnd, Attempt,
     Register, Acknowledge, ackVars, TypeInv, TypeOK
<1>3. LaneQuiet(k) /\ UNCHANGED decisions
  BY <1>1, <1>2 DEF OthersKept, LaneQuiet
<1>4. QED
  BY <1>3, QuietUnspent, UnspentPaid DEF PaidInv

LEMMA DrainStepPaid ==
  ASSUME TypeInv, BudgetInv, AgreeInv, PlaceInv, UntriedInv, PaidInv,
         NEW l \in Lanes, DrainStep(l)
  PROVE  PaidInv'
<1>1. /\ UNCHANGED <<session, retryCount>> /\ decisions = {}
      /\ LanePlaced(l) /\ LaneAgrees(l)
      /\ awaiting \in [Lanes -> SUBSET Ids]
      /\ attempts \in [Lanes -> [Ids -> Nat]]
  BY DrainedIsNotAbsent
     DEF DrainStep, DrainStart, SendHeld, SendHeldFails, Refill, DrainEnd, Register,
         Acknowledge, ackVars, registryVars, PlaceInv, AgreeInv, TypeInv, TypeOK,
         LaneTypeOK
<1>2. Sound(l, queue[l])
  BY <1>1, PlaceTypes DEF LanePlaced, Sound
<1>3. Exhausted(l) = {}
  BY <1>1 DEF Exhausted
<1>4. ASSUME LanePaid(l)
      PROVE  LanePaid(l)'
  <2>1. /\ \A id \in Range(queue[l]) \ awaiting[l] : attempts[l][id] <= retryCount[l][id]
        /\ \A id \in awaiting[l] : attempts[l][id] <= retryCount[l][id] + 1
        /\ ~Reliable => awaiting[l] = {}
    BY <1>1, <1>3, <1>4 DEF LanePaid, LaneAgrees
  <2>2. CASE DrainStart(l)
    <3>1. UNCHANGED attempts /\ LoopHead(l, queue[l], queuedBytes[l], awaiting[l])
      BY <2>2 DEF DrainStart
    <3>2. QED
      BY <1>1, <1>2, <2>1, <3>1, LoopHeadPaid
  <2>3. ASSUME drain[l] = "holding", Attempt(l, held[l])
        PROVE  /\ attempts[l][held[l]] <= retryCount[l][held[l]]
               /\ \A id \in Ids : attempts'[l][id] =
                    IF id = held[l] THEN attempts[l][id] + 1 ELSE attempts[l][id]
    BY <1>1, <1>4, <2>3 DEF Attempt, LanePaid
  <2>4. CASE SendHeld(l) /\ Reliable
    <3>1. /\ drain[l] = "holding" /\ Attempt(l, held[l])
          /\ LoopHead(l, queue[l], queuedBytes[l], awaiting[l] \cup {held[l]})
      BY <2>4 DEF SendHeld
    <3>2. held[l] \in Range(queue[l]) /\ held[l] \in Ids
      BY <1>1, <2>4, <3>1, PlaceTypes DEF LaneAgrees
    <3>3. \A id \in Range(queue[l]) \ (awaiting[l] \cup {held[l]}) :
            attempts'[l][id] <= retryCount[l][id]
      BY <2>1, <2>3, <3>1, PlaceTypes
    <3>4. \A id \in awaiting[l] \cup {held[l]} :
            attempts'[l][id] <= retryCount[l][id] + 1
      BY <1>1, <2>1, <2>3, <3>1, <3>2, PaidTypes
    <3>5. QED
      BY <1>1, <1>2, <2>4, <3>1, <3>3, <3>4, LoopHeadPaid
  <2>5. CASE SendHeld(l) /\ ~Reliable
    <3>1. /\ drain[l] = "holding" /\ Attempt(l, held[l])
          /\ LoopHead(l, queue[l], queuedBytes[l], awaiting[l])
      BY <2>5 DEF SendHeld
    <3>2. held[l] \notin Range(queue[l]) /\ awaiting[l] = {}
      BY <1>1, <2>1, <2>5, <3>1 DEF LanePlaced
    <3>3. \A id \in Range(queue[l]) : attempts'[l][id] <= retryCount[l][id]
      BY <2>1, <2>3, <3>1, <3>2, PlaceTypes
    <3>4. QED
      BY <1>1, <1>2, <2>1, <3>1, <3>2, <3>3, LoopHeadPaid
  <2>6. CASE SendHeldFails(l)
    <3>1. /\ drain[l] = "holding" /\ Attempt(l, held[l]) /\ Reliable
      BY <2>6 DEF SendHeldFails
    <3>2. PICK bytes : LoopHead(l, Without(queue[l], held[l]), bytes,
                                awaiting[l] \ {held[l]})
      BY <2>6 DEF SendHeldFails
    <3>3. /\ Sound(l, Without(queue[l], held[l]))
          /\ Range(Without(queue[l], held[l])) = Range(queue[l]) \ {held[l]}
      BY <1>2, WithoutApart DEF Sound
    <3>4. \A id \in Range(Without(queue[l], held[l])) \ (awaiting[l] \ {held[l]}) :
            attempts'[l][id] <= retryCount[l][id]
      BY <2>1, <2>3, <3>1, <3>3, PlaceTypes
    <3>5. \A id \in awaiting[l] \ {held[l]} :
            attempts'[l][id] <= retryCount[l][id] + 1
      BY <1>1, <2>1, <2>3, <3>1
    <3>6. QED
      BY <1>1, <3>1, <3>2, <3>3, <3>4, <3>5, LoopHeadPaid
  <2>7. CASE Refill(l)
    <3>1. PICK q : q = queue[l] \o recovered[l]
      OBVIOUS
    <3>2. Sound(l, q) /\ Range(q) = Range(queue[l]) \cup Range(recovered[l])
      BY <1>1, <3>1, PlaceTypes, ConcatDisjoint, ConcatProperties DEF Sound, LanePlaced
    <3>3. PICK bytes : \/ TakeNext(l, q, bytes, awaiting[l])
                       \/ Stay(l, q, bytes, "ending")
      BY <2>7, <3>1 DEF Refill, Refilled
    <3>4. UNCHANGED <<awaiting, attempts>>
      BY <2>7 DEF Refill
    <3>5. \A id \in Range(recovered[l]) : attempts[l][id] <= retryCount[l][id]
      <4>1. \A id \in Range(recovered[l]) : id \in Ids /\ attempts[l][id] = 0
        BY PlaceTypes DEF UntriedInv, Untried
      <4>2. QED
        BY <4>1, PaidTypes
    <3>6. \A id \in Range(q) \ awaiting[l] : attempts'[l][id] <= retryCount[l][id]
      BY <2>1, <3>2, <3>4, <3>5
    <3>7. QED
      BY <1>1, <2>1, <3>2, <3>3, <3>4, <3>6, DrainedPaid
  <2>8. CASE DrainEnd(l)
    <3>1. UNCHANGED <<queue, awaiting, attempts, decisions>> /\ drain'[l] # "holding"
      BY <2>8 DEF DrainEnd, Goto, laneVars, ackVars, TypeInv, TypeOK
    <3>2. QED
      BY <1>1, <1>4, <3>1 DEF LanePaid, Exhausted
  <2>9. QED
    BY <2>2, <2>4, <2>5, <2>6, <2>7, <2>8 DEF DrainStep
<1>5. QED
  BY <1>1, <1>4, OthersPaid DEF PaidInv, Open

LEMMA FileEventPaid ==
  ASSUME TypeInv, PaidInv,
         UNCHANGED <<laneVars, ackVars, registryVars, drainVars, attempts>>
  PROVE  PaidInv'
<1>1. \A k \in Lanes : LaneQuiet(k)
  BY DEF LaneQuiet, laneVars, ackVars, drainVars
<1>2. \A k \in Lanes : Unspent(k)
  BY <1>1, QuietUnspent DEF ackVars
<1>3. QED
  BY <1>2, UnspentPaid DEF PaidInv, Open, registryVars

LEMMA InitPaid == Init => PaidInv
BY DEF Init, PaidInv, Open, Lanes

LEMMA NextPaid ==
  ASSUME TypeInv, BudgetInv, AgreeInv, PlaceInv, UntriedInv, PaidInv, [Next]_vars
  PROVE  PaidInv'
<1>1. CASE SocketEvent
  BY <1>1, DepartureLeaves, RegistryPaid, AckPaid DEF SocketEvent
<1>2. CASE Publication
  BY <1>2, PublicationIsDelivery, DeliverPaid
<1>3. CASE Retrying
  BY <1>3, RetryTickPaid, HandleDecisionPaid DEF Retrying
<1>4. ASSUME NEW l \in Lanes, DrainStep(l)
      PROVE  PaidInv'
  BY <1>4, DrainStepPaid
<1>5. ASSUME NEW l \in Lanes, FileEvent(l)
      PROVE  PaidInv'
  BY <1>5, FileEventIsOperation, FileEventPaid
<1>6. CASE UNCHANGED vars
  BY <1>6, FileEventPaid DEF vars
<1>7. QED
  BY <1>1, <1>2, <1>3, <1>4, <1>5, <1>6 DEF Next

\* The inductive invariant behind RetryBudget.
THEOREM PaidInvariant == Spec => []PaidInv
<1>1. /\ TypeInv /\ BudgetInv /\ AgreeInv /\ PlaceInv /\ UntriedInv /\ PaidInv
      /\ [Next]_vars
      => PaidInv'
  BY NextPaid
<1>2. QED
  BY <1>1, InitPaid, TypeInvariant, BudgetInvariant, AgreeInvariant, PlaceInvariant,
     UntriedInvariant, PTL DEF Spec

\* A message is sent to a connected client at most once, and once more for
\* every retry the timer has counted for it, whatever acks, drains, refills
\* and passes of the timer interleave.
THEOREM SendsAreBudgeted == Spec => RetryBudget
<1>1. ASSUME TypeInv, PaidInv, [Next]_vars,
             NEW l \in Lanes, NEW id \in Ids, Open(l),
             attempts'[l][id] > attempts[l][id]
      PROVE  attempts'[l][id] <= 1 + retryCount[l][id]
  <2>1. attempts \in [Lanes -> [Ids -> Nat]]
    BY <1>1 DEF TypeInv, TypeOK
  <2>2. PICK k \in Lanes : /\ drain[k] = "holding"
                           /\ attempts' = [attempts EXCEPT ![k][held[k]] = @ + 1]
    BY <1>1, <2>1, OnlyDrainsSend
  <2>3. k = l /\ held[k] = id /\ attempts'[l][id] = attempts[l][id] + 1
    BY <1>1, <2>1, <2>2
  <2>4. attempts[l][id] <= retryCount[l][id]
    BY <1>1, <2>2, <2>3 DEF PaidInv, LanePaid
  <2>5. QED
    <3>1. attempts[l][id] \in Nat /\ retryCount[l][id] \in Int
      BY <1>1, <2>1, PaidTypes
    <3>2. QED
      BY <2>3, <2>4, <3>1
<1>2. TypeInv /\ PaidInv /\ [Next]_vars
      => [\A l \in Lanes, id \in Ids :
            attempts'[l][id] > attempts[l][id] /\ Open(l)
              => attempts'[l][id] <= 1 + retryCount[l][id]]_vars
  BY <1>1
<1>3. QED
  BY <1>2, TypeInvariant, PaidInvariant, PTL DEF Spec, RetryBudget

-----------------------------------------------------------------------------
(* Lanes of a client that has gone.                                        *)

\* What schedules a drain has found the session in the registry.
LEMMA ScheduleOfOpen ==
  ASSUME NEW S, ScheduleDrain(S), \A l \in S \cap Lanes : Open(l),
         NEW k \in Lanes, drain[k] = "idle", ~Open(k)
  PROVE  drain'[k] = "idle"
BY DEF ScheduleDrain

\* A lane at rest whose client has gone is never drained again: no
\* publication, late ack or decision of the retry timer wakes it, and a
\* recovery that ends late belongs to a drain that has not ended.
THEOREM GoneLanesRest == Spec => GoneStaysIdle
<1>1. ASSUME TypeInv, BudgetInv, [Next]_vars, NEW k \in Lanes,
             session[k[1]] = "closed", drain[k] = "idle"
      PROVE  drain'[k] = "idle"
  <2>1. ~Open(k)
    BY <1>1 DEF Open
  <2>2. ASSUME Stop \/ \E c \in Clients : Connect(c) \/ Disconnect(c)
        PROVE  drain'[k] = "idle"
    BY <1>1, <2>2 DEF Connect, Disconnect, Stop, Leave, drainVars
  <2>3. ASSUME NEW c \in Clients, NEW t \in Topics, Subscribe(c, t) \/ Unsubscribe(c, t)
        PROVE  drain'[k] = "idle"
    BY <1>1, <2>3 DEF Subscribe, Unsubscribe, drainVars
  <2>4. ASSUME NEW l \in Lanes, NEW id \in Ids, Ack(l, id)
        PROVE  drain'[k] = "idle"
    <3>1. PICK S \in SUBSET {l} : ScheduleDrain(S)
      BY <2>4 DEF Ack
    <3>2. \A m \in S \cap Lanes : Open(m)
      BY <2>4 DEF Ack
    <3>3. QED
      BY <1>1, <2>1, <3>1, <3>2, ScheduleOfOpen
  <2>5. CASE Publication
    <3>1. PICK n \in Sizes, S \in SUBSET Lanes : Deliver(S, n) /\ \A l \in S : Open(l)
      BY <2>5, PublicationIsDelivery
    <3>2. PICK T \in SUBSET S : ScheduleDrain(T)
      BY <3>1 DEF Deliver
    <3>3. QED
      BY <1>1, <2>1, <3>1, <3>2, ScheduleOfOpen
  <2>6. CASE Retrying
    <3>1. ASSUME NEW expired \in SUBSET Tracked, RetryTick(expired)
          PROVE  drain'[k] = "idle"
      BY <1>1, <3>1 DEF RetryTick, drainVars
    <3>2. ASSUME NEW d \in decisions, HandleDecision(d)
          PROVE  drain'[k] = "idle"
      BY <1>1, <2>1, <3>2, HandleDecisionLane
    <3>3. QED
      BY <2>6, <3>1, <3>2 DEF Retrying
  <2>7. ASSUME NEW l \in Lanes, DrainStep(l)
        PROVE  drain'[k] = "idle"
    <3>1. drain[l] # "idle"
      BY <2>7, <1>1 DEF DrainStep, DrainStart, SendHeld, SendHeldFails, Refill, DrainEnd,
         BudgetInv, RecoveryInDrain
    <3>2. drain'[k] = drain[k]
      BY <1>1, <2>7, <3>1 DEF DrainStep, DrainStart, SendHeld, SendHeldFails, Refill,
         DrainEnd, LoopHead, TakeNext, Stay, Goto, TypeInv, TypeOK
    <3>3. QED
      BY <1>1, <3>2
  <2>8. ASSUME NEW l \in Lanes, FileEvent(l)
        PROVE  drain'[k] = "idle"
    BY <1>1, <2>8, FileEventIsOperation DEF drainVars
  <2>9. CASE UNCHANGED vars
    BY <1>1, <2>9 DEF vars, drainVars
  <2>10. QED
    BY <1>1, <2>2, <2>3, <2>4, <2>5, <2>6, <2>7, <2>8, <2>9 DEF Next, SocketEvent
<1>2. TypeInv /\ BudgetInv /\ [Next]_vars
      => [\A l \in Lanes :
            session[l[1]] = "closed" /\ drain[l] = "idle" => drain'[l] = "idle"]_vars
  BY <1>1
<1>3. QED
  BY <1>2, TypeInvariant, BudgetInvariant, PTL DEF Spec, GoneStaysIdle

-----------------------------------------------------------------------------
(* Sums over a queue.                                                      *)

\* s adds up the weights of q, one after the other.
Adds(s, w, q) ==
  /\ s \in [0..Len(q) -> Nat] /\ s[0] = 0
  /\ \A n \in 1..Len(q) : s[n] = s[n - 1] + w[q[n]]

LEMMA SumExists ==
  ASSUME NEW S, NEW w \in [S -> Nat], NEW q \in Seq(S)
  PROVE  \E s : Adds(s, w, q)
<1>1. Len(q) \in Nat /\ \A n \in 1..Len(q) : w[q[n]] \in Nat
  BY LenProperties, ElementOfSeq
<1> DEFINE Sums(m) == {s \in [0..m -> Nat] :
                         s[0] = 0 /\ \A n \in 1..m : s[n] = s[n - 1] + w[q[n]]}
           Long == {m \in Nat : m <= Len(q) => Sums(m) # {}}
<1>2. 0 \in Long
  <2>1. [n \in 0..0 |-> 0] \in Sums(0)
    OBVIOUS
  <2>2. QED
    BY <2>1
<1>3. ASSUME NEW m \in Nat, m \in Long
      PROVE  m + 1 \in Long
  <2>1. SUFFICES ASSUME m + 1 <= Len(q)
                 PROVE  Sums(m + 1) # {}
    <3> HIDE DEF Sums
    <3>1. m + 1 \in Nat
      OBVIOUS
    <3>2. QED
      BY <3>1
  <2>2. PICK s \in Sums(m) : TRUE
    <3>1. m <= Len(q)
      BY <1>1, <2>1
    <3> HIDE DEF Sums
    <3>2. QED
      BY <1>3, <3>1
  <2>3. PICK r : r = [n \in 0..(m + 1) |-> IF n = m + 1 THEN s[m] + w[q[m + 1]] ELSE s[n]]
    OBVIOUS
  <2>4. \A n \in 0..(m + 1) : n = m + 1 \/ n \in 0..m
    OBVIOUS
  <2>5. r \in [0..(m + 1) -> Nat]
    <3>1. m + 1 \in 1..Len(q) /\ s[m] \in Nat /\ \A n \in 0..m : s[n] \in Nat
      BY <1>1, <2>1, <2>2
    <3>2. \A n \in 0..(m + 1) : r[n] \in Nat
      BY <1>1, <2>3, <2>4, <3>1
    <3>3. QED
      BY <2>3, <3>2
  <2>6. r[0] = 0
    BY <2>2, <2>3
  <2>7. ASSUME NEW n \in 1..(m + 1)
        PROVE  r[n] = r[n - 1] + w[q[n]]
    <3>1. n - 1 \in 0..m /\ n - 1 # m + 1 /\ r[n - 1] = s[n - 1]
      BY <2>3
    <3>2. CASE n = m + 1
      <4>1. n - 1 = m /\ r[n] = s[m] + w[q[n]]
        BY <2>3, <3>2
      <4>2. QED
        BY <3>1, <4>1
    <3>3. CASE n # m + 1
      <4>1. n \in 1..m /\ r[n] = s[n]
        BY <2>3, <3>3
      <4>2. QED
        BY <2>2, <3>1, <4>1
    <3>4. QED
      BY <3>2, <3>3
  <2>8. r \in Sums(m + 1)
    BY <2>5, <2>6, <2>7
  <2>9. QED
    BY <2>8
<1>4. Nat \subseteq Long
  <2> HIDE DEF Long
  <2>1. QED
    BY <1>2, <1>3, Induction
<1>5. PICK s \in Sums(Len(q)) : TRUE
  <2>1. Len(q) \in Long /\ Len(q) <= Len(q)
    <3> HIDE DEF Long
    <3>1. QED
      BY <1>1, <1>4
  <2> HIDE DEF Sums
  <2>2. QED
    BY <2>1
<1>6. Adds(s, w, q)
  BY <1>5 DEF Adds
<1>7. QED
  BY <1>6

LEMMA TotalIsSum ==
  ASSUME NEW S, NEW w \in [S -> Nat], NEW q \in Seq(S),
         NEW s, Adds(s, w, q)
  PROVE  Total(w, q) = s[Len(q)]
<1>1. Adds(s, w, q)
  OBVIOUS
<1>2. Len(q) \in Nat
  BY LenProperties
<1>3. s = [n \in 0..Len(q) |-> IF n = 0 THEN 0 ELSE s[n - 1] + w[q[n]]]
  <2>1. \A n \in 0..Len(q) : n = 0 \/ n \in 1..Len(q)
    BY <1>2
  <2>2. \A n \in 0..Len(q) : s[n] = IF n = 0 THEN 0 ELSE s[n - 1] + w[q[n]]
    BY <1>1, <2>1 DEF Adds
  <2>3. QED
    BY <1>1, <2>2 DEF Adds
<1>4. PICK t : /\ t = [n \in 0..Len(q) |-> IF n = 0 THEN 0 ELSE t[n - 1] + w[q[n]]]
               /\ Total(w, q) = t[Len(q)]
  <2>1. PICK t : t = CHOOSE u : u = [n \in 0..Len(q) |->
                                       IF n = 0 THEN 0 ELSE u[n - 1] + w[q[n]]]
    OBVIOUS
  <2>2. t = [n \in 0..Len(q) |-> IF n = 0 THEN 0 ELSE t[n - 1] + w[q[n]]]
    BY <1>3, <2>1, Zenon
  <2>3. Total(w, q) = t[Len(q)]
    BY <2>1, Zenon DEF Total
  <2>4. QED
    BY <2>2, <2>3
<1>5. t[0] = 0 /\ \A n \in 1..Len(q) : t[n] = t[n - 1] + w[q[n]]
  BY <1>2, <1>4
<1>6. \A n \in 0..Len(q) : t[n] = s[n]
  <2> DEFINE Same == {n \in Nat : n <= Len(q) => t[n] = s[n]}
  <2>1. 0 \in Same
    BY <1>1, <1>5 DEF Adds
  <2>2. ASSUME NEW n \in Nat, n \in Same
        PROVE  n + 1 \in Same
    <3>1. SUFFICES ASSUME n + 1 <= Len(q)
                   PROVE  t[n + 1] = s[n + 1]
      OBVIOUS
    <3>2. n + 1 \in 1..Len(q) /\ (n + 1) - 1 = n /\ t[n] = s[n]
      BY <1>2, <2>2, <3>1
    <3>3. QED
      BY <1>1, <1>5, <3>2 DEF Adds
  <2>3. Nat \subseteq Same
    <3> HIDE DEF Same
    <3>1. QED
      BY <2>1, <2>2, Induction
  <2>4. QED
    BY <1>2, <2>3
<1>7. QED
  BY <1>1, <1>2, <1>4, <1>6
\* A sum can be computed with any recurrence that adds the weights up.
LEMMA TotalIn ==
  ASSUME NEW S, NEW w \in [S -> Nat], NEW q \in Seq(S)
  PROVE  Total(w, q) \in Nat
<1>1. PICK s : Adds(s, w, q)
  BY SumExists
<1>2. Total(w, q) = s[Len(q)]
  BY <1>1, TotalIsSum
<1>3. Len(q) \in 0..Len(q)
  BY LenProperties
<1>4. QED
  BY <1>1, <1>2, <1>3 DEF Adds

LEMMA TotalOfNone ==
  ASSUME NEW S, NEW w \in [S -> Nat]
  PROVE  Total(w, <<>>) = 0
<1>1. <<>> \in Seq(S) /\ Len(<<>>) = 0
  BY EmptySeq
<1>2. PICK s : Adds(s, w, <<>>)
  BY <1>1, SumExists
<1>3. Total(w, <<>>) = s[Len(<<>>)]
  BY <1>1, <1>2, TotalIsSum
<1>4. QED
  BY <1>1, <1>2, <1>3 DEF Adds

LEMMA TotalOfOne ==
  ASSUME NEW S, NEW w \in [S -> Nat], NEW x \in S
  PROVE  Total(w, <<x>>) = w[x]
<1>1. PICK q : q = <<x>>
  OBVIOUS
<1>2. q \in Seq(S) /\ Len(q) = 1 /\ q[1] = x
  BY <1>1
<1>3. PICK s : Adds(s, w, q)
  BY <1>2, SumExists
<1>4. Total(w, q) = s[Len(q)]
  BY <1>2, <1>3, TotalIsSum
<1>5. s[0] = 0 /\ s[1] = s[1 - 1] + w[q[1]] /\ w[x] \in Nat
  BY <1>2, <1>3 DEF Adds
<1>6. QED
  BY <1>1, <1>2, <1>4, <1>5

\* Only the weights of the elements count.
LEMMA TotalSame ==
  ASSUME NEW S, NEW w \in [S -> Nat], NEW v \in [S -> Nat], NEW q \in Seq(S),
         \A i \in 1..Len(q) : v[q[i]] = w[q[i]]
  PROVE  Total(v, q) = Total(w, q)
<1>1. PICK s : Adds(s, w, q)
  BY SumExists
<1>2. Adds(s, v, q)
  BY <1>1 DEF Adds
<1>3. Total(w, q) = s[Len(q)]
  BY <1>1, TotalIsSum
<1>4. Total(v, q) = s[Len(q)]
  BY <1>2, TotalIsSum
<1>5. QED
  BY <1>3, <1>4

\* The sum of two queues, one behind the other.
LEMMA TotalOfConcat ==
  ASSUME NEW S, NEW w \in [S -> Nat], NEW p \in Seq(S), NEW q \in Seq(S)
  PROVE  Total(w, p \o q) = Total(w, p) + Total(w, q)
<1>1. PICK c : c = p \o q
  OBVIOUS
<1>2. /\ c \in Seq(S)
      /\ Len(c) = Len(p) + Len(q)
      /\ \A i \in 1..(Len(p) + Len(q)) :
           c[i] = IF i <= Len(p) THEN p[i] ELSE q[i - Len(p)]
  BY <1>1, ConcatProperties
<1>3. Len(p) \in Nat /\ Len(q) \in Nat
  BY LenProperties
<1>4. PICK r : Adds(r, w, p)
  BY SumExists
<1>5. PICK s : Adds(s, w, q)
  BY SumExists
<1>6. PICK t : Adds(t, w, c)
  BY <1>2, SumExists
<1>7. \A n \in 0..Len(p) : t[n] = r[n]
  <2> DEFINE Same == {n \in Nat : n <= Len(p) => t[n] = r[n]}
  <2>1. 0 \in Same
    BY <1>4, <1>6 DEF Adds
  <2>2. ASSUME NEW n \in Nat, n \in Same
        PROVE  n + 1 \in Same
    <3>1. SUFFICES ASSUME n + 1 <= Len(p)
                   PROVE  t[n + 1] = r[n + 1]
      OBVIOUS
    <3>2. /\ n + 1 \in 1..Len(p) /\ n + 1 \in 1..Len(c)
          /\ (n + 1) - 1 = n /\ t[n] = r[n]
      <4>1. Len(c) = Len(p) + Len(q)
        BY <1>2
      <4>2. /\ n + 1 \in 1..Len(p) /\ n + 1 \in 1..Len(c)
            /\ (n + 1) - 1 = n /\ n <= Len(p)
        BY <1>3, <3>1, <4>1
      <4>3. QED
        BY <2>2, <4>2
    <3>3. c[n + 1] = p[n + 1]
      <4>1. n + 1 \in 1..(Len(p) + Len(q)) /\ n + 1 <= Len(p)
        BY <1>3, <3>2
      <4>2. QED
        BY <1>2, <4>1
    <3>4. QED
      BY <1>4, <1>6, <3>2, <3>3 DEF Adds
  <2>3. Nat \subseteq Same
    <3> HIDE DEF Same
    <3>1. QED
      BY <2>1, <2>2, Induction
  <2>4. QED
    BY <1>3, <2>3
<1>8. \A n \in 0..Len(q) : t[Len(p) + n] = r[Len(p)] + s[n]
  <2> DEFINE Same == {n \in Nat : n <= Len(q) => t[Len(p) + n] = r[Len(p)] + s[n]}
  <2>1. 0 \in Same
    <3>1. t[Len(p)] = r[Len(p)] /\ r[Len(p)] \in Nat /\ s[0] = 0 /\ Len(p) + 0 = Len(p)
      BY <1>3, <1>4, <1>5, <1>7 DEF Adds
    <3>2. QED
      BY <3>1
  <2>2. ASSUME NEW n \in Nat, n \in Same
        PROVE  n + 1 \in Same
    <3>1. SUFFICES ASSUME n + 1 <= Len(q)
                   PROVE  t[Len(p) + (n + 1)] = r[Len(p)] + s[n + 1]
      OBVIOUS
    <3>2. PICK m : m = Len(p) + (n + 1)
      OBVIOUS
    <3>3. /\ n + 1 \in 1..Len(q) /\ m \in 1..Len(c) /\ ~ (m <= Len(p))
          /\ (n + 1) - 1 = n /\ m - 1 = Len(p) + n /\ m - Len(p) = n + 1
      BY <1>2, <1>3, <3>1, <3>2
    <3>4. c[m] = q[n + 1]
      BY <1>2, <1>3, <3>3
    <3>5. t[m] = t[m - 1] + w[c[m]] /\ s[n + 1] = s[(n + 1) - 1] + w[q[n + 1]]
      BY <1>5, <1>6, <3>3 DEF Adds
    <3>6. t[Len(p) + n] = r[Len(p)] + s[n]
      BY <1>3, <2>2, <3>1
    <3>7. r[Len(p)] \in Nat /\ s[n] \in Nat /\ w[q[n + 1]] \in Nat
      <4>1. Len(p) \in 0..Len(p) /\ n \in 0..Len(q)
        BY <1>3, <3>1
      <4>2. q[n + 1] \in S
        BY <3>3, ElementOfSeq
      <4>3. QED
        BY <1>4, <1>5, <4>1, <4>2 DEF Adds
    <3>8. QED
      BY <3>2, <3>3, <3>4, <3>5, <3>6, <3>7
  <2>3. Nat \subseteq Same
    <3> HIDE DEF Same
    <3>1. QED
      BY <2>1, <2>2, Induction
  <2>4. QED
    BY <1>3, <2>3
<1>9. Total(w, p) = r[Len(p)] /\ Total(w, q) = s[Len(q)] /\ Total(w, c) = t[Len(c)]
  BY <1>2, <1>4, <1>5, <1>6, TotalIsSum
<1>10. QED
  BY <1>1, <1>2, <1>3, <1>8, <1>9

\* The sum of a queue cut in two.
LEMMA TotalOfParts ==
  ASSUME NEW S, NEW w \in [S -> Nat], NEW q \in Seq(S), NEW k \in 0..Len(q)
  PROVE  /\ SubSeq(q, 1, k) \in Seq(S) /\ SubSeq(q, k + 1, Len(q)) \in Seq(S)
         /\ Total(w, q) = Total(w, SubSeq(q, 1, k)) + Total(w, SubSeq(q, k + 1, Len(q)))
<1>1. Len(q) \in Nat /\ \A i \in 1..Len(q) : q[i] \in S
  BY LenProperties, ElementOfSeq
<1>2. SubSeq(q, 1, k) \in Seq(S)
  <2>1. \A i \in 1..k : q[i] \in S
    BY <1>1
  <2>2. 1 \in Int /\ k \in Int
    BY <1>1
  <2>3. QED
    BY <2>1, <2>2, SubSeqProperties
<1>3. SubSeq(q, k + 1, Len(q)) \in Seq(S)
  <2>1. \A i \in (k + 1)..Len(q) : q[i] \in S
    BY <1>1
  <2>2. k + 1 \in Int /\ Len(q) \in Int
    BY <1>1
  <2>3. QED
    BY <2>1, <2>2, SubSeqProperties
<1>4. SubSeq(q, 1, k) \o SubSeq(q, k + 1, Len(q)) = q
  <2>1. 1 \in 1..(Len(q) + 1) /\ k \in (1 - 1)..Len(q) /\ Len(q) \in k..Len(q)
    BY <1>1
  <2>2. SubSeq(q, 1, k) \o SubSeq(q, k + 1, Len(q)) = SubSeq(q, 1, Len(q))
    BY <2>1, ConcatAdjacentSubSeq
  <2>3. QED
    BY <2>2, SubSeqFull
<1>5. PICK a : a = SubSeq(q, 1, k)
  OBVIOUS
<1>6. PICK b : b = SubSeq(q, k + 1, Len(q))
  OBVIOUS
<1>7. Total(w, a \o b) = Total(w, a) + Total(w, b)
  BY <1>2, <1>3, <1>5, <1>6, TotalOfConcat
<1>8. QED
  BY <1>2, <1>3, <1>4, <1>5, <1>6, <1>7
\* A part of a queue depends on nothing else of it.
LEMMA SubSeqSame ==
  ASSUME NEW S, NEW p, NEW q, NEW m \in Int, NEW n \in Int,
         \A j \in m..n : q[j] \in S /\ p[j] = q[j]
  PROVE  SubSeq(p, m, n) = SubSeq(q, m, n)
<1>1. PICK a : a = SubSeq(p, m, n)
  OBVIOUS
<1>2. PICK b : b = SubSeq(q, m, n)
  OBVIOUS
<1>3. \A j \in m..n : p[j] \in S
  OBVIOUS
<1>4. /\ a \in Seq(S) /\ Len(a) = IF m <= n THEN n - m + 1 ELSE 0
      /\ \A j \in 1..(n - m + 1) : a[j] = p[m + j - 1]
  BY <1>1, <1>3, SubSeqProperties
<1>5. /\ b \in Seq(S) /\ Len(b) = IF m <= n THEN n - m + 1 ELSE 0
      /\ \A j \in 1..(n - m + 1) : b[j] = q[m + j - 1]
  BY <1>2, SubSeqProperties
<1>6. Len(a) = Len(b)
  BY <1>4, <1>5
<1>7. ASSUME NEW j \in 1..Len(a)
      PROVE  a[j] = b[j]
  <2>1. j \in 1..(n - m + 1) /\ m + j - 1 \in m..n
    BY <1>4
  <2>2. a[j] = p[m + j - 1] /\ b[j] = q[m + j - 1]
    BY <1>4, <1>5, <2>1
  <2>3. QED
    BY <2>1, <2>2
<1>8. a = b
  BY <1>4, <1>5, <1>6, <1>7, SeqEqual
<1>9. QED
  BY <1>1, <1>2, <1>8

LEMMA TotalAround ==
  ASSUME NEW S, NEW w \in [S -> Nat], NEW q \in Seq(S), NEW i \in 1..Len(q)
  PROVE  /\ SubSeq(q, 1, i - 1) \in Seq(S) /\ SubSeq(q, i + 1, Len(q)) \in Seq(S)
         /\ q[i] \in S
         /\ Total(w, q) = Total(w, SubSeq(q, 1, i - 1)) + w[q[i]]
                          + Total(w, SubSeq(q, i + 1, Len(q)))
<1>1. Len(q) \in Nat /\ q[i] \in S /\ \A j \in 1..Len(q) : q[j] \in S
  BY LenProperties, ElementOfSeq
<1>2. i \in 0..Len(q)
  BY <1>1
<1>3. /\ SubSeq(q, 1, i) \in Seq(S) /\ SubSeq(q, i + 1, Len(q)) \in Seq(S)
      /\ Total(w, q) = Total(w, SubSeq(q, 1, i)) + Total(w, SubSeq(q, i + 1, Len(q)))
  BY <1>2, TotalOfParts
<1>4. SubSeq(q, 1, i - 1) \in Seq(S)
  <2>1. i - 1 \in 0..Len(q)
    BY <1>1
  <2>2. QED
    BY <2>1, TotalOfParts
<1>5. SubSeq(q, 1, i) = SubSeq(q, 1, i - 1) \o <<q[i]>>
  <2>1. 1 \in 1..Len(q) /\ i \in 1..Len(q)
    BY <1>1
  <2>2. QED
    BY <2>1, SubSeqRecursiveSecond
<1>6. Total(w, SubSeq(q, 1, i)) = Total(w, SubSeq(q, 1, i - 1)) + w[q[i]]
  <2>1. PICK a : a = SubSeq(q, 1, i - 1)
    OBVIOUS
  <2>2. PICK b : b = <<q[i]>>
    OBVIOUS
  <2>3. a \in Seq(S) /\ b \in Seq(S)
    BY <1>1, <1>4, <2>1, <2>2
  <2>4. Total(w, a \o b) = Total(w, a) + Total(w, b)
    BY <2>3, TotalOfConcat
  <2>5. Total(w, b) = w[q[i]]
    BY <1>1, <2>2, TotalOfOne
  <2>6. QED
    BY <1>5, <2>1, <2>2, <2>4, <2>5
<1>7. QED
  BY <1>1, <1>3, <1>4, <1>6

\* The sum without the head.
LEMMA TotalOfTail ==
  ASSUME NEW S, NEW w \in [S -> Nat], NEW q \in Seq(S), q # <<>>
  PROVE  Head(q) \in S /\ Tail(q) \in Seq(S) /\ Total(w, q) = w[Head(q)] + Total(w, Tail(q))
<1>1. Len(q) \in Nat /\ Len(q) # 0
  BY LenProperties, EmptySeq
<1>2. 1 \in 1..Len(q)
  BY <1>1
<1>3. /\ SubSeq(q, 1 + 1, Len(q)) \in Seq(S) /\ q[1] \in S
      /\ Total(w, q) = Total(w, SubSeq(q, 1, 1 - 1)) + w[q[1]]
                       + Total(w, SubSeq(q, 1 + 1, Len(q)))
  BY <1>2, TotalAround
<1>4. SubSeq(q, 1, 1 - 1) = <<>>
  BY SubSeqEmpty
<1>5. Tail(q) = SubSeq(q, 2, Len(q)) /\ Head(q) = q[1]
  BY TailIsSubSeq
<1>6. Total(w, <<>>) = 0
  BY TotalOfNone
<1>7. SubSeq(q, 1 + 1, Len(q)) = Tail(q)
  BY <1>5
<1>8. Total(w, Tail(q)) \in Nat /\ w[q[1]] \in Nat
  <2>1. Tail(q) \in Seq(S)
    BY <1>3, <1>7
  <2>2. QED
    BY <1>3, <2>1, TotalIn
<1>9. Total(w, q) = 0 + w[q[1]] + Total(w, Tail(q))
  BY <1>3, <1>4, <1>6, <1>7
<1>10. QED
  BY <1>3, <1>5, <1>7, <1>8, <1>9

\* The sum when the entry at i is taken out.
LEMMA TotalOfRemoval ==
  ASSUME NEW S, NEW w \in [S -> Nat], NEW q \in Seq(S), NEW i \in 1..Len(q)
  PROVE  Total(w, q) = w[q[i]] + Total(w, RemoveAt(q, i))
<1>1. PICK a : a = SubSeq(q, 1, i - 1)
  OBVIOUS
<1>2. PICK b : b = SubSeq(q, i + 1, Len(q))
  OBVIOUS
<1>3. /\ a \in Seq(S) /\ b \in Seq(S) /\ q[i] \in S
      /\ Total(w, q) = Total(w, a) + w[q[i]] + Total(w, b)
  BY <1>1, <1>2, TotalAround
<1>4. RemoveAt(q, i) = a \o b
  BY <1>1, <1>2 DEF RemoveAt
<1>5. Total(w, a \o b) = Total(w, a) + Total(w, b)
  BY <1>3, TotalOfConcat
<1>6. Total(w, a) \in Nat /\ Total(w, b) \in Nat /\ w[q[i]] \in Nat
  BY <1>3, TotalIn
<1>7. QED
  BY <1>3, <1>4, <1>5, <1>6

\* The sum when the entry at i is replaced.
LEMMA TotalOfReplacement ==
  ASSUME NEW S, NEW w \in [S -> Nat], NEW q \in Seq(S), NEW i \in 1..Len(q),
         NEW x \in S
  PROVE  Total(w, [q EXCEPT ![i] = x]) = Total(w, q) - w[q[i]] + w[x]
<1>1. PICK p : p = [q EXCEPT ![i] = x]
  OBVIOUS
<1>2. /\ Len(q) \in Nat /\ p \in Seq(S) /\ Len(p) = Len(q) /\ p[i] = x
      /\ \A j \in 1..Len(q) : j # i => p[j] = q[j]
  <2>1. p \in Seq(S) /\ Len(p) = Len(q) /\ \A j \in 1..Len(q) : p[j] = IF j = i THEN x ELSE q[j]
    BY <1>1, ExceptSeq
  <2>2. QED
    BY <2>1, LenProperties
<1>3. PICK a : a = SubSeq(q, 1, i - 1)
  OBVIOUS
<1>4. PICK b : b = SubSeq(q, i + 1, Len(q))
  OBVIOUS
<1>5. /\ a \in Seq(S) /\ b \in Seq(S) /\ q[i] \in S
      /\ Total(w, q) = Total(w, a) + w[q[i]] + Total(w, b)
  BY <1>3, <1>4, TotalAround
<1>6. SubSeq(p, 1, i - 1) = a
  <2>1. \A j \in 1..(i - 1) : q[j] \in S /\ p[j] = q[j]
    <3>1. \A j \in 1..(i - 1) : j \in 1..Len(q) /\ j # i
      BY <1>2
    <3>2. QED
      BY <1>2, <3>1, ElementOfSeq
  <2>2. 1 \in Int /\ i - 1 \in Int
    BY <1>2
  <2>3. QED
    BY <1>3, <2>1, <2>2, SubSeqSame
<1>7. SubSeq(p, i + 1, Len(p)) = b
  <2>1. \A j \in (i + 1)..Len(q) : q[j] \in S /\ p[j] = q[j]
    <3>1. \A j \in (i + 1)..Len(q) : j \in 1..Len(q) /\ j # i
      BY <1>2
    <3>2. QED
      BY <1>2, <3>1, ElementOfSeq
  <2>2. i + 1 \in Int /\ Len(q) \in Int
    BY <1>2
  <2>3. QED
    BY <1>2, <1>4, <2>1, <2>2, SubSeqSame
<1>8. Total(w, p) = Total(w, SubSeq(p, 1, i - 1)) + w[p[i]]
                    + Total(w, SubSeq(p, i + 1, Len(p)))
  BY <1>2, TotalAround
<1>9. Total(w, p) = Total(w, a) + w[x] + Total(w, b)
  BY <1>2, <1>6, <1>7, <1>8
<1>10. /\ Total(w, a) \in Nat /\ Total(w, b) \in Nat /\ w[q[i]] \in Nat
       /\ w[x] \in Nat
  BY <1>5, TotalIn
<1>11. QED
  BY <1>1, <1>5, <1>9, <1>10
-----------------------------------------------------------------------------
(* The byte counter. Each operation corrects the counter by the sizes of   *)
(* the entries it adds and drops, so the counter stays the sum of the      *)
(* sizes: a new message is in no queue, so that giving it a size changes   *)
(* no sum, an entry is only subtracted when it was queued, and the clamp   *)
(* at 0 never applies. BytesAccounted is inductive once the place of the   *)
(* messages is known, and that the entry a reliable drain holds is queued. *)

LEMMA BytesTypes ==
  ASSUME TypeInv
  PROVE  /\ size \in [Ids -> Nat] /\ queue \in [Lanes -> Seq(Ids)]
         /\ recovered \in [Lanes -> Seq(Ids)] /\ DOMAIN queuedBytes = Lanes
BY DEF TypeInv, TypeOK, LaneTypeOK, SpillTypeOK

\* What is left of a sum is not clamped.
LEMMA ClampLeft ==
  ASSUME NEW a \in Nat, NEW b \in Nat
  PROVE  Clamp((a + b) - a) = b
<1>1. (a + b) - a = b
  OBVIOUS
<1>2. QED
  BY <1>1 DEF Clamp

LEMMA WithoutBytes ==
  ASSUME TypeInv, NEW q \in Seq(Ids), NEW id
  PROVE  /\ Without(q, id) \in Seq(Ids)
         /\ Bytes(Without(q, id)) =
              IF id \in Range(q) THEN Clamp(Bytes(q) - size[id]) ELSE Bytes(q)
<1>1. Without(q, id) \in Seq(Ids)
  BY WithoutProperties
<1>2. CASE id \notin Range(q)
  BY <1>1, <1>2 DEF Without
<1>3. CASE id \in Range(q)
  <2>1. PICK i : i = Min({j \in DOMAIN q : q[j] = id})
    OBVIOUS
  <2>2. i \in 1..Len(q) /\ q[i] = id
    <3>1. {j \in DOMAIN q : q[j] = id} # {}
      BY <1>3 DEF Range
    <3>2. DOMAIN q = 1..Len(q) /\ {j \in DOMAIN q : q[j] = id} \subseteq Nat
      BY LenProperties
    <3>3. QED
      BY <3>1, <3>2, <2>1, MinIn
  <2>3. Without(q, id) = RemoveAt(q, i)
    BY <1>3, <2>1 DEF Without
  <2>4. size \in [Ids -> Nat] /\ id \in Ids
    BY <2>2, BytesTypes, ElementOfSeq
  <2>5. Total(size, q) = size[id] + Total(size, Without(q, id))
    BY <2>2, <2>3, <2>4, TotalOfRemoval
  <2>6. Total(size, Without(q, id)) \in Nat /\ size[id] \in Nat
    BY <1>1, <2>4, TotalIn
  <2>7. Clamp(Total(size, q) - size[id]) = Total(size, Without(q, id))
    BY <2>5, <2>6, ClampLeft
  <2>8. QED
    BY <1>1, <1>3, <2>7 DEF Bytes
<1>4. QED
  BY <1>2, <1>3

\* A number that a queue does not hold can be given any size.
LEMMA SizeOfFresh ==
  ASSUME TypeInv, NEW q \in Seq(Ids), NEW id, id \notin Range(q),
         NEW w \in [Ids -> Nat], \A x \in Ids : x # id => w[x] = size[x]
  PROVE  Total(w, q) = Bytes(q)
<1>1. size \in [Ids -> Nat]
  BY BytesTypes
<1>2. \A i \in 1..Len(q) : q[i] \in Ids /\ q[i] # id
  BY ElementOfSeq, LenProperties DEF Range
<1>3. \A i \in 1..Len(q) : w[q[i]] = size[q[i]]
  BY <1>2
<1>4. Total(w, q) = Total(size, q)
  BY <1>1, <1>3, TotalSame
<1>5. QED
  BY <1>4 DEF Bytes

\* dropOldestUntilFits counts what it leaves.
LEMMA DropBytes ==
  ASSUME TypeInv, NEW k \in Lanes, NEW n, queuedBytes[k] = Bytes(queue[k])
  PROVE  BytesWithoutOldest(k, DropCount(k, n)) = Bytes(AfterDrop(k, n))
<1>1. queue[k] \in Seq(Ids) /\ size \in [Ids -> Nat]
  BY BytesTypes
<1>2. PICK d : d = DropCount(k, n)
  OBVIOUS
<1>3. d \in 0..Len(queue[k])
  BY <1>1, <1>2, DropCountIn
<1>4. PICK a : a = SubSeq(queue[k], 1, d)
  OBVIOUS
<1>5. PICK b : b = SubSeq(queue[k], d + 1, Len(queue[k]))
  OBVIOUS
<1>6. /\ a \in Seq(Ids) /\ b \in Seq(Ids)
      /\ Total(size, queue[k]) = Total(size, a) + Total(size, b)
  BY <1>1, <1>3, <1>4, <1>5, TotalOfParts
<1>7. Total(size, a) \in Nat /\ Total(size, b) \in Nat
  BY <1>1, <1>6, TotalIn
<1>8. Clamp(Total(size, queue[k]) - Total(size, a)) = Total(size, b)
  BY <1>6, <1>7, ClampLeft
<1>9. BytesWithoutOldest(k, d) = Clamp(Total(size, queue[k]) - Total(size, a))
  BY <1>4 DEF BytesWithoutOldest, Bytes
<1>10. AfterDrop(k, n) = b
  BY <1>2, <1>5 DEF AfterDrop
<1>11. QED
  BY <1>2, <1>8, <1>9, <1>10 DEF Bytes
\* What enqueue makes of the counter is the sum of what it makes of the queue.
LEMMA EnqueueBytes ==
  ASSUME TypeInv, NEW k \in Lanes, NEW n \in Nat, NEW id \in Ids,
         id \notin Range(queue[k]), queuedBytes[k] = Bytes(queue[k]),
         NEW w \in [Ids -> Nat], w[id] = n, \A x \in Ids : x # id => w[x] = size[x]
  PROVE  BytesAfter(k, n) = Total(w, QueueAfter(k, id, n))
<1>1. queue[k] \in Seq(Ids) /\ size \in [Ids -> Nat]
  BY BytesTypes
<1>2. Total(w, queue[k]) = queuedBytes[k] /\ Total(w, queue[k]) \in Nat
  BY <1>1, SizeOfFresh, TotalIn
<1>3. Total(w, <<id>>) = n
  BY <1>1, TotalOfOne
<1>4. \A q \in Seq(Ids) : Total(w, Append(q, id)) = Total(w, q) + n
  <2>1. TAKE q \in Seq(Ids)
  <2>2. Append(q, id) = q \o <<id>>
    BY AppendIsConcat
  <2>3. PICK one : one = <<id>>
    OBVIOUS
  <2>4. one \in Seq(Ids)
    BY <2>3
  <2>5. Total(w, q \o one) = Total(w, q) + Total(w, one)
    BY <1>1, <2>4, TotalOfConcat
  <2>6. QED
    BY <1>3, <2>2, <2>3, <2>5
<1>5. PICK status : status = EnqueueStatus(k, n)
  OBVIOUS
<1>6. CASE status = "ACCEPTED"
  <2>1. /\ QueueAfter(k, id, n) = Append(queue[k], id)
        /\ BytesAfter(k, n) = queuedBytes[k] + n
    BY <1>5, <1>6 DEF QueueAfter, BytesAfter
  <2>2. QED
    BY <1>1, <1>2, <1>4, <2>1
<1>7. CASE status = "REPLACED_SNAPSHOT"
  <2>1. QueueAfter(k, id, n) = <<id>> /\ BytesAfter(k, n) = n
    BY <1>5, <1>7 DEF QueueAfter, BytesAfter
  <2>2. QED
    BY <1>3, <2>1
<1>8. CASE status = "COALESCED"
  <2>1. PICK i : i = Max(Coalescable(k))
    OBVIOUS
  <2>2. /\ QueueAfter(k, id, n) = [queue[k] EXCEPT ![i] = id]
        /\ BytesAfter(k, n) = queuedBytes[k] - size[queue[k][i]] + n
    BY <1>5, <1>8, <2>1 DEF QueueAfter, BytesAfter, BytesIfCoalesced
  <2>3. i \in 1..Len(queue[k])
    <3>1. Coalescable(k) # {}
      BY <1>5, <1>8 DEF EnqueueStatus, Coalesces
    <3>2. Coalescable(k) \subseteq 1..Len(queue[k]) /\ Len(queue[k]) \in Nat
      BY <1>1, LenProperties DEF Coalescable, Unsent
    <3>3. QED
      BY <2>1, <3>1, <3>2, MaxIn
  <2>4. queue[k][i] \in Ids /\ queue[k][i] # id
    <3>1. queue[k][i] \in Ids
      BY <1>1, <2>3, ElementOfSeq
    <3>2. queue[k][i] \in Range(queue[k])
      BY <1>1, <2>3, LenProperties DEF Range
    <3>3. QED
      BY <3>1, <3>2
  <2>5. Total(w, [queue[k] EXCEPT ![i] = id]) =
          Total(w, queue[k]) - w[queue[k][i]] + w[id]
    <3>1. PICK q : q = queue[k]
      OBVIOUS
    <3>2. q \in Seq(Ids) /\ i \in 1..Len(q)
      BY <1>1, <2>3, <3>1
    <3>3. Total(w, [q EXCEPT ![i] = id]) = Total(w, q) - w[q[i]] + w[id]
      BY <3>2, TotalOfReplacement
    <3>4. QED
      BY <3>1, <3>3
  <2>6. w[queue[k][i]] = size[queue[k][i]]
    BY <1>1, <2>4
  <2>7. QED
    BY <1>1, <1>2, <2>2, <2>5, <2>6
<1>9. CASE status = "DROPPED_OLDEST_AND_ACCEPTED"
  <2>1. PICK rest : rest = AfterDrop(k, n)
    OBVIOUS
  <2>2. /\ QueueAfter(k, id, n) = Append(rest, id)
        /\ BytesAfter(k, n) = BytesWithoutOldest(k, DropCount(k, n)) + n
    BY <1>5, <1>9, <2>1 DEF QueueAfter, BytesAfter
  <2>3. rest \in Seq(Ids) /\ id \notin Range(rest)
    <3>1. /\ DropCount(k, n) \in 0..Len(queue[k])
          /\ rest = SubSeq(queue[k], DropCount(k, n) + 1, Len(queue[k]))
      BY <1>1, <2>1, DropCountIn DEF AfterDrop
    <3>2. rest \in Seq(Ids) /\ Range(rest) \subseteq Range(queue[k])
      BY <1>1, <2>1, AfterDropType, <3>1, SuffixApart
    <3>3. QED
      BY <3>2
  <2>4. BytesWithoutOldest(k, DropCount(k, n)) = Bytes(rest)
    BY <2>1, DropBytes
  <2>5. Total(w, rest) = Bytes(rest)
    BY <2>3, SizeOfFresh
  <2>6. Total(w, Append(rest, id)) = Total(w, rest) + n
    BY <1>4, <2>3
  <2>7. QED
    BY <2>2, <2>4, <2>5, <2>6
<1>10. CASE status \notin {"ACCEPTED", "REPLACED_SNAPSHOT", "COALESCED",
                           "DROPPED_OLDEST_AND_ACCEPTED"}
  <2>1. QueueAfter(k, id, n) = queue[k] /\ BytesAfter(k, n) = queuedBytes[k]
    BY <1>5, <1>10 DEF QueueAfter, BytesAfter
  <2>2. QED
    BY <1>2, <2>1
<1>11. QED
  BY <1>6, <1>7, <1>8, <1>9, <1>10

LEMMA DeliverBytes ==
  ASSUME TypeInv, PlaceInv, BytesAccounted, NEW S \in SUBSET Lanes, NEW n \in Sizes,
         Deliver(S, n)
  PROVE  BytesAccounted'
<1>1. PICK id : id = nextSequence
  OBVIOUS
<1>2. id \in Ids /\ EnqueueAll(S, id, n)
  BY <1>1 DEF Deliver
<1>3. n \in Nat
  BY InstanceAssumption
<1>4. /\ size' \in [Ids -> Nat] /\ size'[id] = n
      /\ \A x \in Ids : x # id => size'[x] = size[x]
  BY <1>2, <1>3, BytesTypes DEF EnqueueAll
<1>5. ASSUME NEW k \in Lanes
      PROVE  queuedBytes'[k] = Total(size', queue'[k])
  <2>1. queue[k] \in Seq(Ids) /\ queuedBytes[k] = Bytes(queue[k])
    BY BytesTypes DEF BytesAccounted
  <2>2. id \notin Range(queue[k])
    <3>1. \A x \in Range(queue[k]) : x < id /\ x \in Ids
      BY <1>1, PlaceTypes DEF PlaceInv, LanePlaced
    <3>2. id \in Nat /\ ~ (id < id)
      BY <1>2 DEF Ids
    <3>3. QED
      BY <3>1, <3>2
  <2>3. CASE k \in S
    <3>1. queue'[k] = QueueAfter(k, id, n) /\ queuedBytes'[k] = BytesAfter(k, n)
      BY <1>2, <2>3 DEF EnqueueAll
    <3>2. BytesAfter(k, n) = Total(size', QueueAfter(k, id, n))
      BY <1>2, <1>3, <1>4, <2>1, <2>2, EnqueueBytes
    <3>3. QED
      BY <3>1, <3>2
  <2>4. CASE k \notin S
    <3>1. queue'[k] = queue[k] /\ queuedBytes'[k] = queuedBytes[k]
      BY <1>2, <2>4 DEF EnqueueAll
    <3>2. Total(size', queue[k]) = Bytes(queue[k])
      BY <1>2, <1>3, <1>4, <2>1, <2>2, SizeOfFresh
    <3>3. QED
      BY <2>1, <3>1, <3>2
  <2>5. QED
    BY <2>3, <2>4
<1>6. QED
  BY <1>5 DEF BytesAccounted, Bytes

LEMMA RemoveBytes ==
  ASSUME TypeInv, BytesAccounted, NEW l \in Lanes, NEW id, RemoveByMessageId(l, id)
  PROVE  BytesAccounted'
<1>1. PICK b : b = IF id \in Range(queue[l]) THEN Clamp(queuedBytes[l] - size[id])
                                             ELSE queuedBytes[l]
  OBVIOUS
<1>2. /\ queue' = [queue EXCEPT ![l] = Without(@, id)]
      /\ queuedBytes' = [queuedBytes EXCEPT ![l] = b]
      /\ size' = size
  BY <1>1 DEF RemoveByMessageId
<1>3. Bytes(Without(queue[l], id)) = b
  <2>1. queue[l] \in Seq(Ids) /\ queuedBytes[l] = Bytes(queue[l])
    BY BytesTypes DEF BytesAccounted
  <2>2. QED
    BY <1>1, <2>1, WithoutBytes
<1>4. ASSUME NEW k \in Lanes
      PROVE  queuedBytes'[k] = Total(size', queue'[k])
  <2>1. CASE k = l
    BY <1>2, <1>3, <2>1, BytesTypes DEF Bytes
  <2>2. CASE k # l
    BY <1>2, <2>2, BytesTypes DEF BytesAccounted, Bytes
  <2>3. QED
    BY <2>1, <2>2
<1>5. QED
  BY <1>4 DEF BytesAccounted, Bytes

\* The step of a drain keeps the sum of the queue it looked at.
LEMMA LaneSetBytes ==
  ASSUME TypeInv, BytesAccounted, NEW l \in Lanes, NEW q, NEW b, b = Bytes(q),
         queue' = [queue EXCEPT ![l] = q],
         queuedBytes' = [queuedBytes EXCEPT ![l] = b], UNCHANGED size
  PROVE  BytesAccounted'
<1>1. ASSUME NEW k \in Lanes
      PROVE  queuedBytes'[k] = Total(size', queue'[k])
  <2>1. CASE k = l
    BY <2>1, BytesTypes DEF Bytes
  <2>2. CASE k # l
    BY <2>2, BytesTypes DEF BytesAccounted, Bytes
  <2>3. QED
    BY <2>1, <2>2
<1>2. QED
  BY <1>1 DEF BytesAccounted, Bytes

LEMMA TakeNextBytes ==
  ASSUME TypeInv, BytesAccounted, NEW l \in Lanes, NEW q \in Seq(Ids), NEW bytes,
         bytes = Bytes(q), NEW flagged, TakeNext(l, q, bytes, flagged), UNCHANGED size
  PROVE  BytesAccounted'
<1>1. CASE Reliable
  BY <1>1, LaneSetBytes DEF TakeNext
<1>2. CASE ~Reliable
  <2>1. /\ queue' = [queue EXCEPT ![l] = Tail(q)]
        /\ queuedBytes' = [queuedBytes EXCEPT ![l] = Clamp(bytes - size[Head(q)])]
        /\ DOMAIN q # {}
    BY <1>2 DEF TakeNext, Entries
  <2>2. q # <<>> /\ size \in [Ids -> Nat]
    BY <2>1, BytesTypes
  <2>3. /\ Head(q) \in Ids /\ Tail(q) \in Seq(Ids)
        /\ Total(size, q) = size[Head(q)] + Total(size, Tail(q))
    BY <2>2, TotalOfTail
  <2>4. size[Head(q)] \in Nat /\ Total(size, Tail(q)) \in Nat
    BY <2>2, <2>3, TotalIn
  <2>5. Clamp(bytes - size[Head(q)]) = Bytes(Tail(q))
    BY <2>3, <2>4, ClampLeft DEF Bytes
  <2>6. QED
    BY <2>1, <2>5, LaneSetBytes
<1>3. QED
  BY <1>1, <1>2

LEMMA LoopHeadBytes ==
  ASSUME TypeInv, BytesAccounted, NEW l \in Lanes, NEW q \in Seq(Ids), NEW bytes,
         bytes = Bytes(q), NEW flagged, LoopHead(l, q, bytes, flagged), UNCHANGED size
  PROVE  BytesAccounted'
<1>1. CASE TakeNext(l, q, bytes, flagged)
  BY <1>1, TakeNextBytes
<1>2. CASE \E stage : Stay(l, q, bytes, stage)
  BY <1>2, LaneSetBytes DEF Stay
<1>3. QED
  BY <1>1, <1>2 DEF LoopHead

LEMMA DrainStepBytes ==
  ASSUME TypeInv, AgreeInv, BytesAccounted, NEW l \in Lanes, DrainStep(l)
  PROVE  BytesAccounted'
<1>1. /\ queue[l] \in Seq(Ids) /\ recovered[l] \in Seq(Ids)
      /\ size \in [Ids -> Nat] /\ queuedBytes[l] = Bytes(queue[l])
  BY BytesTypes DEF BytesAccounted
<1>2. CASE DrainStart(l) \/ SendHeld(l)
  <2>1. PICK flagged : LoopHead(l, queue[l], queuedBytes[l], flagged)
    BY <1>2 DEF DrainStart, SendHeld
  <2>2. UNCHANGED size
    BY <1>2 DEF DrainStart, SendHeld
  <2>3. QED
    BY <1>1, <2>1, <2>2, LoopHeadBytes
<1>3. CASE SendHeldFails(l)
  <2>1. held[l] \in Range(queue[l])
    BY <1>3 DEF SendHeldFails, AgreeInv, LaneAgrees
  <2>2. PICK q, bytes, flagged :
          /\ q = Without(queue[l], held[l])
          /\ bytes = Clamp(queuedBytes[l] - size[held[l]])
          /\ LoopHead(l, q, bytes, flagged)
    BY <1>3 DEF SendHeldFails
  <2>3. q \in Seq(Ids) /\ bytes = Bytes(q)
    BY <1>1, <2>1, <2>2, WithoutBytes
  <2>4. UNCHANGED size
    BY <1>3 DEF SendHeldFails
  <2>5. QED
    BY <2>2, <2>3, <2>4, LoopHeadBytes
<1>4. CASE Refill(l)
  <2>1. PICK q, bytes :
          /\ q = queue[l] \o recovered[l]
          /\ bytes = queuedBytes[l] + Bytes(recovered[l])
          /\ \/ TakeNext(l, q, bytes, awaiting[l])
             \/ Stay(l, q, bytes, "ending")
    BY <1>4 DEF Refill, Refilled
  <2>2. q \in Seq(Ids)
    BY <1>1, <2>1, ConcatProperties
  <2>3. Total(size, q) = Total(size, queue[l]) + Total(size, recovered[l])
    BY <1>1, <2>1, TotalOfConcat
  <2>4. bytes = Bytes(q)
    BY <1>1, <2>1, <2>3 DEF Bytes
  <2>5. UNCHANGED size
    BY <1>4 DEF Refill
  <2>6. CASE TakeNext(l, q, bytes, awaiting[l])
    BY <2>2, <2>4, <2>5, <2>6, TakeNextBytes
  <2>7. CASE Stay(l, q, bytes, "ending")
    BY <2>4, <2>5, <2>7, LaneSetBytes DEF Stay
  <2>8. QED
    BY <2>1, <2>6, <2>7
<1>5. CASE DrainEnd(l)
  BY <1>5 DEF DrainEnd, laneVars, BytesAccounted, Bytes
<1>6. QED
  BY <1>2, <1>3, <1>4, <1>5 DEF DrainStep

LEMMA InitBytes == Init => BytesAccounted
<1>1. ASSUME Init, NEW k \in Lanes
      PROVE  queuedBytes[k] = Bytes(queue[k])
  <2>1. queue[k] = <<>> /\ queuedBytes[k] = 0 /\ size \in [Ids -> Nat]
    BY <1>1 DEF Init, LaneInit
  <2>2. QED
    BY <2>1, TotalOfNone DEF Bytes
<1>2. QED
  BY <1>1 DEF BytesAccounted

LEMMA NextBytes ==
  ASSUME TypeInv, PlaceInv, AgreeInv, BytesAccounted, [Next]_vars
  PROVE  BytesAccounted'
<1>1. CASE UNCHANGED <<size, queue, queuedBytes>>
  BY <1>1 DEF BytesAccounted, Bytes
<1>2. CASE SocketEvent
  <2>1. ASSUME NEW l \in Lanes, NEW id \in Ids, Ack(l, id)
        PROVE  BytesAccounted'
    BY <2>1, RemoveBytes DEF Ack
  <2>2. QED
    BY <1>1, <1>2, <2>1
       DEF SocketEvent, Connect, Disconnect, Stop, Leave, Subscribe, Unsubscribe,
           laneVars
<1>3. CASE Publication
  BY <1>3, PublicationIsDelivery, DeliverBytes
<1>4. CASE Retrying
  <2>1. ASSUME NEW d \in decisions, HandleDecision(d)
        PROVE  BytesAccounted'
    <3>1. CASE UNCHANGED laneVars
      BY <1>1, <3>1 DEF laneVars
    <3>2. CASE RemoveByMessageId(d.lane, d.id) /\ d.lane \in Lanes
      BY <3>2, RemoveBytes
    <3>3. d.lane \in Lanes
      BY <2>1 DEF TypeInv, TypeOK, AckTypeOK, Decision
    <3>4. QED
      BY <2>1, <3>1, <3>2, <3>3 DEF HandleDecision, HandleRetry, HandleExhausted
  <2>2. ASSUME NEW expired \in SUBSET Tracked, RetryTick(expired)
        PROVE  BytesAccounted'
    BY <1>1, <2>2 DEF RetryTick
  <2>3. QED
    BY <1>4, <2>1, <2>2 DEF Retrying
<1>5. ASSUME NEW l \in Lanes, DrainStep(l)
      PROVE  BytesAccounted'
  BY <1>5, DrainStepBytes
<1>6. ASSUME NEW l \in Lanes, FileEvent(l)
      PROVE  BytesAccounted'
  <2>1. UNCHANGED laneVars
    BY <1>6, FileEventIsOperation
  <2>2. QED
    BY <1>1, <2>1 DEF laneVars
<1>7. CASE UNCHANGED vars
  BY <1>1, <1>7 DEF vars, laneVars
<1>8. QED
  BY <1>2, <1>3, <1>4, <1>5, <1>6, <1>7 DEF Next

\* The byte counter that fits() decides by is the sum of the sizes of the
\* queued messages, whatever is enqueued, coalesced, dropped, sent, acked,
\* given up or refilled, and for any sizes: no clamp ever hides a drift.
THEOREM BytesAreAccounted == Spec => []BytesAccounted
<1>1. TypeInv /\ PlaceInv /\ AgreeInv /\ BytesAccounted /\ [Next]_vars => BytesAccounted'
  BY NextBytes
<1>2. QED
  BY <1>1, InitBytes, TypeInvariant, PlaceInvariant, AgreeInvariant, PTL DEF Spec
=============================================================================
