--------------------------- MODULE ContractProofs ---------------------------
(***************************************************************************)
(* What the policies promise, and that TopicDispatcher implements          *)
(* DeliveryContract. The policies that keep everything lose nothing of     *)
(* what they accept, the others keep the newest message, and those that    *)
(* coalesce or keep snapshots build no backlog. A lane that never spills   *)
(* transmits its messages for the first time in the order of their         *)
(* publication. What a lane stores was accepted, and a BEST_EFFORT lane    *)
(* stores nothing that it has sent; with this, every action is one step of *)
(* the contract or leaves all that the contract sees as it is: a           *)
(* publication accepts a message, perhaps in place of waiting ones, a      *)
(* drain sends one within its budget, an ack or an exhausted budget        *)
(* settles one that was sent, and a failed write or the end of a client    *)
(* drops some.                                                             *)
(***************************************************************************)
EXTENDS PlaceProofs

-----------------------------------------------------------------------------
(* Nothing is lost.                                                        *)

Sent(k) == {id \in Ids : attempts[k][id] > 0}

\* What the tracker holds, or has decided about, was sent: what an ack or an
\* exhausted retry budget takes from a lane is no loss.
SentInv ==
  /\ \A k \in Lanes : pending[k] \subseteq Sent(k)
  /\ \A d \in decisions : d.id \in Sent(d.lane)

\* The policies that promise to keep what they accept.
Keeping == (Spilling \/ Overflow("REJECT_NEW")) /\ ~Coalesce

\* What the lane of a client that has not left accepted was sent, is stored, or
\* could not be written.
LaneKeeps(k) ==
  session[k[1]] # "closed" => accepted[k] \subseteq Sent(k) \cup Stored(k) \cup lost[k]

KeepInv == Keeping => \A k \in Lanes : LaneKeeps(k)

LEMMA SentGrows ==
  ASSUME TypeInv, [Next]_vars, NEW k \in Lanes
  PROVE  Sent(k) \subseteq Sent(k)'
<1>1. attempts \in [Lanes -> [Ids -> Nat]]
  BY DEF TypeInv, TypeOK
<1>2. CASE UNCHANGED attempts
  BY <1>2 DEF Sent
<1>3. ASSUME NEW l \in Lanes, attempts' = [attempts EXCEPT ![l][held[l]] = @ + 1]
      PROVE  Sent(k) \subseteq Sent(k)'
  <2>1. ASSUME NEW id \in Ids, attempts[k][id] > 0
        PROVE  attempts'[k][id] > 0
    <3>1. attempts'[k][id] \in {attempts[k][id], attempts[k][id] + 1}
      BY <1>1, <1>3
    <3>2. QED
      BY <1>1, <2>1, <3>1
  <2>2. QED
    BY <2>1 DEF Sent
<1>4. QED
  BY <1>2, <1>3, OnlyDrainsSend

\* The entry that a drain held is sent when its step is over.
LEMMA HeldIsSent ==
  ASSUME TypeInv, NEW l \in Lanes, drain[l] = "holding", Attempt(l, held[l])
  PROVE  held[l] \in Sent(l)'
<1>1. held[l] \in Ids /\ attempts \in [Lanes -> [Ids -> Nat]]
  BY DEF TypeInv, TypeOK, HeldIsMessage
<1>2. attempts'[l][held[l]] = attempts[l][held[l]] + 1 /\ attempts[l][held[l]] \in Nat
  BY <1>1 DEF Attempt
<1>3. QED
  BY <1>1, <1>2 DEF Sent

LEMMA NextSent ==
  ASSUME TypeInv, SentInv, [Next]_vars
  PROVE  SentInv'
<1>1. ASSUME \A k \in Lanes : pending'[k] \subseteq pending[k] \cup Sent(k)',
             decisions' \subseteq decisions
      PROVE  SentInv'
  <2>1. \A d \in decisions : d.lane \in Lanes
    BY DEF TypeInv, TypeOK, AckTypeOK, Decision
  <2>2. QED
    BY <1>1, <2>1, SentGrows DEF SentInv
<1>2. pending \in [Lanes -> SUBSET Ids]
  BY DEF TypeInv, TypeOK, AckTypeOK
<1>3. CASE SocketEvent
  <2>1. UNCHANGED decisions /\ \A k \in Lanes : pending'[k] \subseteq pending[k]
    BY <1>2, <1>3
       DEF SocketEvent, Connect, Disconnect, Stop, Leave, Subscribe, Unsubscribe,
           Ack, Acknowledge, RemoveLanes, ackVars
  <2>2. QED
    BY <1>1, <2>1
<1>4. CASE Publication
  BY <1>1, <1>4, PublicationIsDelivery DEF Deliver, ackVars
<1>5. ASSUME NEW expired \in SUBSET Tracked, RetryTick(expired)
      PROVE  SentInv'
  <2>1. UNCHANGED attempts /\ \A k \in Lanes : pending'[k] \subseteq pending[k]
    BY <1>5 DEF RetryTick, Expire
  <2>2. \A p \in expired : p[1] \in Lanes /\ p[2] \in pending[p[1]]
    BY DEF Tracked
  <2>3. \A d \in decisions' : \E p \in expired : d.lane = p[1] /\ d.id = p[2]
    BY <1>5 DEF RetryTick, Expire
  <2>4. QED
    BY <2>1, <2>2, <2>3 DEF SentInv, Sent
<1>6. ASSUME NEW d \in decisions, HandleDecision(d)
      PROVE  SentInv'
  BY <1>1, <1>6 DEF HandleDecision, Handled
<1>7. ASSUME NEW l \in Lanes, DrainStep(l)
      PROVE  SentInv'
  <2>1. CASE SendHeld(l) /\ Reliable
    <3>1. Attempt(l, held[l]) /\ Register(l, held[l]) /\ drain[l] = "holding"
      BY <2>1 DEF SendHeld
    <3>2. QED
      BY <1>1, <1>2, <3>1, HeldIsSent DEF Register
  <2>2. CASE SendHeldFails(l)
    BY <1>1, <1>2, <2>2 DEF SendHeldFails, Acknowledge
  <2>3. CASE ~(SendHeld(l) /\ Reliable) /\ ~SendHeldFails(l)
    BY <1>1, <1>7, <2>3 DEF DrainStep, DrainStart, SendHeld, Refill, DrainEnd, ackVars
  <2>4. QED
    BY <2>1, <2>2, <2>3
<1>8. ASSUME NEW l \in Lanes, FileEvent(l)
      PROVE  SentInv'
  BY <1>1, <1>8, FileEventIsOperation DEF ackVars
<1>9. CASE UNCHANGED vars
  BY <1>1, <1>9 DEF vars, ackVars
<1>10. QED
  BY <1>3, <1>4, <1>5, <1>6, <1>7, <1>8, <1>9 DEF Next, Retrying

\* What the tracker holds, or has decided about, was handed to the socket.
THEOREM SentInvariant == Spec => []SentInv
<1>1. Init => SentInv
  BY DEF Init, AckInit, SentInv
<1>2. TypeInv /\ SentInv /\ [Next]_vars => SentInv'
  BY NextSent
<1>3. QED
  BY <1>1, <1>2, TypeInvariant, PTL DEF Spec

-----------------------------------------------------------------------------
\* A step that takes from the places of the lane k only what was sent or
\* failed to be written, and stores what it accepts.
KeepsLane(k) ==
  /\ Stored(k) \subseteq Sent(k)' \cup Stored(k)' \cup lost'[k]
  /\ lost[k] \subseteq lost'[k]
  /\ accepted'[k] \subseteq accepted[k] \cup Stored(k)'

LEMMA KeepsLaneKeeps ==
  ASSUME TypeInv, [Next]_vars, NEW k \in Lanes, LaneKeeps(k), KeepsLane(k),
         session'[k[1]] # "closed" => session[k[1]] # "closed"
  PROVE  LaneKeeps(k)'
BY SentGrows DEF KeepsLane, LaneKeeps

\* Steps that leave the places of a lane alone, or schedule its drain.
LEMMA PlacesKept ==
  ASSUME NEW k \in Lanes, queue'[k] = queue[k], recovered'[k] = recovered[k],
         writing'[k] = writing[k], files'[k] = files[k], lost'[k] = lost[k],
         drain[k] = "holding" => drain'[k] = "holding" /\ held'[k] = held[k],
         accepted'[k] = accepted[k]
  PROVE  KeepsLane(k)
BY DEF KeepsLane, Stored, OnDisk

LEMMA ScheduleHolds ==
  ASSUME NEW S, ScheduleDrain(S), NEW k \in Lanes
  PROVE  drain[k] = "holding" => drain'[k] = "holding" /\ held'[k] = held[k]
BY DEF ScheduleDrain

\* An ack, or an exhausted budget, takes from the queue what was sent.
LEMMA RemovalKeeps ==
  ASSUME TypeInv, PlaceInv, NEW k \in Lanes, NEW id \in Sent(k),
         queue'[k] = Without(queue[k], id), UNCHANGED <<spillVars, accepted, attempts>>,
         drain[k] = "holding" => drain'[k] = "holding" /\ held'[k] = held[k]
  PROVE  KeepsLane(k)
<1>1. Range(queue'[k]) = Range(queue[k]) \ {id}
  BY PlaceTypes, WithoutApart DEF PlaceInv, LanePlaced
<1>2. QED
  BY <1>1 DEF KeepsLane, Stored, OnDisk, Sent, spillVars

LEMMA EventKeepsLane ==
  ASSUME TypeInv, PlaceInv, SentInv, SocketEvent \/ Retrying, NEW k \in Lanes
  PROVE  /\ KeepsLane(k) /\ UNCHANGED policy
         /\ session'[k[1]] # "closed" => session[k[1]] # "closed"
<1>1. /\ queue \in [Lanes -> Seq(Ids)]
      /\ session \in [Clients -> {"absent", "open", "closed"}] /\ k[1] \in Clients
  BY DEF TypeInv, TypeOK, LaneTypeOK, Lanes
<1>2. ASSUME (\E c \in Clients : Connect(c)) \/ \E S \in SUBSET Clients : Leave(S)
      PROVE  /\ KeepsLane(k) /\ UNCHANGED policy
             /\ session'[k[1]] # "closed" => session[k[1]] # "closed"
  <2>1. UNCHANGED <<laneVars, drainVars, accepted, policy, recovered, writing, files, lost>>
    BY <1>2 DEF Connect, Leave, StartClears, spillVars
  <2>2. KeepsLane(k)
    BY <2>1, PlacesKept DEF laneVars, drainVars
  <2>3. QED
    BY <1>1, <1>2, <2>1, <2>2, LeaveSession DEF Connect
<1>3. ASSUME NEW c \in Clients, NEW t \in Topics, Subscribe(c, t) \/ Unsubscribe(c, t)
      PROVE  KeepsLane(k) /\ UNCHANGED <<policy, session>>
  <2>1. UNCHANGED <<laneVars, drainVars, accepted, spillVars, policy, session>>
    BY <1>3 DEF Subscribe, Unsubscribe
  <2>2. QED
    BY <2>1, PlacesKept DEF laneVars, drainVars, spillVars
<1>4. ASSUME NEW l \in Lanes, NEW id \in Ids, Ack(l, id)
      PROVE  KeepsLane(k) /\ UNCHANGED <<policy, session>>
  <2>1. /\ queue' = [queue EXCEPT ![l] = Without(@, id)] /\ id \in Sent(l)
        /\ UNCHANGED <<spillVars, policy, session, attempts, accepted>>
    BY <1>4 DEF Ack, RemoveByMessageId, registryVars, Sent
  <2>2. drain[k] = "holding" => drain'[k] = "holding" /\ held'[k] = held[k]
    BY <1>4, ScheduleHolds DEF Ack
  <2>3. CASE k = l
    BY <1>1, <2>1, <2>2, <2>3, RemovalKeeps
  <2>4. CASE k # l
    BY <1>1, <2>1, <2>2, <2>4, PlacesKept DEF spillVars
  <2>5. QED
    BY <2>1, <2>3, <2>4
<1>5. ASSUME NEW expired \in SUBSET Tracked, RetryTick(expired)
      PROVE  KeepsLane(k) /\ UNCHANGED <<policy, session>>
  BY <1>5, PlacesKept DEF RetryTick, registryVars, spillVars, drainVars
<1>6. ASSUME NEW d \in decisions, HandleDecision(d)
      PROVE  KeepsLane(k) /\ UNCHANGED <<policy, session>>
  <2>1. UNCHANGED <<spillVars, policy, session, attempts, accepted>>
    BY <1>6 DEF HandleDecision, registryVars
  <2>2. drain[k] = "holding" => drain'[k] = "holding" /\ held'[k] = held[k]
    BY <1>6, ScheduleHolds DEF HandleDecision, HandleRetry, HandleExhausted, drainVars
  <2>3. \/ queue'[k] = queue[k]
        \/ k = d.lane /\ queue'[k] = Without(queue[k], d.id)
    BY <1>1, <1>6, HandleDecisionLane
  <2>4. CASE queue'[k] = queue[k]
    BY <2>1, <2>2, <2>4, PlacesKept DEF spillVars
  <2>5. CASE k = d.lane /\ queue'[k] = Without(queue[k], d.id)
    BY <2>1, <2>2, <2>5, RemovalKeeps DEF SentInv
  <2>6. QED
    BY <2>1, <2>3, <2>4, <2>5
<1>7. QED
  BY <1>2, <1>3, <1>4, <1>5, <1>6, DepartureLeaves DEF SocketEvent, Retrying

\* What such a policy accepts is stored, and nothing makes way for it.
LEMMA EnqueueKeeps ==
  ASSUME Keeping, NEW k \in Lanes, NEW n, NEW id \in Ids, queue[k] \in Seq(Ids)
  PROVE  /\ Range(queue[k]) \subseteq Range(QueueAfter(k, id, n))
         /\ \/ EnqueueStatus(k, n) = "REJECTED"
            \/ EnqueueStatus(k, n) = "SPILLED"
            \/ id \in Range(QueueAfter(k, id, n))
<1>1. ~Coalesces(k, n)
  BY DEF Keeping, Coalesces, Coalescable
<1>2. ~Overflow("SNAPSHOT_ONLY") /\ ~Overflow("DROP_OLDEST")
  BY DEF Keeping, Spilling, Overflow
<1>3. EnqueueStatus(k, n) \in {"REJECTED", "SPILLED", "ACCEPTED"}
  BY <1>1, <1>2 DEF EnqueueStatus
<1>4. CASE EnqueueStatus(k, n) = "ACCEPTED"
  <2>1. QueueAfter(k, id, n) = Append(queue[k], id)
    BY <1>4 DEF QueueAfter
  <2>2. QED
    BY <2>1, AppendFresh
<1>5. CASE EnqueueStatus(k, n) \in {"REJECTED", "SPILLED"}
  <2>1. QueueAfter(k, id, n) = queue[k]
    BY <1>5 DEF QueueAfter
  <2>2. QED
    BY <1>5, <2>1
<1>6. QED
  BY <1>3, <1>4, <1>5

LEMMA DeliverKeepsLane ==
  ASSUME TypeInv, Keeping, NEW S \in SUBSET Lanes, NEW n \in Sizes, Deliver(S, n),
         NEW k \in Lanes
  PROVE  KeepsLane(k)
<1>1. PICK id : id = nextSequence
  OBVIOUS
<1>2. /\ id \in Ids /\ UNCHANGED <<files, lost, recovered>>
      /\ queue' = [l \in Lanes |-> IF l \in S THEN QueueAfter(l, id, n)
                                              ELSE queue[l]]
      /\ writing' = [l \in Lanes |->
           IF l \in {m \in S : EnqueueStatus(m, n) = "SPILLED"}
             THEN writing[l] \cup {id} ELSE writing[l]]
      /\ accepted' = [l \in Lanes |->
           IF l \in S \ {m \in S : EnqueueStatus(m, n) = "REJECTED"}
             THEN accepted[l] \cup {id} ELSE accepted[l]]
  BY <1>1 DEF Deliver, EnqueueAll, SpillAll
<1>3. drain[k] = "holding" => drain'[k] = "holding" /\ held'[k] = held[k]
  BY ScheduleHolds DEF Deliver
<1>4. CASE k \notin S
  BY <1>2, <1>3, <1>4, PlacesKept
<1>5. CASE k \in S
  <2>1. Range(queue[k]) \subseteq Range(queue'[k]) /\ writing[k] \subseteq writing'[k]
    BY <1>2, <1>5, PlaceTypes, EnqueueKeeps
  <2>2. Stored(k) \subseteq Stored(k)'
    BY <1>2, <1>3, <2>1 DEF Stored, OnDisk
  <2>3. id \in accepted'[k] => id \in accepted[k] \cup Stored(k)'
    BY <1>2, <1>5, PlaceTypes, EnqueueKeeps DEF Stored, OnDisk
  <2>4. accepted'[k] \subseteq accepted[k] \cup {id}
    BY <1>2
  <2>5. QED
    BY <1>2, <2>2, <2>3, <2>4 DEF KeepsLane
<1>6. QED
  BY <1>4, <1>5

\* The next await of a drain forgets no entry of q.
LEMMA TakeNextKeeps ==
  ASSUME TypeInv, NEW l \in Lanes, NEW q, Sound(l, q), NEW bytes, NEW flagged,
         TakeNext(l, q, bytes, flagged)
  PROVE  Range(q) \subseteq Range(queue'[l])
                            \cup (IF drain'[l] = "holding" THEN {held'[l]} ELSE {})
<1>1. /\ queue \in [Lanes -> Seq(Ids)] /\ drain \in [Lanes -> DrainStages]
      /\ held \in [Lanes -> Ids \cup {NoId}]
  BY DEF TypeInv, TypeOK, LaneTypeOK
<1>2. CASE Reliable
  BY <1>1, <1>2 DEF TakeNext
<1>3. CASE ~Reliable
  <2>1. /\ queue'[l] = Tail(q) /\ drain'[l] = "holding" /\ held'[l] = Head(q)
        /\ DOMAIN q # {} /\ q \in Seq(Ids)
    BY <1>1, <1>3 DEF TakeNext, Goto, Entries, Sound
  <2>2. Len(q) \in Nat /\ Len(q) > 0 /\ DOMAIN q = 1..Len(q)
    BY <2>1, LenProperties
  <2>3. q # <<>> /\ Head(q) = q[1]
    BY <2>1, <2>2
  <2>4. DOMAIN Tail(q) = 1..(Len(q) - 1)
        /\ \A i \in 1..(Len(q) - 1) : Tail(q)[i] = q[i + 1]
    BY <2>1, <2>2, <2>3, HeadTailProperties, LenProperties
  <2>5. ASSUME NEW i \in DOMAIN q
        PROVE  q[i] \in Range(Tail(q)) \cup {Head(q)}
    <3>1. CASE i = 1
      BY <2>3, <3>1
    <3>2. CASE i # 1
      <4>1. i - 1 \in 1..(Len(q) - 1) /\ (i - 1) + 1 = i
        BY <2>2, <2>5, <3>2
      <4>2. Tail(q)[i - 1] = q[i] /\ i - 1 \in DOMAIN Tail(q)
        BY <2>4, <4>1
      <4>3. QED
        BY <4>2 DEF Range
    <3>3. QED
      BY <3>1, <3>2
  <2>6. QED
    BY <2>1, <2>5 DEF Range
<1>4. QED
  BY <1>2, <1>3

LEMMA LoopHeadKeeps ==
  ASSUME TypeInv, PlaceInv, NEW l \in Lanes, NEW q, Sound(l, q), NEW bytes,
         NEW flagged, LoopHead(l, q, bytes, flagged), recovery[l] = "none",
         UNCHANGED accepted, Stored(l) \subseteq Range(q) \cup OnDisk(l) \cup Sent(l)'
  PROVE  KeepsLane(l)
<1>1. UNCHANGED <<writing, files, lost>>
  BY DEF LoopHead, StartRecover, spillVars
<1>2. Range(q) \subseteq Range(queue'[l])
                         \cup (IF drain'[l] = "holding" THEN {held'[l]} ELSE {})
  BY TakeNextKeeps, StayPlaced DEF LoopHead
<1>3. QED
  BY <1>1, <1>2 DEF KeepsLane, Stored, OnDisk

LEMMA DrainStepKeepsLane ==
  ASSUME TypeInv, BudgetInv, AgreeInv, PlaceInv, NEW l \in Lanes, DrainStep(l)
  PROVE  KeepsLane(l)
<1>1. LanePlaced(l) /\ Sound(l, queue[l]) /\ UNCHANGED accepted
  BY PlaceTypes DEF PlaceInv, LanePlaced, Sound, DrainStep, DrainStart, SendHeld,
     SendHeldFails, Refill, DrainEnd
<1>2. ASSUME drain[l] \in {"scheduled", "holding", "ending"}
      PROVE  /\ Range(recovered[l]) = {}
             /\ recovery[l] = "none"
  <2>1. recovery[l] = "none"
    BY <1>2 DEF BudgetInv, RecoveryInDrain
  <2>2. QED
    BY <1>1, <2>1 DEF LanePlaced, Range
<1>3. CASE DrainStart(l)
  <2>1. drain[l] = "scheduled" /\ LoopHead(l, queue[l], queuedBytes[l], awaiting[l])
    BY <1>3 DEF DrainStart
  <2>2. Stored(l) \subseteq Range(queue[l]) \cup OnDisk(l)
    BY <1>2, <2>1 DEF Stored
  <2>3. QED
    BY <1>1, <1>2, <2>1, <2>2, LoopHeadKeeps
<1>4. CASE SendHeld(l)
  <2>1. PICK flagged : LoopHead(l, queue[l], queuedBytes[l], flagged)
    BY <1>4 DEF SendHeld
  <2>2. drain[l] = "holding" /\ held[l] \in Sent(l)'
    BY <1>4, HeldIsSent DEF SendHeld
  <2>3. Stored(l) \subseteq Range(queue[l]) \cup OnDisk(l) \cup Sent(l)'
    BY <1>2, <2>2 DEF Stored
  <2>4. QED
    BY <1>1, <1>2, <2>1, <2>2, <2>3, LoopHeadKeeps
<1>5. CASE SendHeldFails(l)
  <2>1. PICK bytes, flagged : LoopHead(l, Without(queue[l], held[l]), bytes, flagged)
    BY <1>5 DEF SendHeldFails
  <2>2. drain[l] = "holding" /\ held[l] \in Sent(l)'
    BY <1>5, HeldIsSent DEF SendHeldFails
  <2>3. /\ Sound(l, Without(queue[l], held[l]))
        /\ Range(Without(queue[l], held[l])) = Range(queue[l]) \ {held[l]}
    BY <1>1, WithoutApart DEF Sound
  <2>4. Stored(l) \subseteq Range(Without(queue[l], held[l])) \cup OnDisk(l) \cup Sent(l)'
    BY <1>2, <2>2, <2>3 DEF Stored
  <2>5. QED
    BY <1>1, <1>2, <2>1, <2>2, <2>3, <2>4, LoopHeadKeeps
<1>6. CASE Refill(l)
  <2>1. PICK q : q = queue[l] \o recovered[l]
    OBVIOUS
  <2>2. Sound(l, q) /\ Range(q) = Range(queue[l]) \cup Range(recovered[l])
    BY <1>1, <2>1, PlaceTypes, ConcatDisjoint, ConcatProperties DEF Sound, LanePlaced
  <2>3. PICK bytes : \/ TakeNext(l, q, bytes, awaiting[l])
                     \/ Stay(l, q, bytes, "ending")
    BY <1>6, <2>1 DEF Refill, Refilled
  <2>4. UNCHANGED <<writing, files, lost>> /\ drain[l] # "holding"
    BY <1>6 DEF Refill, EndRecover, BudgetInv, RecoveryInDrain
  <2>5. Range(q) \subseteq Range(queue'[l])
                           \cup (IF drain'[l] = "holding" THEN {held'[l]} ELSE {})
    BY <2>2, <2>3, TakeNextKeeps, StayPlaced
  <2>6. QED
    BY <1>1, <2>2, <2>4, <2>5 DEF KeepsLane, Stored, OnDisk
<1>7. CASE DrainEnd(l)
  BY <1>1, <1>7, PlacesKept DEF DrainEnd, laneVars, spillVars
<1>8. QED
  BY <1>3, <1>4, <1>5, <1>6, <1>7 DEF DrainStep

\* The drain of l leaves the places of the other lanes alone.
LEMMA OthersKeepLane ==
  ASSUME TypeInv, AgreeInv, NEW l \in Lanes, DrainStep(l), NEW k \in Lanes, k # l
  PROVE  KeepsLane(k)
<1>1. OthersKept(l)
  BY DrainStepLane
<1>2. recovered'[k] = recovered[k] /\ UNCHANGED <<writing, files, lost, accepted>>
  BY DEF DrainStep, DrainStart, SendHeld, SendHeldFails, Refill, DrainEnd, LoopHead,
     StartRecover, EndRecover, spillVars, TypeInv, TypeOK, SpillTypeOK
<1>3. QED
  BY <1>1, <1>2, PlacesKept DEF OthersKept

\* A file operation of a client that has not left moves an entry, or fails to
\* write it.
LEMMA FileOperationKeepsLane ==
  ASSUME TypeInv, PlaceInv, CountInv, NEW l \in Lanes, FileOperation(l),
         UNCHANGED <<queue, drain, held, accepted>>,
         NEW k \in Lanes, session[k[1]] # "closed"
  PROVE  KeepsLane(k)
<1>1. /\ writing \in [Lanes -> SUBSET Ids] /\ files \in [Lanes -> SUBSET Ids]
      /\ recovered \in [Lanes -> Seq(Ids)] /\ lost \in [Lanes -> SUBSET Ids]
  BY DEF TypeInv, TypeOK, SpillTypeOK
<1>2. CASE k # l
  <2>1. /\ writing'[k] = writing[k] /\ files'[k] = files[k]
        /\ recovered'[k] = recovered[k] /\ lost'[k] = lost[k]
    BY <1>1, <1>2 DEF FileOperation, WriteDone, WriteFails, FailWrites, ListFiles,
       ReadFile, SkipFile, ClearAfterWrites, ClearNow
  <2>2. QED
    BY <2>1, PlacesKept
<1>3. CASE k = l
  <2>1. ASSUME Range(recovered[l]) \cup OnDisk(l)
                 \subseteq Range(recovered'[l]) \cup OnDisk(l)' \cup lost'[l],
               lost[l] \subseteq lost'[l]
        PROVE  KeepsLane(k)
    BY <1>3, <2>1 DEF KeepsLane, Stored
  <2>2. ASSUME NEW id \in Ids, WriteDone(l, id)
        PROVE  KeepsLane(k)
    BY <1>1, <2>1, <2>2 DEF WriteDone, OnDisk
  <2>3. ASSUME NEW id \in Ids, WriteFails(l, id)
        PROVE  KeepsLane(k)
    BY <1>1, <2>1, <2>3 DEF WriteFails, FailWrites, OnDisk
  <2>4. CASE ListFiles(l) \/ SkipFile(l)
    BY <1>1, <2>1, <2>4 DEF ListFiles, SkipFile, OnDisk
  <2>5. CASE ReadFile(l)
    <3>1. PICK id : id = NextFile(l)
      OBVIOUS
    <3>2. /\ id \in Ids /\ files'[l] = files[l] \ {id} /\ UNCHANGED <<writing, lost>>
          /\ recovered'[l] = Append(recovered[l], id)
      BY <1>1, <2>5, <3>1 DEF ReadFile
    <3>3. Range(recovered'[l]) = Range(recovered[l]) \cup {id}
      BY <1>1, <3>2, AppendFresh
    <3>4. QED
      BY <2>1, <3>2, <3>3 DEF OnDisk
  <2>6. ~ClearAfterWrites(l) /\ ~ClearNow(l)
    BY <1>3 DEF CountInv, LaneCounted, ClearAfterWrites, ClearNow
  <2>7. QED
    BY <2>2, <2>3, <2>4, <2>5, <2>6 DEF FileOperation
<1>4. QED
  BY <1>2, <1>3

\* Whatever is no publication takes from a lane only what was sent or failed to
\* be written, and accepts nothing.
LEMMA StepKeepsLane ==
  ASSUME TypeInv, BudgetInv, AgreeInv, PlaceInv, CountInv, SentInv, [Next]_vars,
         ~Publication, NEW k \in Lanes, session'[k[1]] # "closed"
  PROVE  KeepsLane(k) /\ session[k[1]] # "closed" /\ UNCHANGED <<accepted, policy>>
<1>1. CASE SocketEvent \/ Retrying
  <2>1. UNCHANGED accepted
    BY <1>1 DEF SocketEvent, Connect, Disconnect, Stop, Leave, Subscribe,
       Unsubscribe, Ack, Retrying, RetryTick, HandleDecision
  <2>2. QED
    BY <1>1, <2>1, EventKeepsLane
<1>2. ASSUME NEW l \in Lanes, DrainStep(l)
      PROVE  KeepsLane(k) /\ UNCHANGED <<accepted, policy, session>>
  <2>1. UNCHANGED <<accepted, policy, session>>
    BY <1>2 DEF DrainStep, DrainStart, SendHeld, SendHeldFails, Refill, DrainEnd,
       registryVars
  <2>2. QED
    BY <1>2, <2>1, DrainStepKeepsLane, OthersKeepLane
<1>3. ASSUME NEW l \in Lanes, FileEvent(l)
      PROVE  KeepsLane(k) /\ UNCHANGED <<accepted, policy, session>>
  <2>1. FileOperation(l) /\ UNCHANGED <<queue, drain, held, accepted, policy, session>>
    BY <1>3, FileEventIsOperation DEF laneVars, drainVars, registryVars
  <2>2. QED
    BY <2>1, FileOperationKeepsLane
<1>4. CASE UNCHANGED vars
  BY <1>4, PlacesKept DEF vars, laneVars, spillVars, drainVars, registryVars
<1>5. QED
  BY <1>1, <1>2, <1>3, <1>4 DEF Next

LEMMA NextKeep ==
  ASSUME TypeInv, BudgetInv, AgreeInv, PlaceInv, CountInv, SentInv, KeepInv,
         [Next]_vars
  PROVE  KeepInv'
<1> SUFFICES ASSUME Keeping', NEW k \in Lanes, session'[k[1]] # "closed"
             PROVE  LaneKeeps(k)'
  BY DEF KeepInv, LaneKeeps
<1>1. CASE Publication
  <2>1. PICK n \in Sizes, S \in SUBSET Lanes : Deliver(S, n)
    BY <1>1, PublicationIsDelivery
  <2>2. UNCHANGED <<policy, session>>
    BY <2>1 DEF Deliver, registryVars
  <2>3. Keeping /\ LaneKeeps(k)
    BY <2>2 DEF KeepInv, Keeping, Spilling, Overflow, Coalesce
  <2>4. KeepsLane(k)
    BY <2>1, <2>3, DeliverKeepsLane
  <2>5. QED
    BY <2>2, <2>3, <2>4, KeepsLaneKeeps
<1>2. CASE ~Publication
  <2>1. KeepsLane(k) /\ session[k[1]] # "closed" /\ UNCHANGED policy
    BY <1>2, StepKeepsLane
  <2>2. LaneKeeps(k)
    BY <2>1 DEF KeepInv, Keeping, Spilling, Overflow, Coalesce
  <2>3. QED
    BY <2>1, <2>2, KeepsLaneKeeps
<1>3. QED
  BY <1>1, <1>2

\* Under a policy that keeps what it accepts, a message is in a place of its
\* lane, was handed over, or could not be written.
THEOREM KeepInvariant == Spec => []KeepInv
<1>1. Init => KeepInv
  BY DEF Init, KeepInv, LaneKeeps
<1>2. TypeInv /\ BudgetInv /\ AgreeInv /\ PlaceInv /\ CountInv /\ SentInv
        /\ KeepInv /\ [Next]_vars => KeepInv'
  BY NextKeep
<1>3. QED
  BY <1>1, <1>2, TypeInvariant, BudgetInvariant, AgreeInvariant, PlaceInvariant,
     CountInvariant, SentInvariant, PTL DEF Spec

\* A namespace that rejects or spills what does not fit loses nothing that it
\* accepted, except to a failed write: until a message is handed to the socket
\* it is queued, on disk, in the result of a recovery or in the drain's hands.
THEOREM AcceptedIsKept == Spec => []NothingLost
<1>1. TypeInv /\ KeepInv => NothingLost
  <2> SUFFICES ASSUME TypeInv, KeepInv, Keeping, NEW l \in Lanes, Open(l),
                      NEW id \in accepted[l]
               PROVE  attempts[l][id] > 0 \/ id \in Stored(l) \cup lost[l]
    BY DEF NothingLost, Keeping
  <2>1. QED
    BY DEF KeepInv, LaneKeeps, Open, Sent
<1>2. QED
  BY <1>1, TypeInvariant, KeepInvariant, PTL

-----------------------------------------------------------------------------
(* The newest message.                                                     *)

\* A message that an enqueue does not reject is stored.
LEMMA EnqueueStores ==
  ASSUME NEW k \in Lanes, NEW n, NEW id \in Ids, queue[k] \in Seq(Ids)
  PROVE  EnqueueStatus(k, n) \in {"REJECTED", "SPILLED"}
         \/ id \in Range(QueueAfter(k, id, n))
<1>1. PICK status : status = EnqueueStatus(k, n)
  OBVIOUS
<1>2. status \in {"REJECTED", "SPILLED", "ACCEPTED", "REPLACED_SNAPSHOT", "COALESCED",
                  "DROPPED_OLDEST_AND_ACCEPTED"}
  BY <1>1 DEF EnqueueStatus
<1>3. CASE status = "ACCEPTED"
  BY <1>1, <1>3, AppendFresh DEF QueueAfter
<1>4. CASE status = "REPLACED_SNAPSHOT"
  <2>1. QueueAfter(k, id, n) = <<id>>
    BY <1>1, <1>4 DEF QueueAfter
  <2>2. QED
    BY <2>1 DEF Range
<1>5. CASE status = "COALESCED"
  <2>1. Coalescable(k) # {}
    BY <1>1, <1>5 DEF EnqueueStatus, Coalesces
  <2>2. Coalescable(k) \subseteq Nat /\ Coalescable(k) \subseteq DOMAIN queue[k]
        /\ DOMAIN queue[k] = 1..Len(queue[k]) /\ Len(queue[k]) \in Nat
    BY LenProperties DEF Coalescable, Unsent
  <2>3. Max(Coalescable(k)) \in Coalescable(k)
    BY <2>1, <2>2, MaxIn
  <2>4. QueueAfter(k, id, n) = [queue[k] EXCEPT ![Max(Coalescable(k))] = id]
    BY <1>1, <1>5 DEF QueueAfter
  <2>5. QED
    BY <2>2, <2>3, <2>4 DEF Range
<1>6. CASE status = "DROPPED_OLDEST_AND_ACCEPTED"
  <2>1. QueueAfter(k, id, n) = Append(AfterDrop(k, n), id)
    BY <1>1, <1>6 DEF QueueAfter
  <2>2. AfterDrop(k, n) \in Seq(Ids)
    BY AfterDropType
  <2>3. QED
    BY <2>1, <2>2, AppendFresh
<1>7. QED
  BY <1>1, <1>2, <1>3, <1>4, <1>5, <1>6

\* Whatever the policy, what the lane of a client that has not left accepted
\* last was sent, is stored, or could not be written.
LaneKeepsNewest(k) ==
  /\ \A id \in accepted[k] : id < nextSequence
  /\ session[k[1]] # "closed" =>
       \A id \in accepted[k] :
         \/ \E later \in accepted[k] : later > id
         \/ id \in Sent(k) \cup Stored(k) \cup lost[k]

NewestInv == \A k \in Lanes : LaneKeepsNewest(k)

\* A publication that a lane accepts becomes the newest of the lane, and is
\* stored; one that it does not accept leaves the lane as it is.
LEMMA DeliverKeepsNewest ==
  ASSUME TypeInv, NewestInv, NEW S \in SUBSET Lanes, NEW n \in Sizes, Deliver(S, n)
  PROVE  NewestInv'
<1>1. PICK id : id = nextSequence
  OBVIOUS
<1>2. /\ id \in Ids /\ UNCHANGED <<files, lost, recovered, attempts, session>>
      /\ nextSequence' = id + 1
      /\ queue' = [l \in Lanes |-> IF l \in S THEN QueueAfter(l, id, n)
                                              ELSE queue[l]]
      /\ writing' = [l \in Lanes |->
           IF l \in {m \in S : EnqueueStatus(m, n) = "SPILLED"}
             THEN writing[l] \cup {id} ELSE writing[l]]
      /\ accepted' = [l \in Lanes |->
           IF l \in S \ {m \in S : EnqueueStatus(m, n) = "REJECTED"}
             THEN accepted[l] \cup {id} ELSE accepted[l]]
  BY <1>1 DEF Deliver, EnqueueAll, SpillAll, registryVars
<1>3. ASSUME NEW k \in Lanes
      PROVE  LaneKeepsNewest(k)'
  <2>1. /\ \A old \in accepted[k] : old < id /\ old \in Nat
        /\ queue[k] \in Seq(Ids) /\ id \in Nat /\ LaneKeepsNewest(k)
    BY <1>1, <1>2, PlaceTypes DEF NewestInv, LaneKeepsNewest, TypeInv, TypeOK
  <2>2. drain[k] = "holding" => drain'[k] = "holding" /\ held'[k] = held[k]
    BY ScheduleHolds DEF Deliver
  <2>3. CASE k \in S /\ EnqueueStatus(k, n) # "REJECTED"
    <3>1. accepted'[k] = accepted[k] \cup {id}
      BY <1>2, <2>3
    <3>2. id \in Stored(k)'
      BY <1>2, <2>1, <2>3, EnqueueStores DEF Stored, OnDisk
    <3>3. QED
      BY <1>2, <2>1, <3>1, <3>2 DEF LaneKeepsNewest
  <2>4. CASE ~(k \in S /\ EnqueueStatus(k, n) # "REJECTED")
    <3>1. queue'[k] = queue[k]
      BY <1>2, <2>4 DEF QueueAfter
    <3>2. accepted'[k] = accepted[k] /\ writing'[k] = writing[k]
      BY <1>2, <2>4
    <3>3. Stored(k) \subseteq Stored(k)'
      BY <1>2, <2>2, <3>1, <3>2 DEF Stored, OnDisk
    <3>4. \A old \in accepted'[k] : old < nextSequence'
      BY <1>2, <2>1, <3>2
    <3>5. Sent(k)' = Sent(k)
      BY <1>2 DEF Sent
    <3>6. QED
      BY <1>2, <2>1, <3>2, <3>3, <3>4, <3>5 DEF LaneKeepsNewest
  <2>5. QED
    BY <2>3, <2>4
<1>4. QED
  BY <1>3 DEF NewestInv

LEMMA NextKeepsNewest ==
  ASSUME TypeInv, BudgetInv, AgreeInv, PlaceInv, CountInv, SentInv, NewestInv,
         [Next]_vars
  PROVE  NewestInv'
<1>1. CASE Publication
  BY <1>1, PublicationIsDelivery, DeliverKeepsNewest
<1>2. CASE ~Publication
  <2>1. UNCHANGED <<accepted, nextSequence>>
    <3>1. CASE SocketEvent \/ Retrying \/ UNCHANGED vars
      BY <3>1 DEF SocketEvent, Connect, Disconnect, Stop, Leave, Subscribe,
         Unsubscribe, Ack, Retrying, RetryTick, HandleDecision, vars
    <3>2. ASSUME NEW l \in Lanes, DrainStep(l)
          PROVE  UNCHANGED <<accepted, nextSequence>>
      BY <3>2 DEF DrainStep, DrainStart, SendHeld, SendHeldFails, Refill, DrainEnd
    <3>3. ASSUME NEW l \in Lanes, FileEvent(l)
          PROVE  UNCHANGED <<accepted, nextSequence>>
      BY <3>3, FileEventIsOperation
    <3>4. QED
      BY <1>2, <3>1, <3>2, <3>3 DEF Next
  <2>2. ASSUME NEW k \in Lanes
        PROVE  LaneKeepsNewest(k)'
    <3>1. session'[k[1]] # "closed" => KeepsLane(k) /\ session[k[1]] # "closed"
      BY <1>2, StepKeepsLane
    <3>2. Sent(k) \subseteq Sent(k)'
      BY SentGrows
    <3>3. QED
      BY <2>1, <3>1, <3>2 DEF NewestInv, LaneKeepsNewest, KeepsLane
  <2>3. QED
    BY <2>2 DEF NewestInv
<1>3. QED
  BY <1>1, <1>2

\* The newest message of a lane outlives what it made the lane discard.
THEOREM NewestInvariant == Spec => []NewestInv
<1>1. Init => NewestInv
  BY DEF Init, NewestInv, LaneKeepsNewest
<1>2. TypeInv /\ BudgetInv /\ AgreeInv /\ PlaceInv /\ CountInv /\ SentInv
        /\ NewestInv /\ [Next]_vars => NewestInv'
  BY NextKeepsNewest
<1>3. QED
  BY <1>1, <1>2, TypeInvariant, BudgetInvariant, AgreeInvariant, PlaceInvariant,
     CountInvariant, SentInvariant, PTL DEF Spec

\* Overflow never costs the newest message of a lane: dropped, coalesced and
\* replaced messages are older ones, and a rejected message was not accepted.
THEOREM NewestIsKept == Spec => []NewestKept
<1>1. TypeInv /\ NewestInv => NewestKept
  <2> SUFFICES ASSUME TypeInv, NewestInv, NEW l \in Lanes, Open(l), accepted[l] # {}
               PROVE  \/ attempts[l][Max(accepted[l])] > 0
                      \/ Max(accepted[l]) \in Stored(l) \cup lost[l]
    BY DEF NewestKept
  <2>1. accepted[l] \in SUBSET (1..MaxMessages) /\ MaxMessages \in Nat
    BY InstanceAssumption DEF TypeInv, TypeOK, Ids
  <2>2. /\ Max(accepted[l]) \in accepted[l]
        /\ \A id \in accepted[l] : Max(accepted[l]) >= id
    BY <2>1, MaxIn
  <2>3. \A id \in accepted[l] : id \in Nat /\ ~(id > Max(accepted[l]))
    BY <2>1, <2>2
  <2>4. Max(accepted[l]) \in Sent(l) \cup Stored(l) \cup lost[l]
    BY <2>2, <2>3 DEF NewestInv, LaneKeepsNewest, Open
  <2>5. QED
    BY <2>4 DEF Sent
<1>2. QED
  BY <1>1, TypeInvariant, NewestInvariant, PTL

-----------------------------------------------------------------------------
(* No backlog.                                                             *)

Conflating == Coalesce \/ Overflow("SNAPSHOT_ONLY")

\* Such a lane keeps the newest message at most, nothing is in flight and
\* nothing reaches the disk; its byte counter is exact, or a message that fits
\* would not replace the older one.
LaneConflates(k) ==
  /\ Len(queue[k]) <= 1
  /\ queuedBytes[k] = IF queue[k] = <<>> THEN 0 ELSE size[queue[k][1]]
  /\ awaiting[k] = {} /\ pending[k] = {}
  /\ count[k] <= 0 /\ OnDisk(k) = {} /\ recovery[k] = "none"

ConflateInv ==
  Conflating => decisions = {} /\ \A k \in Lanes : LaneConflates(k)

LEMMA ConflatingIsBestEffort ==
  ASSUME TypeInv, Conflating
  PROVE  /\ ~Reliable /\ MaxQueued \in Nat \ {0} /\ MaxBytes \in Nat \ {0}
BY InstanceAssumption DEF TypeInv, TypeOK, ValidPolicy, Conflating, Reliable,
   Coalesce, Overflow, MaxQueued, MaxBytes

\* What a short queue looks like.
LEMMA ShortQueue ==
  ASSUME NEW q \in Seq(Ids), Len(q) <= 1
  PROVE  \/ q = <<>>
         \/ q # <<>> /\ Len(q) = 1 /\ DOMAIN q = {1} /\ q[1] \in Ids /\ Head(q) = q[1]
<1>1. Len(q) \in Nat /\ DOMAIN q = 1..Len(q)
  BY LenProperties
<1>2. CASE Len(q) = 0
  BY <1>2, EmptySeq
<1>3. CASE Len(q) = 1
  <2>1. DOMAIN q = {1}
    BY <1>1, <1>3
  <2>2. q[1] \in Ids /\ q # <<>> /\ Head(q) = q[1]
    BY <1>3, <2>1, ElementOfSeq
  <2>3. QED
    BY <1>3, <2>1, <2>2
<1>4. QED
  BY <1>1, <1>2, <1>3

\* A conflating lane takes a message in place of what it holds, or not at all.
LEMMA EnqueueConflates ==
  ASSUME TypeInv, Conflating, NEW k \in Lanes, LaneConflates(k), NEW id \in Ids,
         NEW n \in Sizes
  PROVE  /\ EnqueueStatus(k, n) # "SPILLED"
         /\ \/ QueueAfter(k, id, n) = <<id>> /\ BytesAfter(k, n) = n
            \/ QueueAfter(k, id, n) = queue[k] /\ BytesAfter(k, n) = queuedBytes[k]
<1>1. PICK status : status = EnqueueStatus(k, n)
  OBVIOUS
<1>2. /\ n \in Nat /\ MaxBytes \in Nat /\ MaxQueued \in Nat \ {0}
      /\ queue[k] \in Seq(Ids) /\ size \in [Ids -> Nat]
  BY InstanceAssumption, ConflatingIsBestEffort DEF TypeInv, TypeOK, LaneTypeOK
<1>3. CASE n > MaxBytes
  <2>1. status = "REJECTED"
    BY <1>1, <1>3 DEF EnqueueStatus
  <2>2. QED
    BY <1>1, <2>1 DEF QueueAfter, BytesAfter
<1>4. CASE ~(n > MaxBytes) /\ Overflow("SNAPSHOT_ONLY")
  <2>1. status = "REPLACED_SNAPSHOT"
    BY <1>1, <1>4 DEF EnqueueStatus
  <2>2. QED
    BY <1>1, <2>1 DEF QueueAfter, BytesAfter
<1>5. CASE ~(n > MaxBytes) /\ ~Overflow("SNAPSHOT_ONLY") /\ queue[k] = <<>>
  <2>1. Coalescable(k) = {} /\ Len(queue[k]) = 0 /\ queuedBytes[k] = 0
    BY <1>5 DEF Coalescable, Unsent, LaneConflates
  <2>2. Fits(queue[k], queuedBytes[k], n)
    BY <1>2, <1>5, <2>1 DEF Fits
  <2>3. status = "ACCEPTED"
    BY <1>1, <1>5, <2>1, <2>2 DEF EnqueueStatus, Coalesces
  <2>4. QueueAfter(k, id, n) = Append(<<>>, id) /\ BytesAfter(k, n) = 0 + n
    BY <1>1, <1>5, <2>1, <2>3 DEF QueueAfter, BytesAfter
  <2>5. QED
    BY <1>1, <1>2, <2>3, <2>4
<1>6. CASE ~(n > MaxBytes) /\ ~Overflow("SNAPSHOT_ONLY") /\ queue[k] # <<>>
  <2>1. /\ Len(queue[k]) = 1 /\ DOMAIN queue[k] = {1} /\ queue[k][1] \in Ids
        /\ queuedBytes[k] = size[queue[k][1]] /\ awaiting[k] = {}
    BY <1>2, <1>6, ShortQueue DEF LaneConflates
  <2>2. Coalescable(k) = {1}
    BY <1>6, <2>1 DEF Coalescable, Unsent, Conflating
  <2>3. Max(Coalescable(k)) = 1
    BY <2>2, MaxIn
  <2>4. BytesIfCoalesced(k, n) = n
    BY <1>2, <2>1, <2>3 DEF BytesIfCoalesced
  <2>5. status = "COALESCED"
    BY <1>1, <1>2, <1>6, <2>2, <2>4 DEF EnqueueStatus, Coalesces
  <2>6. QueueAfter(k, id, n) = [queue[k] EXCEPT ![1] = id] /\ BytesAfter(k, n) = n
    BY <1>1, <2>3, <2>4, <2>5 DEF QueueAfter, BytesAfter
  <2>7. [queue[k] EXCEPT ![1] = id] = <<id>>
    <3>1. PICK q : q = [queue[k] EXCEPT ![1] = id]
      OBVIOUS
    <3>2. q \in Seq(Ids)
      <4>1. QueueAfter(k, id, n) \in Seq(Ids)
        BY <1>2, QueueAfterType
      <4>2. QED
        BY <2>6, <3>1, <4>1
    <3>3. DOMAIN q = {1} /\ q[1] = id
      BY <2>1, <3>1
    <3>4. Len(q) = 1
      <4>1. PICK len \in Nat : len = Len(q) /\ 1..len = {1}
        BY <3>2, <3>3, LenProperties
      <4>2. len \in 1..len \/ len = 0
        OBVIOUS
      <4>3. len \in {1} \/ 1 \notin 1..len
        BY <4>1, <4>2
      <4>4. QED
        BY <4>1, <4>3
    <3>5. q = <<id>>
      BY <3>2, <3>3, <3>4
    <3>6. QED
      BY <3>1, <3>5
  <2>8. QED
    BY <1>1, <2>5, <2>6, <2>7
<1>7. QED
  BY <1>3, <1>4, <1>5, <1>6

\* Steps that leave a lane's queue alone and bring nothing to its disk.
LEMMA ConflateKept ==
  ASSUME NEW k \in Lanes, LaneConflates(k), UNCHANGED laneVars,
         pending'[k] \subseteq pending[k], count'[k] <= 0,
         OnDisk(k)' \subseteq OnDisk(k), recovery'[k] = recovery[k]
  PROVE  LaneConflates(k)'
BY DEF LaneConflates, laneVars

LEMMA DeliverConflates ==
  ASSUME TypeInv, PlaceInv, ConflateInv, Conflating, NEW S \in SUBSET Lanes,
         NEW n \in Sizes, Deliver(S, n)
  PROVE  decisions' = {} /\ \A k \in Lanes : LaneConflates(k)'
<1>1. PICK id : id = nextSequence
  OBVIOUS
<1>2. /\ id \in Ids /\ UNCHANGED <<files, recovery, pending, decisions, awaiting>>
      /\ size' = [size EXCEPT ![id] = n]
      /\ queue' = [l \in Lanes |-> IF l \in S THEN QueueAfter(l, id, n)
                                              ELSE queue[l]]
      /\ queuedBytes' = [l \in Lanes |-> IF l \in S THEN BytesAfter(l, n)
                                                    ELSE queuedBytes[l]]
      /\ writing' = [l \in Lanes |->
           IF l \in {m \in S : EnqueueStatus(m, n) = "SPILLED"}
             THEN writing[l] \cup {id} ELSE writing[l]]
      /\ count' = [l \in Lanes |->
           IF l \in {m \in S : EnqueueStatus(m, n) = "SPILLED"}
             THEN count[l] + 1 ELSE count[l]]
  BY <1>1 DEF Deliver, EnqueueAll, SpillAll, ackVars
<1>3. ASSUME NEW k \in Lanes
      PROVE  LaneConflates(k)'
  <2>1. /\ LaneConflates(k) /\ queue[k] \in Seq(Ids) /\ size \in [Ids -> Nat]
        /\ \A old \in Range(queue[k]) : old < nextSequence
        /\ nextSequence \in Nat
    BY PlaceTypes DEF ConflateInv, PlaceInv, LanePlaced, TypeInv, TypeOK, LaneTypeOK
  <2>2. /\ EnqueueStatus(k, n) # "SPILLED"
        /\ \/ QueueAfter(k, id, n) = <<id>> /\ BytesAfter(k, n) = n
           \/ QueueAfter(k, id, n) = queue[k] /\ BytesAfter(k, n) = queuedBytes[k]
    BY <1>2, <2>1, EnqueueConflates
  <2>3. count'[k] = count[k] /\ writing'[k] = writing[k]
    BY <1>2, <2>2
  <2>4. \/ queue'[k] = <<id>> /\ queuedBytes'[k] = n
        \/ queue'[k] = queue[k] /\ queuedBytes'[k] = queuedBytes[k]
    BY <1>2, <2>2
  <2>5. /\ Len(queue'[k]) <= 1
        /\ queuedBytes'[k] = IF queue'[k] = <<>> THEN 0 ELSE size'[queue'[k][1]]
    <3>1. CASE queue'[k] = <<id>> /\ queuedBytes'[k] = n
      <4>1. <<id>> # <<>> /\ <<id>>[1] = id /\ Len(<<id>>) = 1 /\ size'[id] = n
        BY <1>2, <2>1
      <4>2. QED
        BY <3>1, <4>1
    <3>2. CASE queue'[k] = queue[k] /\ queuedBytes'[k] = queuedBytes[k]
      <4>1. CASE queue[k] = <<>>
        BY <2>1, <3>2, <4>1 DEF LaneConflates
      <4>2. CASE queue[k] # <<>>
        <5>1. DOMAIN queue[k] = {1} /\ queue[k][1] \in Ids
          BY <2>1, <4>2, ShortQueue DEF LaneConflates
        <5>2. queue[k][1] \in Range(queue[k])
          BY <5>1 DEF Range
        <5>3. queue[k][1] # id
          BY <1>1, <2>1, <5>2
        <5>4. size'[queue[k][1]] = size[queue[k][1]]
          BY <1>2, <2>1, <5>1, <5>3
        <5>5. QED
          BY <2>1, <3>2, <4>2, <5>4 DEF LaneConflates
      <4>3. QED
        BY <4>1, <4>2
    <3>3. QED
      BY <2>4, <3>1, <3>2
  <2>6. QED
    BY <1>2, <2>1, <2>3, <2>5 DEF LaneConflates, OnDisk
<1>4. QED
  BY <1>2, <1>3 DEF ConflateInv

\* A drain takes the one message there is and then has nothing left.
LEMMA LoopHeadConflates ==
  ASSUME TypeInv, ConflateInv, Conflating, NEW l \in Lanes,
         LoopHead(l, queue[l], queuedBytes[l], awaiting[l]), UNCHANGED <<size, ackVars>>
  PROVE  decisions' = {} /\ \A k \in Lanes : LaneConflates(k)'
<1>1. /\ queue \in [Lanes -> Seq(Ids)] /\ awaiting \in [Lanes -> SUBSET Ids]
      /\ size \in [Ids -> Nat] /\ DOMAIN queuedBytes = Lanes /\ ~Reliable
      /\ count \in [Lanes -> Int] /\ queue[l] \in Seq(Ids)
  BY ConflatingIsBestEffort DEF TypeInv, TypeOK, LaneTypeOK, SpillTypeOK
<1>2. \A k \in Lanes : LaneConflates(k)
  BY DEF ConflateInv
<1>3. UNCHANGED <<awaiting, spillVars, pending, decisions>>
  <2>1. ~HasSpilled(l)
    BY <1>1, <1>2 DEF HasSpilled, LaneConflates
  <2>2. awaiting' = awaiting
    BY <1>1 DEF LoopHead
  <2>3. QED
    BY <2>1, <2>2 DEF LoopHead, ackVars
<1>4. \A k \in Lanes : k # l => queue'[k] = queue[k] /\ queuedBytes'[k] = queuedBytes[k]
  BY <1>1 DEF LoopHead, TakeNext, Stay
<1>5. \/ queue'[l] = <<>> /\ queuedBytes'[l] = 0
      \/ queue'[l] = queue[l] /\ queuedBytes'[l] = queuedBytes[l]
  <2>1. CASE TakeNext(l, queue[l], queuedBytes[l], awaiting[l])
    <3>1. /\ queue'[l] = Tail(queue[l]) /\ DOMAIN queue[l] # {}
          /\ queuedBytes'[l] = Clamp(queuedBytes[l] - size[Head(queue[l])])
      BY <1>1, <2>1 DEF TakeNext, Entries
    <3>2. queue[l] # <<>>
      BY <3>1
    <3>3. /\ Len(queue[l]) = 1 /\ queue[l][1] \in Ids
          /\ Head(queue[l]) = queue[l][1]
          /\ queuedBytes[l] = size[queue[l][1]]
      BY <1>1, <1>2, <3>2, ShortQueue DEF LaneConflates
    <3>4. Tail(queue[l]) = <<>>
      <4>1. Tail(queue[l]) \in Seq(Ids) /\ Len(Tail(queue[l])) = 0
        BY <1>1, <3>2, <3>3, HeadTailProperties
      <4>2. QED
        BY <4>1, EmptySeq
    <3>5. Clamp(queuedBytes[l] - size[Head(queue[l])]) = 0
      BY <1>1, <3>3 DEF Clamp
    <3>6. QED
      BY <3>1, <3>4, <3>5
  <2>2. CASE \E stage : Stay(l, queue[l], queuedBytes[l], stage)
    BY <1>1, <2>2 DEF Stay
  <2>3. QED
    BY <2>1, <2>2 DEF LoopHead
<1>6. LaneConflates(l)'
  <2>1. LaneConflates(l) /\ Len(<<>>) = 0
    BY <1>2
  <2>2. QED
    BY <1>3, <1>5, <2>1 DEF LaneConflates, OnDisk, spillVars
<1>7. \A k \in Lanes : k # l => LaneConflates(k)'
  BY <1>2, <1>3, <1>4 DEF LaneConflates, OnDisk, spillVars
<1>8. QED
  BY <1>3, <1>6, <1>7 DEF ConflateInv

LEMMA NextConflates ==
  ASSUME TypeInv, PlaceInv, ConflateInv, [Next]_vars
  PROVE  ConflateInv'
<1> SUFFICES ASSUME Conflating'
             PROVE  decisions' = {} /\ \A k \in Lanes : LaneConflates(k)'
  BY DEF ConflateInv
<1>1. UNCHANGED policy
  BY DEF Next, SocketEvent, Publication, Publish, PublishTo, Deliver, Retrying,
     RetryTick, HandleDecision, DrainStep, DrainStart, SendHeld, SendHeldFails, Refill,
     DrainEnd, FileEvent, Completes, Connect, Disconnect, Stop, Leave, Subscribe,
     Unsubscribe, Ack, registryVars, vars
<1>2. /\ Conflating /\ ~Reliable /\ decisions = {}
      /\ \A k \in Lanes : LaneConflates(k)
  <2>1. Conflating
    BY <1>1 DEF Conflating, Coalesce, Overflow
  <2>2. QED
    BY <2>1, ConflatingIsBestEffort DEF ConflateInv
<1>3. ASSUME UNCHANGED laneVars, decisions' \subseteq decisions,
             \A k \in Lanes : /\ pending'[k] \subseteq pending[k]
                              /\ count'[k] <= 0
                              /\ OnDisk(k)' \subseteq OnDisk(k)
                              /\ recovery'[k] = recovery[k]
      PROVE  decisions' = {} /\ \A k \in Lanes : LaneConflates(k)'
  BY <1>2, <1>3, ConflateKept
<1>4. ASSUME UNCHANGED <<laneVars, spillVars, decisions>>,
             \A k \in Lanes : pending'[k] \subseteq pending[k]
      PROVE  decisions' = {} /\ \A k \in Lanes : LaneConflates(k)'
  <2>1. \A k \in Lanes : /\ count'[k] <= 0 /\ OnDisk(k)' = OnDisk(k)
                         /\ recovery'[k] = recovery[k]
    BY <1>2, <1>4 DEF LaneConflates, OnDisk, spillVars
  <2>2. QED
    BY <1>3, <1>4, <2>1
<1>5. pending \in [Lanes -> SUBSET Ids] /\ count \in [Lanes -> Int]
      /\ writing \in [Lanes -> SUBSET Ids] /\ files \in [Lanes -> SUBSET Ids]
  BY DEF TypeInv, TypeOK, AckTypeOK, SpillTypeOK
<1>6. ASSUME NEW c \in Clients, Connect(c)
      PROVE  decisions' = {} /\ \A k \in Lanes : LaneConflates(k)'
  BY <1>4, <1>6 DEF Connect, ackVars
<1>7. ASSUME (\E c \in Clients : Disconnect(c)) \/ Stop
      PROVE  decisions' = {} /\ \A k \in Lanes : LaneConflates(k)'
  <2>1. /\ UNCHANGED <<laneVars, decisions, writing, files, recovery>>
        /\ \A k \in Lanes : /\ pending'[k] \subseteq pending[k]
                            /\ count'[k] \in {0, count[k]}
    BY <1>5, <1>7, DepartureLeaves DEF Leave, StartClears, RemoveLanes
  <2>2. QED
    BY <1>2, <1>3, <2>1 DEF LaneConflates, OnDisk
<1>8. ASSUME NEW c \in Clients, NEW t \in Topics, Subscribe(c, t) \/ Unsubscribe(c, t)
      PROVE  decisions' = {} /\ \A k \in Lanes : LaneConflates(k)'
  <2>1. /\ UNCHANGED <<laneVars, spillVars, decisions>>
        /\ \A k \in Lanes : pending'[k] \subseteq pending[k]
    BY <1>5, <1>8 DEF Subscribe, Unsubscribe, RemoveLanes, ackVars
  <2>2. QED
    BY <1>4, <2>1
<1>9. ~\E l \in Lanes, id \in Ids : Ack(l, id)
  BY <1>2 DEF Ack
<1>10. CASE Publication
  BY <1>2, <1>10, PublicationIsDelivery, DeliverConflates
<1>11. ~Retrying
  <2>1. Tracked = {}
    BY <1>2 DEF Tracked, LaneConflates
  <2>2. QED
    BY <1>2, <2>1 DEF Retrying, RetryTick
<1>12. ASSUME NEW l \in Lanes, DrainStep(l)
       PROVE  decisions' = {} /\ \A k \in Lanes : LaneConflates(k)'
  <2>1. ~Refill(l) /\ ~SendHeldFails(l)
    BY <1>2 DEF Refill, SendHeldFails, LaneConflates
  <2>2. CASE DrainStart(l) \/ SendHeld(l)
    <3>1. /\ LoopHead(l, queue[l], queuedBytes[l], awaiting[l])
          /\ UNCHANGED <<size, ackVars>>
      BY <1>2, <2>2 DEF DrainStart, SendHeld
    <3>2. QED
      BY <1>2, <3>1, LoopHeadConflates
  <2>3. CASE DrainEnd(l)
    BY <1>4, <2>3 DEF DrainEnd, ackVars
  <2>4. QED
    BY <1>12, <2>1, <2>2, <2>3 DEF DrainStep
<1>13. ASSUME NEW l \in Lanes, FileEvent(l)
       PROVE  decisions' = {} /\ \A k \in Lanes : LaneConflates(k)'
  <2>1. FileOperation(l) /\ UNCHANGED <<laneVars, ackVars>>
    BY <1>13, FileEventIsOperation
  <2>2. /\ writing[l] = {} /\ files[l] = {} /\ recovery[l] = "none" /\ count[l] <= 0
        /\ count[l] \in Int
    BY <1>2, <1>5 DEF LaneConflates, OnDisk
  <2>3. ClearAfterWrites(l) \/ ClearNow(l)
    BY <2>1, <2>2 DEF FileOperation, WriteDone, WriteFails, ListFiles, ReadFile, SkipFile
  <2>4. /\ UNCHANGED recovery
        /\ \A k \in Lanes : /\ count'[k] = count[k] /\ writing'[k] = writing[k]
                            /\ files'[k] \subseteq files[k]
    <3>1. CASE ClearAfterWrites(l)
      BY <1>5, <3>1 DEF ClearAfterWrites
    <3>2. CASE ClearNow(l)
      <4>1. FailWrites(l, {})
        BY <2>2, <3>2 DEF ClearNow
      <4>2. \A k \in Lanes : count'[k] = count[k] /\ writing'[k] = writing[k]
        BY <1>5, <4>1 DEF FailWrites
      <4>3. QED
        BY <1>5, <3>2, <4>2 DEF ClearNow
    <3>3. QED
      BY <2>3, <3>1, <3>2
  <2>5. \A k \in Lanes : count'[k] <= 0 /\ OnDisk(k)' \subseteq OnDisk(k)
    BY <1>2, <2>4 DEF LaneConflates, OnDisk
  <2>6. QED
    BY <1>3, <2>1, <2>4, <2>5 DEF ackVars
<1>14. CASE UNCHANGED vars
  BY <1>4, <1>14 DEF vars, ackVars
<1>15. QED
  BY <1>6, <1>7, <1>8, <1>9, <1>10, <1>11, <1>12, <1>13, <1>14 DEF Next, SocketEvent

LEMMA InitConflates == Init => ConflateInv
<1>1. ASSUME Init, NEW k \in Lanes
      PROVE  LaneConflates(k)
  <2>1. Len(<<>>) = 0
    OBVIOUS
  <2>2. QED
    BY <1>1, <2>1 DEF Init, LaneInit, SpillInit, AckInit, LaneConflates, OnDisk
<1>2. QED
  BY <1>1 DEF ConflateInv, Init, AckInit

\* A lane that conflates holds at most one message, and counts its bytes.
THEOREM ConflateInvariant == Spec => []ConflateInv
<1>1. TypeInv /\ PlaceInv /\ ConflateInv /\ [Next]_vars => ConflateInv'
  BY NextConflates
<1>2. QED
  BY <1>1, InitConflates, TypeInvariant, PlaceInvariant, PTL DEF Spec

\* A lane that coalesces or keeps snapshots holds one message at most and
\* never touches the disk, whatever the sizes of the messages.
THEOREM NoBacklogBuilds == Spec => []NoBacklog
<1>1. ConflateInv => NoBacklog
  BY DEF ConflateInv, Conflating, LaneConflates, NoBacklog
<1>2. QED
  BY <1>1, ConflateInvariant, PTL

-----------------------------------------------------------------------------
(* The order of first transmissions.                                       *)

\* The messages of the lane k that wait for their first transmission.
Waiting(k) ==
  {id \in Range(queue[k]) \cup (IF drain[k] = "holding" THEN {held[k]} ELSE {}) :
     attempts[k][id] = 0}

\* A queue that never spills is in the order of publication; nothing younger
\* than a waiting message was sent, and a drain holds the oldest of them.
LaneOrdered(k) ==
  /\ Increasing(queue[k])
  /\ awaiting[k] \subseteq Sent(k)
  /\ \A id \in Waiting(k) : \A later \in Ids : later > id => attempts[k][later] = 0
  /\ drain[k] = "holding" /\ attempts[k][held[k]] = 0 =>
       \A id \in Waiting(k) : held[k] <= id

OrderInv == ~Spilling => \A k \in Lanes : LaneOrdered(k)

LEMMA InitOrdered == Init => OrderInv
BY DEF Init, LaneInit, OrderInv, LaneOrdered, Increasing, Waiting, Range

-----------------------------------------------------------------------------
\* Queues in order.
LEMMA AppendIncreasing ==
  ASSUME NEW q \in Seq(Ids), NEW id \in Ids, Increasing(q),
         \A old \in Range(q) : old < id
  PROVE  Increasing(Append(q, id))
<1>1. Len(q) \in Nat /\ DOMAIN q = 1..Len(q)
  BY LenProperties
<1>2. PICK s : s = Append(q, id)
  OBVIOUS
<1>3. /\ DOMAIN s = 1..(Len(q) + 1) /\ s[Len(q) + 1] = id
      /\ \A i \in 1..Len(q) : s[i] = q[i]
  BY <1>1, <1>2, AppendProperties, LenProperties
<1>4. ASSUME NEW i \in DOMAIN s, NEW j \in DOMAIN s, i < j
      PROVE  s[i] < s[j]
  <2>1. i \in 1..Len(q) /\ s[i] = q[i]
    BY <1>1, <1>3, <1>4
  <2>2. CASE j = Len(q) + 1
    <3>1. q[i] \in Range(q)
      BY <1>1, <2>1 DEF Range
    <3>2. QED
      BY <1>3, <2>1, <2>2, <3>1
  <2>3. CASE j # Len(q) + 1
    <3>1. j \in 1..Len(q) /\ s[j] = q[j]
      BY <1>1, <1>3, <2>3
    <3>2. QED
      BY <1>1, <1>4, <2>1, <3>1 DEF Increasing
  <2>4. QED
    BY <2>2, <2>3
<1>5. QED
  BY <1>2, <1>4 DEF Increasing

LEMMA SuffixIncreasing ==
  ASSUME NEW q \in Seq(Ids), NEW k \in 0..Len(q), Increasing(q)
  PROVE  Increasing(SubSeq(q, k + 1, Len(q)))
<1>1. /\ Len(q) \in Nat /\ DOMAIN q = 1..Len(q) /\ k \in Nat
      /\ \A j \in 1..Len(q) : q[j] \in Ids
  BY LenProperties, ElementOfSeq
<1>2. PICK s : s = SubSeq(q, k + 1, Len(q))
  OBVIOUS
<1>3. /\ s \in Seq(Ids)
      /\ Len(s) = IF k + 1 <= Len(q) THEN Len(q) - (k + 1) + 1 ELSE 0
      /\ \A i \in 1..(Len(q) - (k + 1) + 1) : s[i] = q[(k + 1) + i - 1]
  <2>1. \A j \in (k + 1)..Len(q) : q[j] \in Ids
    BY <1>1
  <2>2. QED
    BY <1>1, <1>2, <2>1, SubSeqProperties
<1>4. ASSUME NEW i \in DOMAIN s, NEW j \in DOMAIN s, i < j
      PROVE  s[i] < s[j]
  <2>1. /\ DOMAIN s = 1..Len(s) /\ Len(s) = Len(q) - k
    BY <1>1, <1>3, LenProperties
  <2>2. /\ i + k \in 1..Len(q) /\ (k + 1) + i - 1 = i + k
        /\ j + k \in 1..Len(q) /\ (k + 1) + j - 1 = j + k
        /\ i \in 1..(Len(q) - (k + 1) + 1) /\ j \in 1..(Len(q) - (k + 1) + 1)
        /\ i + k < j + k
    BY <1>1, <1>4, <2>1
  <2>3. s[i] = q[i + k] /\ s[j] = q[j + k]
    BY <1>3, <2>2
  <2>4. QED
    BY <1>1, <2>2, <2>3 DEF Increasing
<1>5. QED
  BY <1>2, <1>4 DEF Increasing

LEMMA WithoutIncreasing ==
  ASSUME NEW q \in Seq(Ids), NEW id, Increasing(q)
  PROVE  Increasing(Without(q, id))
<1>1. CASE id \notin Range(q)
  BY <1>1 DEF Without
<1>2. CASE id \in Range(q)
  <2>1. Len(q) \in Nat /\ DOMAIN q = 1..Len(q)
    BY LenProperties
  <2>2. PICK i : i = Min({j \in DOMAIN q : q[j] = id})
    OBVIOUS
  <2>3. i \in 1..Len(q)
    <3>1. /\ {j \in DOMAIN q : q[j] = id} # {}
          /\ {j \in DOMAIN q : q[j] = id} \subseteq Nat
      BY <1>2, <2>1 DEF Range
    <3>2. i \in {j \in DOMAIN q : q[j] = id}
      BY <2>2, <3>1, MinIn
    <3>3. QED
      BY <2>1, <3>2
  <2>4. PICK s : s = RemoveAt(q, i)
    OBVIOUS
  <2>5. /\ DOMAIN s = 1..(Len(q) - 1)
        /\ \A j \in 1..(Len(q) - 1) : s[j] = IF j < i THEN q[j] ELSE q[j + 1]
    BY <2>3, <2>4, RemoveAtProperties
  <2>6. ASSUME NEW a \in DOMAIN s, NEW b \in DOMAIN s, a < b
        PROVE  s[a] < s[b]
    <3>1. PICK x, y : /\ x = (IF a < i THEN a ELSE a + 1)
                      /\ y = (IF b < i THEN b ELSE b + 1)
      OBVIOUS
    <3>2. x \in 1..Len(q) /\ y \in 1..Len(q) /\ x < y
      BY <2>1, <2>3, <2>5, <2>6, <3>1
    <3>3. s[a] = q[x] /\ s[b] = q[y]
      BY <2>5, <2>6, <3>1
    <3>4. QED
      BY <2>1, <3>2, <3>3 DEF Increasing
  <2>7. Without(q, id) = s
    BY <1>2, <2>2, <2>4 DEF Without
  <2>8. QED
    BY <2>6, <2>7 DEF Increasing
<1>3. QED
  BY <1>1, <1>2

\* A BEST_EFFORT drain takes the oldest entry.
LEMMA HeadIsOldest ==
  ASSUME NEW q \in Seq(Ids), q # <<>>, Increasing(q)
  PROVE  /\ Increasing(Tail(q))
         /\ \A id \in Range(q) : Head(q) <= id
<1>1. /\ Len(q) \in Nat /\ DOMAIN q = 1..Len(q) /\ Len(q) >= 1
      /\ Head(q) = q[1] /\ \A j \in 1..Len(q) : q[j] \in Nat
  <2>1. Len(q) \in Nat /\ DOMAIN q = 1..Len(q) /\ Head(q) = q[1] /\ Len(q) # 0
    BY LenProperties, EmptySeq, HeadTailProperties
  <2>2. \A j \in 1..Len(q) : q[j] \in Ids
    BY ElementOfSeq
  <2>3. QED
    BY <2>1, <2>2 DEF Ids
<1>2. PICK t : t = Tail(q)
  OBVIOUS
<1>3. /\ DOMAIN t = 1..(Len(q) - 1)
      /\ \A i \in 1..(Len(q) - 1) : t[i] = q[i + 1]
  BY <1>1, <1>2, HeadTailProperties, LenProperties
<1>4. ASSUME NEW i \in DOMAIN t, NEW j \in DOMAIN t, i < j
      PROVE  t[i] < t[j]
  <2>1. i + 1 \in 1..Len(q) /\ j + 1 \in 1..Len(q) /\ i + 1 < j + 1
    BY <1>1, <1>3, <1>4
  <2>2. QED
    BY <1>1, <1>3, <2>1 DEF Increasing
<1>5. ASSUME NEW j \in DOMAIN q
      PROVE  q[1] <= q[j]
  <2>1. CASE j = 1
    BY <1>1, <2>1
  <2>2. CASE j # 1
    <3>1. 1 \in DOMAIN q /\ 1 < j
      BY <1>1, <2>2
    <3>2. q[1] < q[j]
      BY <3>1 DEF Increasing
    <3>3. QED
      BY <1>1, <3>1, <3>2
  <2>3. QED
    BY <2>1, <2>2
<1>6. QED
  BY <1>1, <1>2, <1>4, <1>5 DEF Increasing, Range

\* An AT_LEAST_ONCE drain takes the oldest entry that is not in flight.
LEMMA FirstUnsentIsOldest ==
  ASSUME NEW q \in Seq(Ids), Increasing(q), NEW flagged, Unsent(q, flagged) # {}
  PROVE  \A id \in Range(q) \ flagged : FirstUnsent(q, flagged) <= id
<1>1. DOMAIN q = 1..Len(q) /\ \A j \in 1..Len(q) : q[j] \in Nat
  <2>1. \A j \in 1..Len(q) : q[j] \in Ids
    BY ElementOfSeq
  <2>2. QED
    BY <2>1, LenProperties DEF Ids
<1>2. PICK m : m = Min(Unsent(q, flagged))
  OBVIOUS
<1>3. m \in Unsent(q, flagged) /\ \A j \in Unsent(q, flagged) : m <= j
  <2>1. Unsent(q, flagged) \subseteq Nat
    BY <1>1, LenProperties DEF Unsent
  <2>2. QED
    BY <1>2, <2>1, MinIn
<1>4. ASSUME NEW j \in DOMAIN q, q[j] \notin flagged
      PROVE  q[m] <= q[j]
  <2>1. m \in 1..Len(q) /\ j \in 1..Len(q) /\ m <= j
    BY <1>1, <1>3, <1>4 DEF Unsent
  <2>2. CASE m = j
    BY <1>1, <2>1, <2>2
  <2>3. CASE m # j
    <3>1. m < j
      BY <2>1, <2>3, LenProperties
    <3>2. q[m] < q[j]
      BY <1>1, <2>1, <3>1 DEF Increasing
    <3>3. QED
      BY <1>1, <2>1, <3>2
  <2>4. QED
    BY <2>2, <2>3
<1>5. QED
  BY <1>2, <1>4 DEF FirstUnsent, Range

\* Every enqueue puts the newest message at the end: tryCoalesce replaces the
\* last entry, as only an AT_LEAST_ONCE lane has entries in flight behind one.
LEMMA EnqueueIncreasing ==
  ASSUME NEW l, NEW n, NEW id \in Ids, queue[l] \in Seq(Ids), Increasing(queue[l]),
         \A old \in Range(queue[l]) : old < id, Coalesce => awaiting[l] = {}
  PROVE  Increasing(QueueAfter(l, id, n))
<1>1. PICK status : status = EnqueueStatus(l, n)
  OBVIOUS
<1>2. CASE status = "ACCEPTED"
  <2>1. QueueAfter(l, id, n) = Append(queue[l], id)
    BY <1>1, <1>2 DEF QueueAfter
  <2>2. QED
    BY <2>1, AppendIncreasing
<1>3. CASE status = "REPLACED_SNAPSHOT"
  <2>1. QueueAfter(l, id, n) = <<id>>
    BY <1>1, <1>3 DEF QueueAfter
  <2>2. QED
    BY <2>1 DEF Increasing
<1>4. CASE status = "COALESCED"
  <2>1. Coalescable(l) # {} /\ Coalescable(l) = DOMAIN queue[l]
    BY <1>1, <1>4 DEF EnqueueStatus, Coalesces, Coalescable, Unsent
  <2>2. Len(queue[l]) \in Nat /\ DOMAIN queue[l] = 1..Len(queue[l])
    BY LenProperties
  <2>3. PICK i : i = Max(Coalescable(l))
    OBVIOUS
  <2>4. i \in DOMAIN queue[l] /\ \A j \in DOMAIN queue[l] : i >= j
    BY <2>1, <2>2, <2>3, MaxIn
  <2>5. QueueAfter(l, id, n) = [queue[l] EXCEPT ![i] = id]
    BY <1>1, <1>4, <2>3 DEF QueueAfter
  <2>6. ASSUME NEW a \in DOMAIN queue[l], NEW b \in DOMAIN queue[l], a < b
        PROVE  [queue[l] EXCEPT ![i] = id][a] < [queue[l] EXCEPT ![i] = id][b]
    <3>1. a # i
      BY <2>2, <2>4, <2>6
    <3>2. queue[l][a] < queue[l][b] /\ queue[l][a] < id
      BY <2>6 DEF Increasing, Range
    <3>3. QED
      BY <2>4, <3>1, <3>2
  <2>7. QED
    BY <2>5, <2>6 DEF Increasing
<1>5. CASE status = "DROPPED_OLDEST_AND_ACCEPTED"
  <2>1. QueueAfter(l, id, n) = Append(AfterDrop(l, n), id)
    BY <1>1, <1>5 DEF QueueAfter
  <2>2. DropCount(l, n) \in 0..Len(queue[l])
    BY DropCountIn
  <2>3. /\ AfterDrop(l, n) \in Seq(Ids) /\ Increasing(AfterDrop(l, n))
        /\ Range(AfterDrop(l, n)) \subseteq Range(queue[l])
    BY <2>2, SuffixApart, SuffixIncreasing DEF AfterDrop
  <2>4. QED
    BY <2>1, <2>3, AppendIncreasing
<1>6. CASE status \notin {"ACCEPTED", "REPLACED_SNAPSHOT", "COALESCED",
                          "DROPPED_OLDEST_AND_ACCEPTED"}
  BY <1>1, <1>6 DEF QueueAfter
<1>7. QED
  BY <1>2, <1>3, <1>4, <1>5, <1>6

-----------------------------------------------------------------------------
\* Steps that send nothing, and at most take entries out of the queue.
LEMMA OrderKept ==
  ASSUME TypeInv, NEW k \in Lanes, LaneOrdered(k), Increasing(queue'[k]),
         Range(queue'[k]) \subseteq Range(queue[k]),
         awaiting'[k] \subseteq awaiting[k], attempts'[k] = attempts[k],
         drain'[k] = "holding" => drain[k] = "holding" /\ held'[k] = held[k]
  PROVE  LaneOrdered(k)'
<1>1. Waiting(k)' \subseteq Waiting(k) /\ Sent(k)' = Sent(k)
  BY DEF Waiting, Sent
<1>2. QED
  BY <1>1 DEF LaneOrdered

LEMMA EventOrdered ==
  ASSUME TypeInv, PlaceInv, SocketEvent \/ Retrying, NEW k \in Lanes, LaneOrdered(k)
  PROVE  LaneOrdered(k)'
<1>1. Kept(k)
  BY EventKeeps
<1>2. /\ UNCHANGED attempts
      /\ queue \in [Lanes -> Seq(Ids)] /\ awaiting \in [Lanes -> SUBSET Ids]
  BY DEF SocketEvent, Connect, Disconnect, Stop, Leave, Subscribe, Unsubscribe,
     Ack, Retrying, RetryTick, HandleDecision, TypeInv, TypeOK, LaneTypeOK
<1>3. /\ awaiting'[k] \subseteq awaiting[k]
      /\ queue'[k] = queue[k] \/ \E id : queue'[k] = Without(queue[k], id)
  <2>1. CASE SocketEvent /\ ~\E l \in Lanes, id \in Ids : Ack(l, id)
    BY <2>1 DEF SocketEvent, Connect, Disconnect, Stop, Leave, Subscribe,
       Unsubscribe, laneVars
  <2>2. ASSUME NEW l \in Lanes, NEW id \in Ids, Ack(l, id)
        PROVE  /\ awaiting'[k] \subseteq awaiting[k]
               /\ queue'[k] \in {queue[k], Without(queue[k], id)}
    BY <1>2, <2>2 DEF Ack, RemoveByMessageId
  <2>3. ASSUME NEW expired \in SUBSET Tracked, RetryTick(expired)
        PROVE  awaiting'[k] \subseteq awaiting[k] /\ queue'[k] = queue[k]
    BY <2>3 DEF RetryTick
  <2>4. ASSUME NEW d \in decisions, HandleDecision(d)
        PROVE  /\ awaiting'[k] \subseteq awaiting[k]
               /\ queue'[k] \in {queue[k], Without(queue[k], d.id)}
    BY <1>2, <2>4, HandleDecisionLane
  <2>5. QED
    BY <2>1, <2>2, <2>3, <2>4 DEF SocketEvent, Retrying
<1>4. Increasing(queue'[k])
  BY <1>2, <1>3, WithoutIncreasing DEF LaneOrdered
<1>5. QED
  BY <1>1, <1>2, <1>3, <1>4, OrderKept DEF Kept

\* A publication is younger than everything else.
LEMMA DeliverOrdered ==
  ASSUME TypeInv, PlaceInv, AgreeInv, UntriedInv, NEW S \in SUBSET Lanes,
         NEW n \in Sizes, Deliver(S, n), NEW k \in Lanes, LaneOrdered(k)
  PROVE  LaneOrdered(k)'
<1>1. PICK id : id = nextSequence
  OBVIOUS
<1>2. /\ id \in Ids /\ UNCHANGED <<attempts, awaiting>>
      /\ queue' = [l \in Lanes |-> IF l \in S THEN QueueAfter(l, id, n)
                                              ELSE queue[l]]
  BY <1>1 DEF Deliver, EnqueueAll
<1>3. /\ drain'[k] = "holding" => drain[k] = "holding"
      /\ held'[k] = held[k]
  BY ScheduleKeeps DEF Deliver
<1>4. CASE k \notin S
  BY <1>2, <1>3, <1>4, OrderKept DEF LaneOrdered
<1>5. CASE k \in S
  <2>1. /\ queue[k] \in Seq(Ids) /\ IsInjective(queue[k]) /\ id \in Nat
        /\ \A old \in Range(queue[k]) : old < id
        /\ drain[k] = "holding" => held[k] < id /\ held[k] \in Nat
    BY <1>1, PlaceTypes DEF PlaceInv, LanePlaced
  <2>2. Coalesce => awaiting[k] = {}
    <3>1. Reliable => ~Coalesce
      BY InstanceAssumption DEF TypeInv, TypeOK, ValidPolicy, Reliable, Coalesce
    <3>2. QED
      BY <3>1 DEF AgreeInv, LaneAgrees
  <2>3. id \notin Range(queue[k])
    BY <2>1
  <2>4. /\ Increasing(queue'[k])
        /\ Range(queue'[k]) \subseteq Range(queue[k]) \cup {id}
    BY <1>2, <1>5, <2>1, <2>2, <2>3, EnqueueIncreasing, EnqueueApart DEF LaneOrdered
  <2>5. \A later \in Ids : later >= id => attempts[k][later] = 0
    BY <1>1 DEF UntriedInv, Untried
  <2>6. Waiting(k)' \subseteq Waiting(k) \cup {id}
    BY <1>2, <1>3, <2>4 DEF Waiting
  <2>7. \A old \in Waiting(k)' : \A later \in Ids :
          later > old => attempts'[k][later] = 0
    <3>1. \A later \in Ids : later > id => later >= id
      BY <2>1 DEF Ids
    <3>2. QED
      BY <1>2, <2>5, <2>6, <3>1 DEF LaneOrdered
  <2>8. drain'[k] = "holding" /\ attempts'[k][held'[k]] = 0 =>
          \A old \in Waiting(k)' : held'[k] <= old
    BY <1>2, <1>3, <2>1, <2>6 DEF LaneOrdered
  <2>9. Sent(k)' = Sent(k)
    BY <1>2 DEF Sent
  <2>10. QED
    BY <1>2, <2>4, <2>7, <2>8, <2>9 DEF LaneOrdered
<1>6. QED
  BY <1>4, <1>5

\* What the drain of l finds at its next await: a queue in order, of which
\* nothing waits behind a message that was sent.
OrderedFor(l, q, flagged) ==
  /\ q \in Seq(Ids) /\ Increasing(q)
  /\ flagged \subseteq Sent(l)'
  /\ \A id \in Range(q) : attempts'[l][id] = 0 =>
       \A later \in Ids : later > id => attempts'[l][later] = 0

LEMMA TakeNextOrdered ==
  ASSUME TypeInv, NEW l \in Lanes, NEW q, NEW bytes, NEW flagged, Sound(l, q),
         OrderedFor(l, q, flagged), TakeNext(l, q, bytes, flagged),
         awaiting'[l] = flagged, UNCHANGED policy
  PROVE  LaneOrdered(l)'
<1>1. /\ Range(queue'[l]) \subseteq Range(q) /\ held'[l] \in Range(q)
      /\ queue \in [Lanes -> Seq(Ids)] /\ drain \in [Lanes -> DrainStages]
      /\ held \in [Lanes -> Ids \cup {NoId}] /\ Range(q) \subseteq Ids
  BY TakeNextPlaced, RangeOfQueue DEF TypeInv, TypeOK, LaneTypeOK, Sound
<1>2. /\ Increasing(queue'[l])
      /\ \A id \in Range(q) : attempts'[l][id] = 0 => held'[l] <= id
  <2>1. CASE Reliable
    <3>1. /\ queue'[l] = q /\ held'[l] = FirstUnsent(q, flagged)
          /\ Unsent(q, flagged) # {}
      BY <1>1, <2>1 DEF TakeNext, Goto, Entries
    <3>2. \A id \in Range(q) : attempts'[l][id] = 0 => id \notin flagged
      BY DEF OrderedFor, Sent
    <3>3. QED
      BY <3>1, <3>2, FirstUnsentIsOldest DEF OrderedFor
  <2>2. CASE ~Reliable
    <3>1. /\ queue'[l] = Tail(q) /\ held'[l] = Head(q) /\ DOMAIN q # {}
      BY <1>1, <2>2 DEF TakeNext, Goto, Entries
    <3>2. q # <<>>
      BY <3>1
    <3>3. QED
      BY <3>1, <3>2, HeadIsOldest DEF OrderedFor
  <2>3. QED
    BY <2>1, <2>2
<1>3. Waiting(l)' \subseteq {id \in Range(q) : attempts'[l][id] = 0}
  BY <1>1 DEF Waiting
<1>4. QED
  BY <1>2, <1>3 DEF LaneOrdered, OrderedFor

LEMMA StayOrdered ==
  ASSUME TypeInv, NEW l \in Lanes, NEW q, NEW bytes, NEW flagged,
         OrderedFor(l, q, flagged), NEW stage \in {"recovering", "ending"},
         Stay(l, q, bytes, stage), awaiting'[l] = flagged
  PROVE  LaneOrdered(l)'
<1>1. queue'[l] = q /\ drain'[l] # "holding"
  BY StayPlaced
<1>2. Waiting(l)' \subseteq {id \in Range(q) : attempts'[l][id] = 0}
  BY <1>1 DEF Waiting
<1>3. QED
  BY <1>1, <1>2 DEF LaneOrdered, OrderedFor

LEMMA LoopHeadOrdered ==
  ASSUME TypeInv, NEW l \in Lanes, NEW q, NEW bytes, NEW flagged, Sound(l, q),
         OrderedFor(l, q, flagged), LoopHead(l, q, bytes, flagged), UNCHANGED policy
  PROVE  LaneOrdered(l)'
<1>1. awaiting'[l] = flagged
  BY DEF LoopHead, TypeInv, TypeOK, LaneTypeOK
<1>2. QED
  BY <1>1, TakeNextOrdered, StayOrdered DEF LoopHead

\* Sending what a drain holds leaves nothing younger sent than what waits.
LEMMA SendOrdered ==
  ASSUME TypeInv, NEW l \in Lanes, LaneOrdered(l), drain[l] = "holding",
         Attempt(l, held[l])
  PROVE  /\ held[l] \in Sent(l)' /\ Sent(l) \subseteq Sent(l)'
         /\ \A id \in Range(queue[l]) : attempts'[l][id] = 0 =>
              \A later \in Ids : later > id => attempts'[l][later] = 0
<1>1. /\ held[l] \in Ids /\ attempts \in [Lanes -> [Ids -> Nat]]
      /\ Range(queue[l]) \subseteq Ids /\ Ids \subseteq Nat
  BY PlaceTypes DEF TypeInv, TypeOK, HeldIsMessage
<1>2. /\ attempts'[l][held[l]] = attempts[l][held[l]] + 1
      /\ \A id \in Ids : id # held[l] => attempts'[l][id] = attempts[l][id]
  BY <1>1 DEF Attempt
<1>3. \A id \in Ids : attempts[l][id] \in Nat
  BY <1>1
<1>4. held[l] \in Sent(l)' /\ Sent(l) \subseteq Sent(l)'
  <2>1. ASSUME NEW id \in Ids, attempts[l][id] > 0
        PROVE  attempts'[l][id] > 0
    <3>1. attempts'[l][id] \in {attempts[l][id], attempts[l][id] + 1}
      BY <1>2
    <3>2. QED
      BY <1>3, <2>1, <3>1
  <2>2. QED
    BY <2>1, HeldIsSent DEF Sent
<1>5. ASSUME NEW id \in Range(queue[l]), attempts'[l][id] = 0,
             NEW later \in Ids, later > id
      PROVE  attempts'[l][later] = 0
  <2>1. id # held[l] /\ attempts[l][id] = 0 /\ id \in Waiting(l)
    <3>1. id \in Ids
      BY <1>1, <1>5
    <3>2. id # held[l]
      <4>1. attempts[l][held[l]] \in Nat
        BY <1>1, <1>3
      <4>2. attempts[l][held[l]] + 1 # 0
        BY <4>1
      <4>3. QED
        BY <1>2, <1>5, <4>2
    <3>3. QED
      BY <1>2, <1>5, <3>1, <3>2 DEF Waiting
  <2>2. attempts[l][later] = 0
    BY <1>5, <2>1 DEF LaneOrdered
  <2>3. later # held[l]
    <3>1. later = held[l] => later <= id
      BY <2>1, <2>2 DEF LaneOrdered
    <3>2. later \in Nat /\ id \in Nat
      BY <1>1, <1>5
    <3>3. QED
      BY <1>5, <3>1, <3>2
  <2>4. QED
    BY <1>2, <2>2, <2>3
<1>6. QED
  BY <1>4, <1>5

LEMMA DrainStepOrdered ==
  ASSUME TypeInv, BudgetInv, AgreeInv, PlaceInv, BoundInv, ~Spilling,
         NEW l \in Lanes, LaneOrdered(l), DrainStep(l)
  PROVE  LaneOrdered(l)'
<1>1. /\ queue[l] \in Seq(Ids) /\ Sound(l, queue[l]) /\ UNCHANGED policy
      /\ Increasing(queue[l]) /\ awaiting[l] \subseteq Sent(l)
      /\ \A id \in Range(queue[l]) : attempts[l][id] = 0 =>
           \A later \in Ids : later > id => attempts[l][later] = 0
  BY PlaceTypes DEF PlaceInv, LanePlaced, Sound, LaneOrdered, Waiting,
     DrainStep, DrainStart, SendHeld, SendHeldFails, Refill, DrainEnd, registryVars
<1>2. ASSUME UNCHANGED attempts
      PROVE  OrderedFor(l, queue[l], awaiting[l])
  BY <1>1, <1>2 DEF OrderedFor, Sent
<1>3. CASE DrainStart(l)
  <2>1. LoopHead(l, queue[l], queuedBytes[l], awaiting[l]) /\ UNCHANGED attempts
    BY <1>3 DEF DrainStart
  <2>2. QED
    BY <1>1, <1>2, <2>1, LoopHeadOrdered
<1>4. CASE SendHeld(l)
  <2>1. drain[l] = "holding" /\ Attempt(l, held[l])
    BY <1>4 DEF SendHeld
  <2>2. PICK flagged \in {awaiting[l], awaiting[l] \cup {held[l]}} :
          LoopHead(l, queue[l], queuedBytes[l], flagged)
    BY <1>4 DEF SendHeld
  <2>3. OrderedFor(l, queue[l], flagged)
    BY <1>1, <2>1, <2>2, SendOrdered DEF OrderedFor
  <2>4. QED
    BY <1>1, <2>2, <2>3, LoopHeadOrdered
<1>5. CASE SendHeldFails(l)
  <2>1. drain[l] = "holding" /\ Attempt(l, held[l])
    BY <1>5 DEF SendHeldFails
  <2>2. PICK q : q = Without(queue[l], held[l])
    OBVIOUS
  <2>3. PICK bytes, flagged :
          LoopHead(l, q, bytes, flagged) /\ flagged = awaiting[l] \ {held[l]}
    BY <1>5, <2>2 DEF SendHeldFails
  <2>4. /\ q \in Seq(Ids) /\ Increasing(q) /\ IsInjective(q)
        /\ Range(q) = Range(queue[l]) \ {held[l]}
    BY <1>1, <2>2, WithoutApart, WithoutIncreasing DEF Sound
  <2>5. Sound(l, q)
    BY <1>1, <2>4 DEF Sound
  <2>6. OrderedFor(l, q, flagged)
    BY <1>1, <2>1, <2>3, <2>4, SendOrdered DEF OrderedFor
  <2>7. QED
    BY <1>1, <2>3, <2>5, <2>6, LoopHeadOrdered
<1>6. CASE Refill(l)
  <2>1. recovered[l] = <<>> /\ UNCHANGED <<attempts, awaiting>>
    BY <1>6 DEF BoundInv, LaneBounded, Refill
  <2>2. Refilled(l) = queue[l]
    BY <1>1, <2>1 DEF Refilled
  <2>3. PICK bytes : \/ TakeNext(l, queue[l], bytes, awaiting[l])
                     \/ Stay(l, queue[l], bytes, "ending")
    BY <1>6, <2>2 DEF Refill
  <2>4. QED
    BY <1>1, <1>2, <2>1, <2>3, TakeNextOrdered, StayOrdered
<1>7. CASE DrainEnd(l)
  <2>1. /\ UNCHANGED <<queue, awaiting, attempts>> /\ drain'[l] # "holding"
    BY <1>7 DEF DrainEnd, laneVars, Goto, TypeInv, TypeOK
  <2>2. QED
    BY <1>1, <2>1, OrderKept
<1>8. QED
  BY <1>3, <1>4, <1>5, <1>6, <1>7 DEF DrainStep

LEMMA NextOrdered ==
  ASSUME TypeInv, BudgetInv, AgreeInv, PlaceInv, UntriedInv, BoundInv, OrderInv,
         [Next]_vars
  PROVE  OrderInv'
<1> SUFFICES ASSUME ~Spilling', NEW k \in Lanes
             PROVE  LaneOrdered(k)'
  BY DEF OrderInv
<1>1. UNCHANGED policy
  BY DEF Next, SocketEvent, Publication, Publish, PublishTo, Deliver, Retrying,
     RetryTick, HandleDecision, DrainStep, DrainStart, SendHeld, SendHeldFails, Refill,
     DrainEnd, FileEvent, Completes, Connect, Disconnect, Stop, Leave, Subscribe,
     Unsubscribe, Ack, registryVars, vars
<1>2. ~Spilling /\ LaneOrdered(k)
  BY <1>1 DEF OrderInv, Spilling, Overflow
<1>3. CASE SocketEvent \/ Retrying
  BY <1>2, <1>3, EventOrdered
<1>4. CASE Publication
  BY <1>2, <1>4, PublicationIsDelivery, DeliverOrdered
<1>5. ASSUME UNCHANGED <<queue, awaiting, attempts, drain, held>>
      PROVE  LaneOrdered(k)'
  BY <1>2, <1>5, OrderKept DEF LaneOrdered
<1>6. ASSUME NEW l \in Lanes, DrainStep(l)
      PROVE  LaneOrdered(k)'
  <2>1. CASE k = l
    BY <1>2, <1>6, <2>1, DrainStepOrdered
  <2>2. CASE k # l
    <3>1. OthersKept(l)
      BY <1>6, DrainStepLane
    <3>2. attempts'[k] = attempts[k]
      BY <1>6, <2>2 DEF DrainStep, DrainStart, SendHeld, SendHeldFails, Refill,
         DrainEnd, Attempt, TypeInv, TypeOK
    <3>3. QED
      BY <1>2, <2>2, <3>1, <3>2, OrderKept DEF OthersKept, LaneOrdered
  <2>3. QED
    BY <2>1, <2>2
<1>7. ASSUME NEW l \in Lanes, FileEvent(l)
      PROVE  LaneOrdered(k)'
  BY <1>5, <1>7, FileEventIsOperation DEF laneVars, drainVars
<1>8. CASE UNCHANGED vars
  BY <1>5, <1>8 DEF vars, laneVars, drainVars
<1>9. QED
  BY <1>3, <1>4, <1>6, <1>7, <1>8 DEF Next

\* The inductive invariant behind InMemoryOrder.
THEOREM OrderInvariant == Spec => []OrderInv
<1>1. TypeInv /\ BudgetInv /\ AgreeInv /\ PlaceInv /\ UntriedInv /\ BoundInv
        /\ OrderInv /\ [Next]_vars => OrderInv'
  BY NextOrdered
<1>2. QED
  BY <1>1, InitOrdered, TypeInvariant, BudgetInvariant, AgreeInvariant,
     PlaceInvariant, UntriedInvariant, BoundInvariant, PTL DEF Spec

\* A policy that keeps its queue in memory transmits the messages of a lane for
\* the first time in the order of their publication: no retry, coalescing,
\* dropped entry or ack lets a younger message overtake one that waits.
THEOREM SentInPublicationOrder == Spec => InMemoryOrder
<1>1. TypeInv /\ OrderInv /\ [Next]_vars => [~Spilling => SentInOrder]_vars
  <2> SUFFICES ASSUME TypeInv, OrderInv, [Next]_vars, ~Spilling,
                      NEW l \in Lanes, NEW id \in Ids,
                      attempts[l][id] = 0, attempts'[l][id] > 0,
                      NEW later \in Ids, later > id
               PROVE  attempts[l][later] = 0
    BY DEF SentInOrder
  <2>1. attempts \in [Lanes -> [Ids -> Nat]] /\ LaneOrdered(l)
    BY DEF TypeInv, TypeOK, OrderInv
  <2>2. PICK k \in Lanes : /\ drain[k] = "holding"
                           /\ attempts' = [attempts EXCEPT ![k][held[k]] = @ + 1]
    BY <2>1, OnlyDrainsSend
  <2>3. k = l /\ held[k] = id
    BY <2>1, <2>2
  <2>4. id \in Waiting(l)
    BY <2>2, <2>3 DEF Waiting
  <2>5. QED
    BY <2>1, <2>4 DEF LaneOrdered
<1>2. QED
  BY <1>1, TypeInvariant, OrderInvariant, PTL DEF Spec, InMemoryOrder

-----------------------------------------------------------------------------
(* Nothing comes back.                                                     *)

\* What is stored was accepted, and in a BEST_EFFORT lane it was never sent.
LaneStored(k) ==
  /\ Stored(k) \subseteq accepted[k]
  /\ ~Reliable => \A id \in Stored(k) : attempts[k][id] = 0

StoredInv == \A k \in Lanes : LaneStored(k)

\* A step that stores only what was stored, and not sent in it by BEST_EFFORT,
\* or what it accepts.
StoresOnly(k) ==
  /\ accepted[k] \subseteq accepted'[k]
  /\ \A id \in Stored(k)' :
       \/ id \in Stored(k) /\ (~Reliable => attempts'[k][id] = attempts[k][id])
       \/ id \in accepted'[k] /\ attempts'[k][id] = 0

LEMMA StoresOnlyStored ==
  ASSUME NEW k \in Lanes, LaneStored(k), StoresOnly(k), UNCHANGED policy
  PROVE  LaneStored(k)'
BY DEF LaneStored, StoresOnly, Reliable

\* Steps that leave a lane and its drain's hands alone.
LaneSame(k) ==
  /\ queue'[k] = queue[k] /\ recovered'[k] = recovered[k]
  /\ writing'[k] = writing[k] /\ files'[k] = files[k]
  /\ drain'[k] = "holding" <=> drain[k] = "holding"
  /\ held'[k] = held[k]
  /\ attempts'[k] = attempts[k] /\ accepted'[k] = accepted[k]

LEMMA LaneSameStored ==
  ASSUME NEW k, LaneSame(k)
  PROVE  Stored(k)' = Stored(k) /\ StoresOnly(k)
BY DEF LaneSame, Stored, OnDisk, StoresOnly

LEMMA ScheduleSame ==
  ASSUME NEW S, ScheduleDrain(S), NEW k \in Lanes
  PROVE  /\ drain'[k] = "holding" <=> drain[k] = "holding"
         /\ held'[k] = held[k]
BY DEF ScheduleDrain

\* Sessions, subscriptions and passes of the timer leave every lane as it is.
LEMMA RegistrySame ==
  ASSUME \/ \E c \in Clients : Connect(c)
         \/ \E S \in SUBSET Clients : Leave(S)
         \/ \E c \in Clients, t \in Topics : Subscribe(c, t) \/ Unsubscribe(c, t)
         \/ \E expired \in SUBSET Tracked : RetryTick(expired),
         NEW k \in Lanes
  PROVE  LaneSame(k) /\ UNCHANGED <<policy, attempts, nextSequence>>
BY DEF Connect, Leave, Subscribe, Unsubscribe, RetryTick, StartClears, laneVars,
   spillVars, drainVars, registryVars, LaneSame

\* An ack, or an exhausted budget, takes a sent message out of its queue.
Removes(l, id) ==
  /\ queue'[l] = Without(queue[l], id) /\ id \in Sent(l)
  /\ Range(queue'[l]) = Range(queue[l]) \ {id}
  /\ UNCHANGED <<spillVars, attempts, accepted>>
  /\ drain'[l] = "holding" <=> drain[l] = "holding"
  /\ held'[l] = held[l]

LEMMA AckRemoves ==
  ASSUME TypeInv, PlaceInv, NEW l \in Lanes, NEW id \in Ids, Ack(l, id)
  PROVE  /\ Removes(l, id) /\ \A k \in Lanes : k # l => LaneSame(k)
         /\ UNCHANGED <<policy, session, attempts, nextSequence>>
<1>1. queue \in [Lanes -> Seq(Ids)]
  BY DEF TypeInv, TypeOK, LaneTypeOK
<1>2. /\ queue' = [queue EXCEPT ![l] = Without(@, id)] /\ id \in Sent(l)
      /\ UNCHANGED <<spillVars, policy, session, attempts, accepted, nextSequence>>
  BY DEF Ack, RemoveByMessageId, registryVars, Sent
<1>3. \A k \in Lanes : /\ drain'[k] = "holding" <=> drain[k] = "holding"
                       /\ held'[k] = held[k]
  BY ScheduleSame DEF Ack
<1>4. queue'[l] = Without(queue[l], id) /\ \A k \in Lanes : k # l => queue'[k] = queue[k]
  BY <1>1, <1>2
<1>5. Range(queue'[l]) = Range(queue[l]) \ {id}
  BY <1>4, PlaceTypes, WithoutApart DEF PlaceInv, LanePlaced
<1>6. QED
  BY <1>2, <1>3, <1>4, <1>5 DEF Removes, LaneSame, spillVars

LEMMA DecisionRemoves ==
  ASSUME TypeInv, PlaceInv, SentInv, NEW d \in decisions, HandleDecision(d)
  PROVE  /\ d.lane \in Lanes /\ d.id \in Ids
         /\ LaneSame(d.lane) \/ Removes(d.lane, d.id)
         /\ \A k \in Lanes : k # d.lane => LaneSame(k)
         /\ UNCHANGED <<policy, session, attempts, nextSequence>>
<1>1. /\ queue \in [Lanes -> Seq(Ids)] /\ d.lane \in Lanes /\ d.id \in Ids
      /\ d.id \in Sent(d.lane)
  BY DEF TypeInv, TypeOK, LaneTypeOK, AckTypeOK, Decision, SentInv
<1>2. UNCHANGED <<spillVars, policy, session, attempts, accepted, nextSequence>>
  BY DEF HandleDecision, registryVars
<1>3. \A k \in Lanes : /\ drain'[k] = "holding" <=> drain[k] = "holding"
                       /\ held'[k] = held[k]
  BY ScheduleSame DEF HandleDecision, HandleRetry, HandleExhausted, drainVars
<1>4. /\ queue'[d.lane] = queue[d.lane] \/ queue'[d.lane] = Without(queue[d.lane], d.id)
      /\ \A k \in Lanes : k # d.lane => queue'[k] = queue[k]
  BY <1>1, HandleDecisionLane
<1>5. Range(Without(queue[d.lane], d.id)) = Range(queue[d.lane]) \ {d.id}
  BY <1>1, PlaceTypes, WithoutApart DEF PlaceInv, LanePlaced
<1>6. QED
  BY <1>1, <1>2, <1>3, <1>4, <1>5 DEF Removes, LaneSame, spillVars

LEMMA RemovesStored ==
  ASSUME NEW l \in Lanes, NEW id, Removes(l, id)
  PROVE  /\ StoresOnly(l)
         /\ \A other \in Ids \ {id} : other \in Stored(l)' <=> other \in Stored(l)
BY DEF Removes, Stored, OnDisk, StoresOnly, spillVars

\* The at-least-once policies keep what they accept.
LEMMA ReliableKeeps ==
  ASSUME TypeInv, Reliable
  PROVE  Keeping
BY InstanceAssumption
   DEF TypeInv, TypeOK, ValidPolicy, Reliable, Keeping, Spilling, Overflow, Coalesce

\* The lane k has accepted the message id, perhaps for older ones.
Accepts(k, id) ==
  /\ attempts[k][id] = 0 /\ attempts'[k] = attempts[k]
  /\ accepted'[k] = accepted[k] \cup {id}
  /\ id \in Stored(k)' /\ Stored(k)' \subseteq Stored(k) \cup {id}
  /\ Keeping => /\ Stored(k) \subseteq Stored(k)'
                /\ Range(queue[k]) \subseteq Range(queue'[k])
                /\ Range(queue'[k]) \subseteq Range(queue[k]) \cup {id}

LEMMA DeliverAccepts ==
  ASSUME TypeInv, PlaceInv, UntriedInv, NEW S \in SUBSET Lanes, NEW n \in Sizes,
         Deliver(S, n)
  PROVE  /\ nextSequence \in Ids /\ nextSequence' = nextSequence + 1
         /\ UNCHANGED <<policy, session, attempts>>
         /\ \E kept \in SUBSET S : \A k \in Lanes :
              IF k \in kept THEN Accepts(k, nextSequence) ELSE LaneSame(k)
<1>1. PICK id, kept : id = nextSequence /\ kept = S \ {l \in S : EnqueueStatus(l, n) = "REJECTED"}
  OBVIOUS
<1>2. /\ id \in Ids /\ nextSequence' = id + 1
      /\ UNCHANGED <<files, recovered, policy, session, attempts>>
      /\ queue' = [l \in Lanes |-> IF l \in S THEN QueueAfter(l, id, n)
                                              ELSE queue[l]]
      /\ writing' = [l \in Lanes |->
           IF l \in {m \in S : EnqueueStatus(m, n) = "SPILLED"}
             THEN writing[l] \cup {id} ELSE writing[l]]
      /\ accepted' = [l \in Lanes |-> IF l \in kept THEN accepted[l] \cup {id}
                                                    ELSE accepted[l]]
  BY <1>1 DEF Deliver, EnqueueAll, SpillAll, registryVars
<1>3. \A k \in Lanes : /\ drain'[k] = "holding" <=> drain[k] = "holding"
                       /\ held'[k] = held[k]
  BY ScheduleSame DEF Deliver
<1>4. /\ accepted \in [Lanes -> SUBSET Ids] /\ writing \in [Lanes -> SUBSET Ids]
      /\ attempts \in [Lanes -> [Ids -> Nat]]
  BY DEF TypeInv, TypeOK, SpillTypeOK
<1>5. ASSUME NEW k \in Lanes, k \notin kept
      PROVE  LaneSame(k)
  <2>1. CASE k \in S
    <3>1. EnqueueStatus(k, n) = "REJECTED"
      BY <1>1, <1>5, <2>1
    <3>2. QueueAfter(k, id, n) = queue[k]
      BY <3>1 DEF QueueAfter
    <3>3. QED
      BY <1>2, <1>3, <1>4, <1>5, <2>1, <3>1, <3>2 DEF LaneSame
  <2>2. CASE k \notin S
    BY <1>2, <1>3, <1>4, <1>5, <2>2 DEF LaneSame
  <2>3. QED
    BY <2>1, <2>2
<1>6. ASSUME NEW k \in kept
      PROVE  Accepts(k, id)
  <2>1. k \in S /\ k \in Lanes /\ EnqueueStatus(k, n) # "REJECTED" /\ queue[k] \in Seq(Ids)
    BY <1>1, <1>6, PlaceTypes
  <2>2. id \in Untried(k) /\ id \notin Range(queue[k]) /\ IsInjective(queue[k])
    <3>1. id \in Nat /\ id >= nextSequence /\ ~(id < nextSequence)
      BY <1>1, <1>2 DEF Ids
    <3>2. QED
      BY <1>2, <2>1, <3>1 DEF Untried, PlaceInv, LanePlaced
  <2>3. attempts[k][id] = 0
    BY <2>1, <2>2 DEF UntriedInv
  <2>4. queue'[k] = QueueAfter(k, id, n)
    BY <1>2, <2>1
  <2>5. Range(queue'[k]) \subseteq Range(queue[k]) \cup {id}
    BY <1>2, <2>1, <2>2, <2>4, EnqueueApart
  <2>6. /\ OnDisk(k) \subseteq OnDisk(k)' /\ OnDisk(k)' \subseteq OnDisk(k) \cup {id}
        /\ EnqueueStatus(k, n) = "SPILLED" => id \in OnDisk(k)'
    BY <1>2, <2>1 DEF OnDisk
  <2>7. id \in Range(queue'[k]) \cup OnDisk(k)'
    BY <1>2, <2>1, <2>4, <2>6, EnqueueStores
  <2>8. Keeping => Range(queue[k]) \subseteq Range(queue'[k])
    BY <1>2, <2>1, <2>4, EnqueueKeeps
  <2>9. id \in Stored(k)' /\ Stored(k)' \subseteq Stored(k) \cup {id}
    BY <1>2, <1>3, <2>1, <2>5, <2>6, <2>7 DEF Stored
  <2>10. Keeping => Stored(k) \subseteq Stored(k)'
    BY <1>2, <1>3, <2>1, <2>6, <2>8 DEF Stored
  <2>11. QED
    BY <1>2, <1>6, <2>1, <2>3, <2>5, <2>8, <2>9, <2>10 DEF Accepts
<1>7. QED
  BY <1>1, <1>2, <1>5, <1>6

\* The next await of the drain of l: the entries of q stay in its queue or in
\* its hands.
LEMMA LoopHeadStored ==
  ASSUME TypeInv, PlaceInv, NEW l \in Lanes, NEW q, Sound(l, q), NEW bytes,
         NEW flagged, LoopHead(l, q, bytes, flagged), recovery[l] = "none"
  PROVE  /\ Stored(l)' = Range(q) \cup OnDisk(l)
         /\ Reliable => queue'[l] = q
<1>1. /\ queue \in [Lanes -> Seq(Ids)] /\ recovered \in [Lanes -> Seq(Ids)]
      /\ LanePlaced(l)
  BY DEF TypeInv, TypeOK, LaneTypeOK, SpillTypeOK, PlaceInv
<1>2. UNCHANGED <<writing, files>> /\ recovered'[l] = <<>>
  BY <1>1 DEF LoopHead, StartRecover, spillVars, LanePlaced
<1>3. Range(recovered'[l]) = {} /\ OnDisk(l)' = OnDisk(l)
  BY <1>2 DEF Range, OnDisk
<1>4. CASE TakeNext(l, q, bytes, flagged)
  <2>1. Range(queue'[l]) \subseteq Range(q) /\ held'[l] \in Range(q)
    BY <1>4, TakeNextPlaced
  <2>2. Range(q) \subseteq Range(queue'[l])
                           \cup (IF drain'[l] = "holding" THEN {held'[l]} ELSE {})
    BY <1>4, TakeNextKeeps
  <2>3. Reliable => queue'[l] = q
    BY <1>1, <1>4 DEF TakeNext
  <2>4. QED
    BY <1>3, <2>1, <2>2, <2>3 DEF Stored
<1>5. ASSUME NEW stage \in {"recovering", "ending"}, Stay(l, q, bytes, stage)
      PROVE  /\ Stored(l)' = Range(q) \cup OnDisk(l)
             /\ queue'[l] = q
  BY <1>3, <1>5, StayPlaced DEF Stored
<1>6. QED
  BY <1>4, <1>5 DEF LoopHead

\* What a step of the drain of l does to its lane: it sends what it held, or
\* nothing.
Sends(l, id) ==
  /\ drain[l] = "holding" /\ id = held[l] /\ id \in Ids
  /\ attempts' = [attempts EXCEPT ![l][id] = @ + 1]
  /\ id \in Stored(l) /\ Stored(l)' \ {id} = Stored(l) \ {id}
  /\ Reliable => /\ id \in Range(queue[l])
                 /\ \/ Range(queue'[l]) = Range(queue[l])
                    \/ Range(queue'[l]) = Range(queue[l]) \ {id}
  /\ ~Reliable => id \notin Stored(l)'

Rests(l) ==
  /\ UNCHANGED attempts
  /\ Stored(l)' = Stored(l)
  /\ Reliable => \/ Range(queue'[l]) = Range(queue[l])
                 \/ Range(queue'[l]) = Range(queue[l]) \cup Range(recovered[l])

LEMMA DrainStepStored ==
  ASSUME TypeInv, BudgetInv, AgreeInv, PlaceInv, NEW l \in Lanes, DrainStep(l)
  PROVE  /\ UNCHANGED <<policy, session, accepted, nextSequence>>
         /\ Sends(l, held[l]) \/ Rests(l)
         /\ \A k \in Lanes : k # l => LaneSame(k)
<1>1. LanePlaced(l) /\ LaneAgrees(l) /\ Sound(l, queue[l])
  BY PlaceTypes DEF PlaceInv, LanePlaced, AgreeInv, Sound
<1>2. UNCHANGED <<policy, session, accepted, nextSequence>>
  BY DEF DrainStep, DrainStart, SendHeld, SendHeldFails, Refill, DrainEnd, registryVars
<1>3. ASSUME drain[l] \in {"scheduled", "holding", "ending"}
      PROVE  recovery[l] = "none" /\ Range(recovered[l]) = {}
  <2>1. recovery[l] = "none"
    BY <1>3 DEF BudgetInv, RecoveryInDrain
  <2>2. QED
    BY <1>1, <2>1 DEF LanePlaced, Range
<1>4. ASSUME DrainStart(l)
      PROVE  Sends(l, held[l]) \/ Rests(l)
  <2>1. /\ drain[l] = "scheduled" /\ UNCHANGED attempts
        /\ LoopHead(l, queue[l], queuedBytes[l], awaiting[l])
    BY <1>4 DEF DrainStart
  <2>2. Stored(l) = Range(queue[l]) \cup OnDisk(l)
    BY <1>3, <2>1 DEF Stored
  <2>3. Rests(l)
    BY <1>1, <1>3, <2>1, <2>2, LoopHeadStored DEF Rests
  <2>4. QED
    BY <2>3
<1>5. ASSUME drain[l] = "holding"
      PROVE  /\ held[l] \in Ids /\ held[l] \in Stored(l)
             /\ Stored(l) = Range(queue[l]) \cup OnDisk(l) \cup {held[l]}
             /\ held[l] \notin OnDisk(l)
             /\ Reliable => held[l] \in Range(queue[l])
             /\ ~Reliable => held[l] \notin Range(queue[l])
  BY <1>1, <1>3, <1>5 DEF Stored, LanePlaced, LaneAgrees, TypeInv, HeldIsMessage
<1>6. ASSUME SendHeld(l)
      PROVE  Sends(l, held[l]) \/ Rests(l)
  <2>1. /\ drain[l] = "holding" /\ Attempt(l, held[l])
        /\ \E flagged : LoopHead(l, queue[l], queuedBytes[l], flagged)
    BY <1>6 DEF SendHeld
  <2>2. Stored(l)' = Range(queue[l]) \cup OnDisk(l) /\ (Reliable => queue'[l] = queue[l])
    BY <1>1, <1>3, <2>1, LoopHeadStored
  <2>3. Sends(l, held[l])
    BY <1>5, <2>1, <2>2 DEF Sends, Attempt
  <2>4. QED
    BY <2>3
<1>7. ASSUME SendHeldFails(l)
      PROVE  Sends(l, held[l]) \/ Rests(l)
  <2>1. /\ drain[l] = "holding" /\ Attempt(l, held[l]) /\ Reliable
        /\ \E bytes, flagged : LoopHead(l, Without(queue[l], held[l]), bytes, flagged)
    BY <1>7 DEF SendHeldFails
  <2>2. /\ Sound(l, Without(queue[l], held[l]))
        /\ Range(Without(queue[l], held[l])) = Range(queue[l]) \ {held[l]}
    BY <1>1, WithoutApart DEF Sound
  <2>3. /\ Stored(l)' = (Range(queue[l]) \ {held[l]}) \cup OnDisk(l)
        /\ queue'[l] = Without(queue[l], held[l])
    BY <1>1, <1>3, <2>1, <2>2, LoopHeadStored
  <2>4. Sends(l, held[l])
    BY <1>5, <2>1, <2>2, <2>3 DEF Sends, Attempt
  <2>5. QED
    BY <2>4
<1>8. ASSUME Refill(l)
      PROVE  Sends(l, held[l]) \/ Rests(l)
  <2>1. PICK q : q = queue[l] \o recovered[l]
    OBVIOUS
  <2>2. Sound(l, q) /\ Range(q) = Range(queue[l]) \cup Range(recovered[l])
    BY <1>1, <2>1, PlaceTypes, ConcatDisjoint, ConcatProperties DEF Sound, LanePlaced
  <2>3. PICK bytes : \/ TakeNext(l, q, bytes, awaiting[l])
                     \/ Stay(l, q, bytes, "ending")
    BY <1>8, <2>1 DEF Refill, Refilled
  <2>4. /\ UNCHANGED <<writing, files, attempts>> /\ drain[l] # "holding"
        /\ recovered'[l] = <<>>
    BY <1>8 DEF Refill, EndRecover, BudgetInv, RecoveryInDrain, TypeInv, TypeOK, SpillTypeOK
  <2>5. Range(q) \subseteq Range(queue'[l])
                           \cup (IF drain'[l] = "holding" THEN {held'[l]} ELSE {})
    BY <2>2, <2>3, TakeNextKeeps, StayPlaced
  <2>6. /\ Range(queue'[l]) \subseteq Range(q)
        /\ drain'[l] = "holding" => held'[l] \in Range(q)
    BY <2>2, <2>3, TakeNextPlaced, StayPlaced
  <2>7. Reliable => queue'[l] = q
    BY <2>3, StayPlaced DEF TakeNext, TypeInv, TypeOK, LaneTypeOK
  <2>8. Stored(l)' = Range(q) \cup OnDisk(l) /\ Stored(l) = Range(q) \cup OnDisk(l)
    <3>1. Range(recovered'[l]) = {}
      BY <2>4 DEF Range
    <3>2. QED
      BY <2>2, <2>4, <2>5, <2>6, <3>1 DEF Stored, OnDisk
  <2>9. Rests(l)
    BY <2>2, <2>4, <2>7, <2>8 DEF Rests
  <2>10. QED
    BY <2>9
<1>9. ASSUME DrainEnd(l)
      PROVE  Sends(l, held[l]) \/ Rests(l)
  <2>1. /\ UNCHANGED <<laneVars, spillVars, attempts>>
        /\ drain[l] # "holding" /\ drain'[l] # "holding"
    BY <1>9 DEF DrainEnd, Goto, TypeInv, TypeOK
  <2>2. Rests(l)
    BY <2>1 DEF Rests, Stored, OnDisk, laneVars, spillVars
  <2>3. QED
    BY <2>2
<1>10. ASSUME NEW k \in Lanes, k # l
       PROVE  LaneSame(k)
  <2>1. OthersKept(l)
    BY DrainStepLane
  <2>2. /\ recovered'[k] = recovered[k] /\ attempts'[k] = attempts[k]
        /\ UNCHANGED <<writing, files>>
    BY <1>10 DEF DrainStep, DrainStart, SendHeld, SendHeldFails, Refill, DrainEnd, LoopHead,
       StartRecover, EndRecover, Attempt, spillVars, TypeInv, TypeOK, SpillTypeOK
  <2>3. QED
    BY <1>2, <1>10, <2>1, <2>2 DEF OthersKept, LaneSame
<1>11. QED
  BY <1>2, <1>4, <1>6, <1>7, <1>8, <1>9, <1>10 DEF DrainStep

\* A file operation takes from a lane a message whose write failed, or what a
\* clear() finds of a client that has gone; all others only move.
Drops(l, D) ==
  /\ D \subseteq OnDisk(l) /\ Stored(l)' = Stored(l) \ D
  /\ UNCHANGED <<queue, attempts, accepted>>
  /\ \/ D = {}
     \/ session[l[1]] = "closed"
     \/ "write" \in IoFaults /\ \E id \in Ids : D = {id}

LEMMA FileOperationDrops ==
  ASSUME TypeInv, BudgetInv, PlaceInv, CountInv, NEW l \in Lanes, FileOperation(l),
         UNCHANGED <<queue, drain, held, attempts, accepted>>
  PROVE  /\ \E D : Drops(l, D)
         /\ \A k \in Lanes : k # l => LaneSame(k)
<1>1. /\ writing \in [Lanes -> SUBSET Ids] /\ files \in [Lanes -> SUBSET Ids]
      /\ recovered \in [Lanes -> Seq(Ids)]
      /\ LanePlaced(l)
  BY DEF TypeInv, TypeOK, SpillTypeOK, PlaceInv
<1>2. ASSUME NEW k \in Lanes, k # l
      PROVE  LaneSame(k)
  BY <1>1, <1>2 DEF FileOperation, WriteDone, WriteFails, FailWrites, ListFiles,
     ReadFile, SkipFile, ClearAfterWrites, ClearNow, LaneSame
<1>3. ASSUME Range(recovered'[l]) \cup OnDisk(l)' = Range(recovered[l]) \cup OnDisk(l)
      PROVE  \E D : Drops(l, D)
  <2>1. Stored(l)' = Stored(l) \ {}
    BY <1>3 DEF Stored
  <2>2. Drops(l, {})
    BY <2>1 DEF Drops
  <2>3. QED
    BY <2>2
<1>4. (Range(queue[l]) \cup Range(recovered[l])
         \cup (IF drain[l] = "holding" THEN {held[l]} ELSE {})) \cap OnDisk(l) = {}
  BY <1>1 DEF LanePlaced
<1>5. ASSUME recovered'[l] = recovered[l], OnDisk(l)' \subseteq OnDisk(l)
      PROVE  Stored(l)' = Stored(l) \ (OnDisk(l) \ OnDisk(l)')
  BY <1>4, <1>5 DEF Stored
<1>6. ASSUME NEW id \in Ids, WriteDone(l, id)
      PROVE  \E D : Drops(l, D)
  BY <1>1, <1>3, <1>6 DEF WriteDone, OnDisk
<1>7. ASSUME NEW id \in Ids, WriteFails(l, id)
      PROVE  \E D : Drops(l, D)
  <2>1. /\ writing'[l] = writing[l] \ {id} /\ UNCHANGED <<files, recovered>>
        /\ id \in writing[l] /\ "write" \in IoFaults
    BY <1>1, <1>7 DEF WriteFails, FailWrites
  <2>2. OnDisk(l)' \subseteq OnDisk(l) /\ OnDisk(l) \ OnDisk(l)' = {id}
    BY <1>1, <2>1 DEF OnDisk, LanePlaced
  <2>3. Drops(l, {id})
    BY <1>5, <2>1, <2>2 DEF Drops
  <2>4. QED
    BY <2>3
<1>8. ASSUME ListFiles(l) \/ SkipFile(l)
      PROVE  \E D : Drops(l, D)
  BY <1>3, <1>8 DEF ListFiles, SkipFile, OnDisk
<1>9. ASSUME ReadFile(l)
      PROVE  \E D : Drops(l, D)
  <2>1. PICK id : id = NextFile(l)
    OBVIOUS
  <2>2. /\ id \in Ids /\ id \in files[l] /\ files'[l] = files[l] \ {id}
        /\ UNCHANGED writing /\ recovered'[l] = Append(recovered[l], id)
    BY <1>1, <1>9, <2>1 DEF ReadFile
  <2>3. Range(recovered'[l]) = Range(recovered[l]) \cup {id}
    BY <1>1, <2>2, AppendFresh
  <2>4. QED
    BY <1>3, <2>2, <2>3 DEF OnDisk
<1>10. ASSUME ClearAfterWrites(l) \/ ClearNow(l)
       PROVE  \E D : Drops(l, D)
  <2>1. session[l[1]] = "closed"
    BY <1>10 DEF CountInv, LaneCounted, ClearAfterWrites, ClearNow
  <2>2. UNCHANGED recovered /\ OnDisk(l)' \subseteq OnDisk(l)
    BY <1>1, <1>10 DEF ClearAfterWrites, ClearNow, FailWrites, OnDisk
  <2>3. Drops(l, OnDisk(l) \ OnDisk(l)')
    BY <1>5, <2>1, <2>2 DEF Drops
  <2>4. QED
    BY <2>3
<1>11. QED
  BY <1>2, <1>6, <1>7, <1>8, <1>9, <1>10 DEF FileOperation

LEMMA InitStored == Init => StoredInv
BY DEF Init, LaneInit, SpillInit, StoredInv, LaneStored, Stored, OnDisk, Range

LEMMA NextStored ==
  ASSUME TypeInv, BudgetInv, AgreeInv, PlaceInv, CountInv, UntriedInv, SentInv,
         StoredInv, [Next]_vars
  PROVE  StoredInv'
<1>1. ASSUME UNCHANGED policy, \A k \in Lanes : StoresOnly(k)
      PROVE  StoredInv'
  BY <1>1, StoresOnlyStored DEF StoredInv
<1>2. ASSUME NEW l \in Lanes, UNCHANGED policy, StoresOnly(l),
             \A k \in Lanes : k # l => LaneSame(k)
      PROVE  StoredInv'
  BY <1>1, <1>2, LaneSameStored
<1>3. ASSUME UNCHANGED policy, \A k \in Lanes : LaneSame(k)
      PROVE  StoredInv'
  BY <1>1, <1>3, LaneSameStored
<1>4. CASE SocketEvent
  <2>1. CASE \/ \E c \in Clients : Connect(c)
             \/ \E S \in SUBSET Clients : Leave(S)
             \/ \E c \in Clients, t \in Topics : Subscribe(c, t) \/ Unsubscribe(c, t)
    BY <1>3, <2>1, RegistrySame DEF Connect, Leave, Subscribe, Unsubscribe
  <2>2. ASSUME NEW l \in Lanes, NEW id \in Ids, Ack(l, id)
        PROVE  StoredInv'
    BY <1>2, <2>2, AckRemoves, RemovesStored
  <2>3. QED
    BY <1>4, <2>1, <2>2, DepartureLeaves DEF SocketEvent
<1>5. CASE Publication
  <2>1. PICK n \in Sizes, S \in SUBSET Lanes : Deliver(S, n)
    BY <1>5, PublicationIsDelivery
  <2>2. UNCHANGED policy /\ \A k \in Lanes : Accepts(k, nextSequence) \/ LaneSame(k)
    BY <2>1, DeliverAccepts
  <2>3. ASSUME NEW k \in Lanes, Accepts(k, nextSequence)
        PROVE  StoresOnly(k)
    BY <2>3 DEF Accepts, StoresOnly
  <2>4. QED
    BY <1>1, <2>2, <2>3, LaneSameStored
<1>6. CASE Retrying
  <2>1. ASSUME NEW expired \in SUBSET Tracked, RetryTick(expired)
        PROVE  StoredInv'
    <3>1. \A k \in Lanes : LaneSame(k) /\ UNCHANGED policy
      BY <2>1, RegistrySame
    <3>2. UNCHANGED policy
      BY <2>1 DEF RetryTick, registryVars
    <3>3. QED
      BY <1>3, <3>1, <3>2
  <2>2. ASSUME NEW d \in decisions, HandleDecision(d)
        PROVE  StoredInv'
    BY <1>2, <2>2, DecisionRemoves, RemovesStored, LaneSameStored
  <2>3. QED
    BY <1>6, <2>1, <2>2 DEF Retrying
<1>7. ASSUME NEW l \in Lanes, DrainStep(l)
      PROVE  StoredInv'
  <2>1. /\ UNCHANGED <<policy, accepted>>
        /\ Sends(l, held[l]) \/ Rests(l)
        /\ \A k \in Lanes : k # l => LaneSame(k)
    BY <1>7, DrainStepStored
  <2>2. attempts \in [Lanes -> [Ids -> Nat]] /\ LaneStored(l) /\ accepted[l] \subseteq Ids
    BY DEF TypeInv, TypeOK, StoredInv
  <2>3. LaneStored(l)'
    <3>1. CASE Rests(l)
      BY <2>1, <2>2, <3>1 DEF Rests, LaneStored, Reliable
    <3>2. CASE Sends(l, held[l])
      <4>1. Stored(l)' \subseteq Stored(l)
        BY <3>2 DEF Sends
      <4>2. \A id \in Ids \ {held[l]} : attempts'[l][id] = attempts[l][id]
        BY <2>2, <3>2 DEF Sends
      <4>3. QED
        BY <2>1, <2>2, <3>2, <4>1, <4>2 DEF Sends, LaneStored, Reliable
    <3>3. QED
      BY <2>1, <3>1, <3>2
  <2>4. QED
    BY <2>1, <2>3, LaneSameStored, StoresOnlyStored DEF StoredInv
<1>8. ASSUME NEW l \in Lanes, FileEvent(l)
      PROVE  StoredInv'
  <2>1. /\ FileOperation(l) /\ UNCHANGED policy
        /\ UNCHANGED <<queue, drain, held, attempts, accepted>>
    BY <1>8, FileEventIsOperation DEF laneVars, drainVars, registryVars
  <2>2. PICK D : Drops(l, D) /\ \A k \in Lanes : k # l => LaneSame(k)
    BY <2>1, FileOperationDrops
  <2>3. StoresOnly(l)
    BY <2>2 DEF Drops, StoresOnly
  <2>4. QED
    BY <1>2, <2>1, <2>2, <2>3
<1>9. CASE UNCHANGED vars
  <2>1. \A k \in Lanes : LaneSame(k)
    BY <1>9 DEF vars, laneVars, spillVars, drainVars, LaneSame
  <2>2. QED
    BY <1>3, <1>9, <2>1 DEF vars, registryVars
<1>10. QED
  BY <1>4, <1>5, <1>6, <1>7, <1>8, <1>9 DEF Next

\* What a lane stores was accepted; in best-effort it was not sent yet.
THEOREM StoredInvariant == Spec => []StoredInv
<1>1. /\ TypeInv /\ BudgetInv /\ AgreeInv /\ PlaceInv /\ CountInv /\ UntriedInv
      /\ SentInv /\ StoredInv /\ [Next]_vars
      => StoredInv'
  BY NextStored
<1>2. QED
  BY <1>1, InitStored, TypeInvariant, BudgetInvariant, AgreeInvariant, PlaceInvariant,
     CountInvariant, UntriedInvariant, SentInvariant, PTL DEF Spec

-----------------------------------------------------------------------------
(* The contract.                                                           *)

StatusOf(k) == [id \in Ids |-> Status(k, id)]

StatusMap == [l \in Lanes |-> [id \in Ids |-> Status(l, id)]]

Gone == {c \in Clients : session[c] = "closed"}

LEMMA StatusKept ==
  ASSUME NEW k \in Lanes, NEW id \in Ids, UNCHANGED policy,
         id \in accepted'[k] <=> id \in accepted[k],
         attempts'[k][id] = attempts[k][id],
         attempts[k][id] = 0 => (id \in Stored(k)' <=> id \in Stored(k)),
         Reliable /\ attempts[k][id] # 0 =>
           (id \in Range(queue'[k]) <=> id \in Range(queue[k]))
  PROVE  Status(k, id)' = Status(k, id)
BY DEF Status, Reliable

LEMMA LaneSameStatus ==
  ASSUME NEW k \in Lanes, LaneSame(k), UNCHANGED policy
  PROVE  StatusOf(k)' = StatusOf(k)
<1>1. \A id \in Ids : Status(k, id)' = Status(k, id)
  BY LaneSameStored, StatusKept DEF LaneSame
<1>2. QED
  BY <1>1 DEF StatusOf

\* The statuses after a step that changes one lane, to f.
LEMMA StatusOfOne ==
  ASSUME NEW l \in Lanes, UNCHANGED policy, \A k \in Lanes : k # l => LaneSame(k),
         NEW f, StatusOf(l)' = f
  PROVE  StatusMap' = [StatusMap EXCEPT ![l] = f]
<1>1. \A k \in Lanes : k # l => StatusOf(k)' = StatusOf(k)
  BY LaneSameStatus
<1>2. QED
  BY <1>1 DEF StatusMap, StatusOf

LEMMA Stutter ==
  ASSUME UNCHANGED <<policy, session, attempts, nextSequence>>,
         \A k \in Lanes : StatusOf(k)' = StatusOf(k)
  PROVE  UNCHANGED Contract!contractVars
BY DEF Contract!contractVars, StatusOf

\* A step that removes a sent message settles it, if it was not settled.
LEMMA RemovesContract ==
  ASSUME TypeInv, NEW l \in Lanes, NEW id \in Ids, Removes(l, id),
         UNCHANGED <<policy, session, attempts, nextSequence>>,
         \A k \in Lanes : k # l => LaneSame(k)
  PROVE  [Contract!ContractNext]_(Contract!contractVars)
<1>1. attempts[l][id] # 0 /\ UNCHANGED <<accepted, attempts>>
  BY DEF Removes, Sent, TypeInv, TypeOK
<1>2. \A other \in Ids \ {id} : Status(l, other)' = Status(l, other)
  BY <1>1, RemovesStored, StatusKept DEF Removes
<1>3. CASE Status(l, id) = "sent"
  <2>1. Status(l, id)' = "settled"
    BY <1>1, <1>3 DEF Status, Removes, Reliable
  <2>2. StatusOf(l)' = [StatusOf(l) EXCEPT ![id] = "settled"]
    BY <1>2, <2>1 DEF StatusOf
  <2>3. StatusMap' = [StatusMap EXCEPT ![l][id] = "settled"]
    BY <2>2, StatusOfOne DEF StatusMap, StatusOf
  <2>4. Contract!Settle(l, id)
    BY <1>3, <2>3 DEF Contract!Settle, StatusMap
  <2>5. QED
    BY <2>4 DEF Contract!ContractNext, Contract!Lanes, Lanes, Contract!Ids, Ids
<1>4. CASE Status(l, id) # "sent"
  <2>1. Status(l, id)' = Status(l, id)
    BY <1>1, <1>4 DEF Status, Removes, Reliable
  <2>2. StatusOf(l)' = StatusOf(l)
    BY <1>2, <2>1 DEF StatusOf
  <2>3. QED
    BY <2>2, LaneSameStatus, Stutter
<1>5. QED
  BY <1>3, <1>4

\* A transmission is within the budget, or goes to a client that has gone.
LEMMA SendsContract ==
  ASSUME TypeInv, BudgetInv, AgreeInv, PaidInv, StoredInv,
         NEW l \in Lanes, session[l[1]] # "absent", decisions = {},
         NEW id \in Ids, Sends(l, id), UNCHANGED <<policy, session, accepted, nextSequence>>,
         \A k \in Lanes : k # l => LaneSame(k)
  PROVE  Contract!ContractNext
<1>1. /\ attempts \in [Lanes -> [Ids -> Nat]] /\ LaneStored(l)
      /\ session \in [Clients -> {"absent", "open", "closed"}] /\ l[1] \in Clients
      /\ retryCount[l][id] \in 0..MaxRetries /\ MaxRetries \in Nat
  BY InstanceAssumption
     DEF TypeInv, TypeOK, StoredInv, Lanes, AckTypeOK, ValidPolicy, MaxRetries
<1>2. /\ attempts'[l][id] = attempts[l][id] + 1 /\ attempts[l][id] \in Nat
      /\ attempts'[l][id] # 0
      /\ \A other \in Ids \ {id} : attempts'[l][other] = attempts[l][other]
  BY <1>1 DEF Sends
<1>3. Status(l, id) \in {"waiting", "sent"}
  BY <1>1 DEF Sends, LaneStored, Status
<1>4. attempts[l][id] < Contract!Budget \/ l[1] \in Gone
  <2>1. CASE ~Reliable
    <3>1. attempts[l][id] = 0
      BY <1>1, <2>1 DEF Sends, LaneStored
    <3>2. QED
      BY <2>1, <3>1 DEF Contract!Budget, Contract!Reliable, Reliable
  <2>2. CASE Reliable /\ Open(l)
    <3>1. attempts[l][id] <= retryCount[l][id]
      BY <2>2 DEF PaidInv, LanePaid, Sends
    <3>2. attempts[l][id] < 1 + MaxRetries
      BY <1>1, <1>2, <3>1
    <3>3. QED
      BY <2>2, <3>2 DEF Contract!Budget, Contract!Reliable, Reliable,
         Contract!MaxRetries, MaxRetries
  <2>3. CASE ~Open(l)
    BY <1>1, <2>3 DEF Open, Gone
  <2>4. QED
    BY <2>1, <2>2, <2>3
<1>5. PICK after \in (IF Reliable THEN {"sent", "settled"} ELSE {"settled"}) :
        Status(l, id)' = after
  BY <1>1, <1>2 DEF Status, Sends, LaneStored, Reliable
<1>6. \A other \in Ids \ {id} : Status(l, other)' = Status(l, other)
  <2>1. ASSUME NEW other \in Ids \ {id}
        PROVE  /\ other \in Stored(l)' <=> other \in Stored(l)
               /\ Reliable => (other \in Range(queue'[l]) <=> other \in Range(queue[l]))
    BY DEF Sends
  <2>2. QED
    BY <1>2, <2>1, StatusKept
<1>7. StatusOf(l)' = [StatusOf(l) EXCEPT ![id] = after]
  BY <1>5, <1>6 DEF StatusOf
<1>8. StatusMap' = [StatusMap EXCEPT ![l][id] = after]
  BY <1>7, StatusOfOne DEF StatusMap, StatusOf
<1>9. Contract!Transmit(l, id)
  BY <1>3, <1>4, <1>5, <1>8
     DEF Contract!Transmit, StatusMap, Sends, Contract!Reliable, Reliable, Gone
<1>10. QED
  BY <1>9 DEF Contract!ContractNext, Contract!Lanes, Lanes, Contract!Ids, Ids

LEMMA DrainStepContract ==
  ASSUME TypeInv, BudgetInv, AgreeInv, PlaceInv, UntriedInv, PaidInv, StoredInv,
         NEW l \in Lanes, DrainStep(l)
  PROVE  [Contract!ContractNext]_(Contract!contractVars)
<1>1. /\ UNCHANGED <<policy, session, accepted, nextSequence>>
      /\ Sends(l, held[l]) \/ Rests(l)
      /\ \A k \in Lanes : k # l => LaneSame(k)
  BY DrainStepStored
<1>2. session[l[1]] # "absent" /\ decisions = {}
  BY DrainedIsNotAbsent
<1>3. CASE Sends(l, held[l])
  <2>1. held[l] \in Ids
    BY <1>3 DEF Sends
  <2>2. QED
    BY <1>1, <1>2, <1>3, <2>1, SendsContract
<1>4. CASE Rests(l)
  <2>1. \A id \in Range(recovered[l]) : attempts[l][id] = 0
    BY DEF UntriedInv, Untried
  <2>2. ASSUME NEW id \in Ids
        PROVE  Status(l, id)' = Status(l, id)
    <3>1. Reliable /\ attempts[l][id] # 0 =>
            (id \in Range(queue'[l]) <=> id \in Range(queue[l]))
      BY <1>4, <2>1 DEF Rests
    <3>2. QED
      BY <1>1, <1>4, <3>1, StatusKept DEF Rests
  <2>3. StatusOf(l)' = StatusOf(l)
    BY <2>2 DEF StatusOf
  <2>4. QED
    BY <1>1, <1>4, <2>3, LaneSameStatus, Stutter DEF Rests
<1>5. QED
  BY <1>1, <1>3, <1>4

\* What falls off the disk had not been sent.
LEMMA DropsContract ==
  ASSUME TypeInv, UntriedInv, StoredInv, NEW l \in Lanes, NEW D, Drops(l, D),
         UNCHANGED <<policy, session, nextSequence>>,
         \A k \in Lanes : k # l => LaneSame(k)
  PROVE  [Contract!ContractNext]_(Contract!contractVars)
<1>1. /\ D \subseteq OnDisk(l) /\ OnDisk(l) \subseteq Ids /\ OnDisk(l) \subseteq Stored(l)
      /\ OnDisk(l) \subseteq Untried(l) /\ LaneStored(l)
      /\ session \in [Clients -> {"absent", "open", "closed"}] /\ l[1] \in Clients
  BY PlaceTypes DEF Drops, Stored, Untried, StoredInv, TypeInv, TypeOK, Lanes
<1>2. \A id \in D : id \in accepted[l] /\ attempts[l][id] = 0 /\ id \in Stored(l)
  BY <1>1 DEF LaneStored, UntriedInv
<1>3. \A id \in D : Status(l, id) = "waiting" /\ Status(l, id)' = "discarded"
  BY <1>2 DEF Status, Drops
<1>4. \A id \in Ids \ D : Status(l, id)' = Status(l, id)
  BY StatusKept DEF Drops
<1>5. StatusOf(l)' = [id \in Ids |-> IF id \in D THEN "discarded" ELSE StatusOf(l)[id]]
  BY <1>3, <1>4 DEF StatusOf
<1>6. CASE D = {}
  <2>1. StatusOf(l)' = StatusOf(l)
    BY <1>4, <1>6 DEF StatusOf
  <2>2. QED
    BY <2>1, LaneSameStatus, Stutter DEF Drops
<1>7. CASE D # {}
  <2>1. StatusMap' = [StatusMap EXCEPT ![l] =
                        [id \in Ids |-> IF id \in D THEN "discarded" ELSE @[id]]]
    BY <1>5, StatusOfOne DEF StatusMap, StatusOf
  <2>2. D \in SUBSET {id \in Ids : StatusMap[l][id] = "waiting"}
    BY <1>1, <1>3 DEF StatusMap
  <2>3. l[1] \in Gone \/ ("write" \in IoFaults /\ \E id \in D : D = {id})
    BY <1>1, <1>7 DEF Drops, Gone
  <2>4. Contract!Discard(l)
    BY <1>7, <2>1, <2>2, <2>3 DEF Contract!Discard, StatusMap, Gone, Drops,
       Contract!Ids, Ids
  <2>5. QED
    BY <2>4 DEF Contract!ContractNext, Contract!Lanes, Lanes
<1>8. QED
  BY <1>6, <1>7

\* A publication discards older messages only where the policy says so.
LEMMA DeliverContract ==
  ASSUME TypeInv, PlaceInv, UntriedInv, NEW S \in SUBSET Lanes, NEW n \in Sizes,
         Deliver(S, n)
  PROVE  Contract!ContractNext
<1>1. PICK new \in Ids : new = nextSequence
  BY DeliverAccepts
<1>2. nextSequence' = nextSequence + 1 /\ UNCHANGED <<policy, session, attempts>>
  BY DeliverAccepts
<1>3. PICK kept \in SUBSET S :
        \A k \in Lanes : IF k \in kept THEN Accepts(k, new) ELSE LaneSame(k)
  BY <1>1, DeliverAccepts
<1>4. PICK D : D = {p \in kept \X Ids : /\ Status(p[1], p[2]) = "waiting"
                                        /\ p[2] \notin Stored(p[1])'}
  OBVIOUS
<1>5. \A p \in D : ~Keeping /\ ~Reliable
  <2>1. ASSUME NEW p \in D
        PROVE  ~Keeping
    <3>1. Accepts(p[1], new) /\ p[2] \in Stored(p[1]) /\ p[2] \notin Stored(p[1])'
      BY <1>3, <1>4 DEF Status
    <3>2. QED
      BY <3>1 DEF Accepts
  <2>2. QED
    BY <2>1, ReliableKeeps
<1>6. ASSUME NEW k \in kept, NEW id \in Ids
      PROVE  Status(k, id)' = IF id = new THEN "waiting"
                              ELSE IF <<k, id>> \in D THEN "discarded" ELSE Status(k, id)
  <2>1. Accepts(k, new) /\ k \in Lanes
    BY <1>3
  <2>2. CASE id = new
    BY <2>1, <2>2 DEF Accepts, Status
  <2>3. CASE id # new /\ <<k, id>> \in D
    BY <1>4, <2>1, <2>3 DEF Accepts, Status
  <2>4. CASE id # new /\ <<k, id>> \notin D
    <3>1. CASE id \notin accepted[k]
      BY <2>1, <2>4, <3>1 DEF Accepts, Status
    <3>2. CASE id \in accepted[k]
      <4>1. attempts[k][id] = 0 => (id \in Stored(k)' <=> id \in Stored(k))
        BY <1>4, <1>6, <2>1, <2>4, <3>2 DEF Accepts, Status
      <4>2. Reliable => (id \in Range(queue'[k]) <=> id \in Range(queue[k]))
        BY <2>1, <2>4, ReliableKeeps DEF Accepts
      <4>3. QED
        BY <1>2, <2>1, <2>4, <4>1, <4>2, StatusKept DEF Accepts
    <3>3. QED
      BY <3>1, <3>2
  <2>5. QED
    BY <2>2, <2>3, <2>4
<1>7. ASSUME NEW k \in Lanes \ kept, NEW id \in Ids
      PROVE  Status(k, id)' = Status(k, id)
  <2>1. StatusOf(k)' = StatusOf(k)
    BY <1>2, <1>3, LaneSameStatus
  <2>2. StatusOf(k)[id] = Status(k, id) /\ StatusOf(k)'[id] = Status(k, id)'
    BY DEF StatusOf
  <2>3. QED
    BY <2>1, <2>2
<1>8. StatusMap' = [l \in Lanes |-> [id \in Ids |->
                     IF l \in kept /\ id = nextSequence THEN "waiting"
                     ELSE IF <<l, id>> \in D THEN "discarded" ELSE StatusMap[l][id]]]
  <2>1. \A l \in Lanes, id \in Ids :
          Status(l, id)' = IF l \in kept /\ id = nextSequence THEN "waiting"
                           ELSE IF <<l, id>> \in D THEN "discarded" ELSE Status(l, id)
    <3>1. \A l \in Lanes, id \in Ids : <<l, id>> \in D => l \in kept
      BY <1>4
    <3>2. QED
      BY <1>1, <1>6, <1>7, <3>1
  <2>2. QED
    BY <2>1 DEF StatusMap
<1>9. D \in SUBSET {p \in kept \X Ids : Contract!Lossy /\ StatusMap[p[1]][p[2]] = "waiting"}
  <2>1. \A p \in D : Contract!Lossy
    BY <1>5 DEF Keeping, Contract!Lossy, Contract!Reliable, Contract!Coalesce,
       Contract!Spilling, Contract!Overflow, Reliable, Coalesce, Spilling, Overflow
  <2>2. QED
    BY <1>4, <2>1 DEF StatusMap
<1>10. Contract!Accept(kept)
  BY <1>2, <1>8, <1>9 DEF Contract!Accept, StatusMap, Gone, Contract!Lanes, Lanes,
     Contract!Ids, Ids
<1>11. QED
  BY <1>1, <1>10 DEF Contract!ContractNext, Contract!Lanes, Lanes, Contract!Ids, Ids

LEMMA InitContract == Init => Contract!ContractInit
BY DEF Init, Contract!ContractInit, Status, Contract!Lanes, Lanes, Contract!Ids, Ids

\* The end of a client is the contract's too; its arrival and its
\* subscriptions are not.
LEMMA RegistryContract ==
  ASSUME TypeInv,
         \/ \E c \in Clients : Connect(c)
         \/ \E S \in SUBSET Clients : Leave(S)
         \/ \E c \in Clients, t \in Topics : Subscribe(c, t) \/ Unsubscribe(c, t)
  PROVE  [Contract!ContractNext]_(Contract!contractVars)
<1>1. /\ \A k \in Lanes : LaneSame(k)
      /\ UNCHANGED <<policy, attempts, nextSequence>>
  BY RegistrySame DEF Connect, Leave, Subscribe, Unsubscribe
<1>2. StatusMap' = StatusMap
  BY <1>1, LaneSameStatus DEF StatusMap, StatusOf
<1>3. session \in [Clients -> {"absent", "open", "closed"}]
  BY DEF TypeInv, TypeOK
<1>4. CASE Gone' = Gone
  BY <1>1, <1>2, <1>4 DEF Contract!contractVars, StatusMap, Gone
<1>5. ASSUME NEW S \in SUBSET Clients, Leave(S)
      PROVE  [Contract!ContractNext]_(Contract!contractVars)
  <2>1. Gone' = Gone \cup S
    BY <1>5, LeaveSession DEF Gone
  <2>2. Contract!Leave(S)
    BY <1>1, <1>2, <2>1 DEF Contract!Leave, StatusMap, Gone
  <2>3. QED
    BY <2>2 DEF Contract!ContractNext
<1>6. ASSUME NEW c \in Clients, Connect(c)
      PROVE  Gone' = Gone
  BY <1>3, <1>6 DEF Connect, Gone
<1>7. ASSUME NEW c \in Clients, NEW t \in Topics, Subscribe(c, t) \/ Unsubscribe(c, t)
      PROVE  Gone' = Gone
  BY <1>7 DEF Subscribe, Unsubscribe, Gone
<1>8. QED
  BY <1>4, <1>5, <1>6, <1>7

\* Every step of the dispatcher is a step of the contract, or none.
LEMMA NextContract ==
  ASSUME TypeInv, BudgetInv, AgreeInv, PlaceInv, CountInv, UntriedInv, PaidInv,
         SentInv, StoredInv, [Next]_vars
  PROVE  [Contract!ContractNext]_(Contract!contractVars)
<1>1. ASSUME UNCHANGED <<policy, session, attempts, nextSequence>>,
             \A k \in Lanes : LaneSame(k)
      PROVE  [Contract!ContractNext]_(Contract!contractVars)
  BY <1>1, LaneSameStatus, Stutter
<1>2. CASE SocketEvent
  <2>1. ASSUME NEW l \in Lanes, NEW id \in Ids, Ack(l, id)
        PROVE  [Contract!ContractNext]_(Contract!contractVars)
    BY <2>1, AckRemoves, RemovesContract
  <2>2. QED
    BY <1>2, <2>1, DepartureLeaves, RegistryContract DEF SocketEvent
<1>3. CASE Publication
  BY <1>3, PublicationIsDelivery, DeliverContract
<1>4. CASE Retrying
  <2>1. ASSUME NEW expired \in SUBSET Tracked, RetryTick(expired)
        PROVE  [Contract!ContractNext]_(Contract!contractVars)
    <3>1. \A k \in Lanes : LaneSame(k)
      BY <2>1, RegistrySame
    <3>2. UNCHANGED <<policy, session, attempts, nextSequence>>
      BY <2>1 DEF RetryTick, registryVars
    <3>3. QED
      BY <1>1, <3>1, <3>2
  <2>2. ASSUME NEW d \in decisions, HandleDecision(d)
        PROVE  [Contract!ContractNext]_(Contract!contractVars)
    <3>1. /\ d.lane \in Lanes /\ d.id \in Ids
          /\ LaneSame(d.lane) \/ Removes(d.lane, d.id)
          /\ \A k \in Lanes : k # d.lane => LaneSame(k)
          /\ UNCHANGED <<policy, session, attempts, nextSequence>>
      BY <2>2, DecisionRemoves
    <3>2. QED
      BY <1>1, <3>1, RemovesContract
  <2>3. QED
    BY <1>4, <2>1, <2>2 DEF Retrying
<1>5. ASSUME NEW l \in Lanes, DrainStep(l)
      PROVE  [Contract!ContractNext]_(Contract!contractVars)
  BY <1>5, DrainStepContract
<1>6. ASSUME NEW l \in Lanes, FileEvent(l)
      PROVE  [Contract!ContractNext]_(Contract!contractVars)
  <2>1. /\ FileOperation(l) /\ UNCHANGED <<policy, session, nextSequence>>
        /\ UNCHANGED <<queue, drain, held, attempts, accepted>>
    BY <1>6, FileEventIsOperation DEF laneVars, drainVars, registryVars
  <2>2. PICK D : Drops(l, D) /\ \A k \in Lanes : k # l => LaneSame(k)
    BY <2>1, FileOperationDrops
  <2>3. QED
    BY <2>1, <2>2, DropsContract
<1>7. CASE UNCHANGED vars
  <2>1. \A k \in Lanes : LaneSame(k)
    BY <1>7 DEF vars, laneVars, spillVars, drainVars, LaneSame
  <2>2. QED
    BY <1>1, <1>7, <2>1 DEF vars, registryVars
<1>8. QED
  BY <1>2, <1>3, <1>4, <1>5, <1>6, <1>7 DEF Next

\* The dispatcher, its lanes, the tracker and the spill files do what the
\* contract says, and nothing else: what was acked, exhausted, dropped or sent
\* by BEST_EFFORT never comes back, and nothing is dropped but by the policy, a
\* failed write or the end of its client.
THEOREM DeliveryKeepsContract == Spec => ImplementsContract
<1>1. Init => Contract!ContractInit
  BY InitContract
<1>2. /\ TypeInv /\ BudgetInv /\ AgreeInv /\ PlaceInv /\ CountInv /\ UntriedInv
      /\ PaidInv /\ SentInv /\ StoredInv /\ [Next]_vars
      => [Contract!ContractNext]_(Contract!contractVars)
  BY NextContract
<1>3. QED
  BY <1>1, <1>2, TypeInvariant, BudgetInvariant, AgreeInvariant, PlaceInvariant,
     CountInvariant, UntriedInvariant, PaidInvariant, SentInvariant, StoredInvariant,
     PTL DEF Spec, ImplementsContract, Contract!ContractSpec
=============================================================================
