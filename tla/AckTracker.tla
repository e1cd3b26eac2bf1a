----------------------------- MODULE AckTracker -----------------------------
(***************************************************************************)
(* The AckTracker with its clock: registrations with deadlines, the binary *)
(* heap of expiration handles, and the generations that tell a live handle *)
(* from one whose registration was renewed or dropped.  The dispatcher     *)
(* knows it as PendingAcks, where time is left out.                        *)
(*                                                                         *)
(* A registration is keyed by client, namespace, topic and message id;     *)
(* here the lane and the id.  The lanes may belong to namespaces with      *)
(* different ack timeouts.  The lane side, which entries are there to be   *)
(* sent again, is the environment: "entry".                                *)
(***************************************************************************)
EXTENDS DeliveryPolicy, SequencesExt

CONSTANTS AckTimeout,   \* lane -> the ackTimeoutMs of its namespace
          MaxTime,      \* bound on the clock
          MaxHandles    \* bound on the heap

ASSUME TimingAssumption ==
  /\ AckTimeout \in [Lanes -> Nat \ {0}]
  /\ MaxTime \in Nat /\ MaxHandles \in Nat

VARIABLES now,         \* Date.now()
          tracked,     \* the pending map: key -> its registration
          heap,        \* the array of handles, least deadline first
          retryCount,  \* key -> retries of the entry
          entry,       \* key -> "queued", "awaiting" or "gone" (the lane's)
          decisions    \* of the current pass, not yet handled

vars == <<policy, now, tracked, heap, retryCount, entry, decisions>>

Keys == Lanes \X Ids

\* Nothing else runs while processRetries handles the decisions of a pass.
Idle == decisions = <<>>

-----------------------------------------------------------------------------
(* The heap.  Positions start at 1, so the parent of i is i \div 2.        *)

Handle(k, d, g) == [key |-> k, deadline |-> d, generation |-> g]

Swapped(h, i, j) == [h EXCEPT ![i] = h[j], ![j] = h[i]]

\* A round of heapBubbleUp, which moves the handle at c.index: it changes
\* places with a parent that has a later deadline.
Climb(c) ==
  LET parent == c.index \div 2
  IN  IF c.index = 1 \/ c.heap[parent].deadline <= c.heap[c.index].deadline THEN c
      ELSE [heap |-> Swapped(c.heap, c.index, parent), index |-> parent]

Climbing(h, x) ==
  LET climb[n \in Nat] == IF n = 0 THEN [heap |-> Append(h, x), index |-> Len(h) + 1]
                          ELSE Climb(climb[n - 1])
  IN  climb

\* heapPush: there are no more rounds than handles.
HeapPush(h, x) == Climbing(h, x)[Len(h)].heap

\* Mutant: only the left child is looked at.
EarlierLeft(h, i) ==
  {j \in {2 * i} : j \in DOMAIN h /\ h[j].deadline < h[i].deadline}

\* The child that the handle at position i changes places with: the right
\* one only if it is earlier than the left one.
EarlierChildren(h, i) ==
  {j \in {2 * i, 2 * i + 1} : /\ j \in DOMAIN h
                              /\ h[j].deadline < h[i].deadline
                              /\ \A s \in {2 * i, 2 * i + 1} \cap DOMAIN h :
                                   \/ h[j].deadline < h[s].deadline
                                   \/ h[j].deadline = h[s].deadline /\ j <= s}

\* A round of heapBubbleDown.
Sink(c) ==
  LET earlier == EarlierChildren(c.heap, c.index)
      child   == CHOOSE j \in earlier : TRUE
  IN  IF earlier = {} THEN c
      ELSE [heap |-> Swapped(c.heap, c.index, child), index |-> child]

Sinking(h) ==
  LET sink[n \in Nat] == IF n = 0 THEN [heap |-> h, index |-> 1] ELSE Sink(sink[n - 1])
  IN  sink

\* heapPop: the last handle takes the root and sinks.
HeapPop(h) ==
  IF Len(h) = 1 THEN <<>>
  ELSE Sinking([Front(h) EXCEPT ![1] = Last(h)])[Len(h)].heap

-----------------------------------------------------------------------------
(* register, acknowledge, removeClient and removeClientTopic.              *)

Generation(k) == IF k \in DOMAIN tracked THEN tracked[k].generation ELSE 0

Put(map, key, value) ==
  [k \in DOMAIN map \cup {key} |-> IF k = key THEN value ELSE map[k]]

\* A drain sends a queued entry, first or again: markAwaiting and register.
Register(l, id) ==
  LET k == <<l, id>>
      g == Generation(k) + 1
      d == now + AckTimeout[l]
  IN  /\ Idle
      /\ Len(heap) < MaxHandles
      /\ entry[k] = "queued"
      /\ entry' = [entry EXCEPT ![k] = "awaiting"]
      /\ tracked' = Put(tracked, k, [generation |-> g, deadline |-> d])
      /\ heap' = HeapPush(heap, Handle(k, d, g))
      /\ UNCHANGED <<now, retryCount, decisions>>

Without(map, keys) == [k \in DOMAIN map \ keys |-> map[k]]

\* An ack of an entry that was sent, or a sendEvent that throws: the lane
\* drops the entry, the handles stay in the heap.
Acknowledge(l, id) ==
  LET k == <<l, id>>
  IN  /\ Idle
      /\ entry[k] = "awaiting" \/ (entry[k] = "queued" /\ retryCount[k] > 0)
      /\ entry' = [entry EXCEPT ![k] = "gone"]
      /\ tracked' = Without(tracked, {k})
      /\ UNCHANGED <<now, heap, retryCount, decisions>>

\* unsubscribe and disconnect.  The lane keeps its entries.  What a pass has
\* returned to the queue is sent again before the next event, unless the drain
\* is waiting for the disk: then it sends it after the registration was dropped.
RemoveLanes(S) ==
  /\ Idle
  /\ Spilling \/ \A k \in S \X Ids : entry[k] = "queued" => retryCount[k] = 0
  /\ tracked' = Without(tracked, S \X Ids)
  /\ UNCHANGED <<now, heap, retryCount, entry, decisions>>

-----------------------------------------------------------------------------
(* collectExpired.                                                         *)

Pass == [tracked |-> tracked, heap |-> heap, retryCount |-> retryCount,
         entry |-> entry, decisions |-> <<>>]

\* Mutant: a handle counts whatever its generation.
StaleByKey(p, h) == h.key \notin DOMAIN p.tracked

Stale(p, h) == \/ h.key \notin DOMAIN p.tracked
               \/ p.tracked[h.key].generation # h.generation

Decided(p, k, action) ==
  [p EXCEPT !.entry[k] = "queued",
            !.decisions = Append(@, [key |-> k, action |-> action])]

\* Mutant: the deadline is extended, but no handle is pushed.
RetryWithoutHandle(p, k) ==
  [Decided(p, k, "RETRY") EXCEPT
     !.retryCount[k] = @ + 1,
     !.tracked[k] = [generation |-> @.generation + 1,
                     deadline   |-> now + AckTimeout[k[1]]]]

Retry(p, k) ==
  LET g == p.tracked[k].generation + 1
      d == now + AckTimeout[k[1]]
  IN  [Decided(p, k, "RETRY") EXCEPT
         !.retryCount[k] = @ + 1,
         !.tracked[k] = [generation |-> g, deadline |-> d],
         !.heap = HeapPush(@, Handle(k, d, g))]

\* Mutant: the registration of an exhausted entry stays.
ExhaustedKept(p, k) == Decided(p, k, "EXHAUSTED")

Exhausted(p, k) ==
  [Decided(p, k, "EXHAUSTED") EXCEPT !.tracked = Without(@, {k})]

PopHandle(p) ==
  LET h    == Head(p.heap)
      rest == [p EXCEPT !.heap = HeapPop(@)]
  IN  IF Stale(p, h) THEN rest
      ELSE IF p.retryCount[h.key] < MaxRetries THEN Retry(rest, h.key)
      ELSE Exhausted(rest, h.key)

\* The loop pops while the head has expired.  What it pushes has not, so it
\* ends after as many rounds as there are expired handles.
Round(p) == IF p.heap # <<>> /\ Head(p.heap).deadline <= now THEN PopHandle(p) ELSE p

Rounds ==
  LET pass[n \in Nat] == IF n = 0 THEN Pass ELSE Round(pass[n - 1])
  IN  pass

Expired(h) == {i \in DOMAIN h : h[i].deadline <= now}

CollectExpired ==
  LET p == Rounds[Cardinality(Expired(heap))]
  IN  /\ Idle
      /\ Expired(heap) # {}
      /\ tracked' = p.tracked
      /\ heap' = p.heap
      /\ retryCount' = p.retryCount
      /\ entry' = p.entry
      /\ decisions' = p.decisions
      /\ UNCHANGED now

\* processRetries drops an exhausted entry from its lane, if the client is
\* still there.
HandleDecision ==
  /\ ~Idle
  /\ decisions' = Tail(decisions)
  /\ \/ UNCHANGED entry
     \/ /\ Head(decisions).action = "EXHAUSTED"
        /\ entry' = [entry EXCEPT ![Head(decisions).key] = "gone"]
  /\ UNCHANGED <<now, tracked, heap, retryCount>>

Tick ==
  /\ Idle
  /\ now < MaxTime
  /\ now' = now + 1
  /\ UNCHANGED <<tracked, heap, retryCount, entry, decisions>>

-----------------------------------------------------------------------------
Init ==
  /\ policy \in Policies
  /\ now = 0
  /\ tracked = <<>>
  /\ heap = <<>>
  /\ retryCount = [k \in Keys |-> 0]
  /\ entry = [k \in Keys |-> "queued"]
  /\ decisions = <<>>

Step ==
  \/ \E l \in Lanes, id \in Ids : Register(l, id) \/ Acknowledge(l, id)
  \/ \E S \in SUBSET Lanes : RemoveLanes(S)
  \/ CollectExpired
  \/ HandleDecision
  \/ Tick

Next == Step /\ UNCHANGED policy

Spec == Init /\ [][Next]_vars

-----------------------------------------------------------------------------
(* Properties.                                                             *)

\* heapPeek is the least deadline: no handle is before its parent, through
\* any mixture of pushes with different timeouts and pops (heapBubbleUp and
\* heapBubbleDown).  The loop of collectExpired stops at the first handle
\* that has not expired, so one handle out of order hides others.
HeapOrdered ==
  \A i \in 2..Len(heap) : heap[i \div 2].deadline <= heap[i].deadline

\* Nothing that waits for an ack is forgotten: every registration has a
\* handle with its generation and deadline, after renewals, retries and
\* after a drop and a new registration of the same key.
HandlePerRegistration ==
  \A k \in DOMAIN tracked :
    Handle(k, tracked[k].deadline, tracked[k].generation) \in Range(heap)

DecidedKeys(ds) == {d.key : d \in Range(ds)}

\* A pass decides about exactly the registrations whose deadline has come:
\* none early through the handle of an earlier registration of its key, none
\* late behind a handle that no longer counts.
DecidesTheExpired ==
  [][CollectExpired =>
       DecidedKeys(decisions') =
         {k \in DOMAIN tracked : tracked[k].deadline <= now}]_vars

(* What the dispatcher relies on.                                          *)

Acks == INSTANCE PendingAcks WITH
  pending    <- [l \in Lanes |-> {id \in Ids : <<l, id>> \in DOMAIN tracked}],
  retryCount <- [l \in Lanes |-> [id \in Ids |-> retryCount[<<l, id>>]]],
  decisions  <- {[lane |-> d.key[1], id |-> d.key[2], action |-> d.action] :
                   d \in Range(decisions)}

\* The heap and its generations implement PendingAcks, which knows neither:
\* a pass is its Expire of the expired entries, each decided once.  A namespace
\* that spills is excepted: a drain that waits for the disk may register an
\* entry afresh, as generation 1, in the millisecond of the retry that made
\* generation 2; the handles of both then expire together and one pass uses up
\* two retries.
ImplementsPendingAcks == Acks!AckInit /\ [][~Spilling => Acks!AckNext]_(Acks!ackVars)
=============================================================================
