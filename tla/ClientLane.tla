----------------------------- MODULE ClientLane -----------------------------
(***************************************************************************)
(* The bounded in-memory queue of one lane: what ClientLane.enqueue does   *)
(* under each overflow action, and the queue operations the dispatcher     *)
(* drains and acknowledges with.  An entry is its message id; its size and *)
(* its awaiting flag are kept beside the queue.                            *)
(*                                                                         *)
(* The operators describe one lane and take the parts of its state they    *)
(* read, so that the dispatcher can apply them to every subscriber of a    *)
(* publication in one step.                                                *)
(***************************************************************************)
EXTENDS DeliveryPolicy, SequencesExt

VARIABLES size,         \* id -> its estimatedBytes (0 before publication)
          queue,        \* lane -> the queued ids, oldest first
          queuedBytes,  \* lane -> the byte counter the code maintains
          awaiting      \* lane -> the queued ids sent and not yet settled

laneVars == <<size, queue, queuedBytes, awaiting>>

\* The code's "if (this.queuedBytes < 0) this.queuedBytes = 0".
Clamp(bytes) == IF bytes \in Nat THEN bytes ELSE 0

\* The weights of the ids, one after the other: accept and shift count the
\* entries of a loop one by one.
Total(weight, ids) ==
  LET upTo[n \in 0..Len(ids)] == IF n = 0 THEN 0 ELSE upTo[n - 1] + weight[ids[n]]
  IN  upTo[Len(ids)]

Bytes(ids) == Total(size, ids)

Fits(q, bytes, n) == Len(q) < MaxQueued /\ bytes + n <= MaxBytes

InFlight(l) == Cardinality(awaiting[l])

Unsent(q, flagged) == {i \in DOMAIN q : q[i] \notin flagged}

\* Mutant: the scan starts at the newest entry.
LastUnsent(q, flagged) == q[Max(Unsent(q, flagged))]

FirstUnsent(q, flagged) == q[Min(Unsent(q, flagged))]

\* removeByMessageId: the queue without its entry of this id.
Without(q, id) == IF id \in Range(q)
                    THEN RemoveAt(q, Min({i \in DOMAIN q : q[i] = id}))
                    ELSE q

-----------------------------------------------------------------------------
(* tryCoalesce looks at the newest entry that is not awaiting: every entry *)
(* of a lane has the same coalesceKey, its topic, or none has one.         *)

\* Mutant: "&&" where the code says "policy.coalesce || overflowAction".
CoalescableByAction(l) ==
  IF Coalesce /\ Overflow("COALESCE") THEN Unsent(queue[l], awaiting[l]) ELSE {}

Coalescable(l) == IF Coalesce THEN Unsent(queue[l], awaiting[l]) ELSE {}

\* Mutant: the bytes of the replaced entry stay in the counter.
BytesKeptInCounter(l, n) == queuedBytes[l] + n

BytesIfCoalesced(l, n) ==
  queuedBytes[l] - size[queue[l][Max(Coalescable(l))]] + n

Coalesces(l, n) == Coalescable(l) # {} /\ BytesIfCoalesced(l, n) <= MaxBytes

(* dropOldestUntilFits stops at the first suffix with room, or when the    *)
(* queue is empty.                                                         *)

BytesWithoutOldest(l, k) ==
  Clamp(queuedBytes[l] - Bytes(SubSeq(queue[l], 1, k)))

DropCount(l, n) ==
  LET len == Len(queue[l])
  IN  Min({k \in 0..len : \/ k = len
                          \/ Fits(SubSeq(queue[l], k + 1, len),
                                  BytesWithoutOldest(l, k), n)})

AfterDrop(l, n) == SubSeq(queue[l], DropCount(l, n) + 1, Len(queue[l]))

(* The result of enqueue for a message of n bytes, in the order the code   *)
(* tries the cases.  After dropOldestUntilFits a message not above         *)
(* MaxBytes always fits.                                                   *)
EnqueueStatus(l, n) ==
  IF n > MaxBytes THEN "REJECTED"
  ELSE IF Overflow("SNAPSHOT_ONLY") THEN "REPLACED_SNAPSHOT"
  ELSE IF Coalesces(l, n) THEN "COALESCED"
  ELSE IF Fits(queue[l], queuedBytes[l], n) THEN "ACCEPTED"
  ELSE IF Overflow("DROP_OLDEST") THEN "DROPPED_OLDEST_AND_ACCEPTED"
  ELSE IF Spilling THEN "SPILLED"
  ELSE "REJECTED"

\* Mutant: a coalesced message leaves the older one in the queue.
QueueKeepsOlder(l, id, n) ==
  CASE EnqueueStatus(l, n) = "COALESCED" -> queue[l]
    [] EnqueueStatus(l, n) = "REPLACED_SNAPSHOT" -> <<id>>
    [] OTHER -> Append(queue[l], id)

\* Mutant: accept() puts the new entry in front.
QueueInFront(l, id, n) ==
  IF EnqueueStatus(l, n) = "ACCEPTED" THEN <<id>> \o queue[l] ELSE queue[l]

QueueAfter(l, id, n) ==
  CASE EnqueueStatus(l, n) = "ACCEPTED" -> Append(queue[l], id)
    [] EnqueueStatus(l, n) = "REPLACED_SNAPSHOT" -> <<id>>
    [] EnqueueStatus(l, n) = "COALESCED" ->
         [queue[l] EXCEPT ![Max(Coalescable(l))] = id]
    [] EnqueueStatus(l, n) = "DROPPED_OLDEST_AND_ACCEPTED" ->
         Append(AfterDrop(l, n), id)
    [] OTHER -> queue[l]

BytesAfter(l, n) ==
  CASE EnqueueStatus(l, n) = "ACCEPTED" -> queuedBytes[l] + n
    [] EnqueueStatus(l, n) = "REPLACED_SNAPSHOT" -> n
    [] EnqueueStatus(l, n) = "COALESCED" -> BytesIfCoalesced(l, n)
    [] EnqueueStatus(l, n) = "DROPPED_OLDEST_AND_ACCEPTED" ->
         BytesWithoutOldest(l, DropCount(l, n)) + n
    [] OTHER -> queuedBytes[l]

(* One publication reaches every lane of the set S.  The awaiting flags    *)
(* stay: only an AT_LEAST_ONCE lane has any, and its overflow actions      *)
(* leave the queued entries alone.                                         *)
EnqueueAll(S, id, n) ==
  /\ size' = [size EXCEPT ![id] = n]
  /\ queue' = [l \in Lanes |-> IF l \in S THEN QueueAfter(l, id, n)
                                          ELSE queue[l]]
  /\ queuedBytes' = [l \in Lanes |-> IF l \in S THEN BytesAfter(l, n)
                                                ELSE queuedBytes[l]]
  /\ UNCHANGED awaiting

\* removeByMessageId on one lane.
RemoveByMessageId(l, id) ==
  /\ queue' = [queue EXCEPT ![l] = Without(@, id)]
  /\ queuedBytes' = [queuedBytes EXCEPT ![l] =
                       IF id \in Range(queue[l]) THEN Clamp(@ - size[id]) ELSE @]
  /\ awaiting' = [awaiting EXCEPT ![l] = @ \ {id}]
  /\ UNCHANGED size

LaneInit ==
  /\ size = [id \in Ids |-> 0]
  /\ queue = [l \in Lanes |-> <<>>]
  /\ queuedBytes = [l \in Lanes |-> 0]
  /\ awaiting = [l \in Lanes |-> {}]

LaneTypeOK ==
  /\ size \in [Ids -> Nat]
  /\ queue \in [Lanes -> Seq(Ids)]
  /\ DOMAIN queuedBytes = Lanes   \* BytesAccounted says what it holds
  /\ awaiting \in [Lanes -> SUBSET Ids]
=============================================================================
