-------------------------- MODULE TopicDispatcher --------------------------
(***************************************************************************)
(* Delivery in one namespace: the TopicDispatcher with the session         *)
(* registry, the lanes of every subscriber, the ack tracker and the spill  *)
(* files, driven by the socket handlers of NamespaceHandler, the           *)
(* application's publish calls and the retry timer.                        *)
(*                                                                         *)
(* Everything runs on one Node event loop.  A handler runs to its end or   *)
(* to its first await; what follows an await is a microtask, and no socket *)
(* event, timer or file completion runs while a microtask is queued.  Only *)
(* the application's own microtasks may come in between, with a            *)
(* publication or the end of the server.  So a drain, the asynchronous     *)
(* loop that sends the entries of a lane, is cut into steps at its awaits, *)
(* and Quiet guards the steps that begin with an event.                    *)
(***************************************************************************)
EXTENDS ClientLane, DiskSpillQueue, PendingAcks

CONSTANT CanUnsubscribe   \* whether clients send "unsubscribe"

ASSUME CanUnsubscribeAssumption == CanUnsubscribe \in BOOLEAN

VARIABLES nextSequence,
          serving,      \* whether handlers and retry interval are up
          session,      \* client -> "absent", "open" or "closed"
          subscribed,   \* client -> its topics in the registry
          drain,        \* lane -> the stage of its drain
          held,         \* lane -> the entry the drain took before an await
          attempts,     \* lane -> id -> calls of sendEvent (history)
          accepted      \* lane -> ids whose enqueue was not rejected (history)

registryVars == <<policy, serving, session, subscribed>>
drainVars    == <<drain, held>>
vars == <<laneVars, spillVars, ackVars, registryVars, drainVars,
          nextSequence, attempts, accepted>>

DrainStages == {"idle", "scheduled", "holding", "recovering", "ending"}

Microtask(l) == drain[l] \in {"scheduled", "holding", "ending"}
                \/ recovery[l] = "done"

Idle  == decisions = {}
Quiet == Idle /\ \A l \in Lanes : ~Microtask(l)

Open(l) == session[l[1]] = "open"

LanesOf(S) == S \X Topics
Subscribers(t) == {l \in Lanes : l[2] = t /\ Open(l) /\ t \in subscribed[l[1]]}

\* ClientLane.hasPendingSend, of a lane with queue q and these flags.
HasPendingSend(l, q, flagged) == Unsent(q, flagged) # {} \/ HasSpilled(l)

\* scheduleDrain on every lane of S: startDrain refuses a draining lane.
ScheduleDrain(S) ==
  /\ drain' = [l \in Lanes |-> IF l \in S /\ drain[l] = "idle" THEN "scheduled"
                                                               ELSE drain[l]]
  /\ UNCHANGED held

-----------------------------------------------------------------------------
(* Socket events.                                                          *)

Connect(c) ==
  /\ Quiet
  /\ serving
  /\ session[c] = "absent"
  /\ session' = [session EXCEPT ![c] = "open"]
  /\ UNCHANGED <<laneVars, spillVars, ackVars, policy, serving, subscribed,
                 drainVars, nextSequence, attempts, accepted>>

Subscribe(c, t) ==
  /\ Quiet
  /\ session[c] = "open"
  /\ subscribed' = [subscribed EXCEPT ![c] = @ \cup {t}]
  /\ UNCHANGED <<laneVars, spillVars, ackVars, policy, serving, session,
                 drainVars, nextSequence, attempts, accepted>>

\* The lane and what it holds stay; only the tracked acks are dropped.
Unsubscribe(c, t) ==
  /\ Quiet
  /\ CanUnsubscribe
  /\ session[c] = "open"
  /\ subscribed' = [subscribed EXCEPT ![c] = @ \ {t}]
  /\ RemoveLanes({<<c, t>>})
  /\ UNCHANGED <<laneVars, spillVars, policy, serving, session, drainVars,
                 nextSequence, attempts, accepted>>

\* The cleanup of every client of S.  A drain of theirs, wherever it is, keeps
\* its session and goes on.
Leave(S) ==
  /\ session' = [c \in Clients |-> IF c \in S THEN "closed" ELSE session[c]]
  /\ subscribed' = [c \in Clients |-> IF c \in S THEN {} ELSE subscribed[c]]
  /\ RemoveLanes(LanesOf(S))
  /\ StartClears(IF Spilling THEN LanesOf(S) ELSE {})
  /\ UNCHANGED <<laneVars, policy, drainVars, nextSequence, attempts, accepted>>

Disconnect(c) ==
  /\ Quiet
  /\ session[c] = "open"
  /\ Leave({c})
  /\ UNCHANGED serving

\* The application stops the server, perhaps right after a publication: the
\* retry interval is cleared and the clients are cleaned up in that call, with
\* their drains still scheduled.  A later start() builds another dispatcher.
Stop ==
  /\ Idle
  /\ serving
  /\ serving' = FALSE
  /\ Leave({c \in Clients : session[c] = "open"})

\* Mutant: the slot an ack frees wakes nobody.
AckWithoutDrain(l, id) ==
  /\ Quiet
  /\ Reliable
  /\ Open(l)
  /\ attempts[l][id] > 0
  /\ Acknowledge(l, id)
  /\ RemoveByMessageId(l, id)
  /\ UNCHANGED <<spillVars, registryVars, drainVars, nextSequence, attempts,
                 accepted>>

\* A client acks what it was sent, perhaps late, perhaps twice.
Ack(l, id) ==
  /\ Quiet
  /\ Reliable
  /\ Open(l)
  /\ attempts[l][id] > 0
  /\ Acknowledge(l, id)
  /\ RemoveByMessageId(l, id)
  /\ ScheduleDrain(IF /\ id \in Range(queue[l])
                      /\ HasPendingSend(l, queue'[l], awaiting'[l])
                     THEN {l} ELSE {})
  /\ UNCHANGED <<spillVars, registryVars, nextSequence, attempts, accepted>>

-----------------------------------------------------------------------------
(* Publications: enqueueForSession on every lane of S.                     *)

Deliver(S, n) ==
  LET id == nextSequence
      result(status) == {l \in S : EnqueueStatus(l, n) = status}
      kept == S \ result("REJECTED")
  IN  /\ id \in Ids
      /\ nextSequence' = nextSequence + 1
      /\ EnqueueAll(S, id, n)
      /\ SpillAll(result("SPILLED"), id)
      /\ accepted' = [l \in Lanes |-> IF l \in kept THEN accepted[l] \cup {id}
                                                    ELSE accepted[l]]
      /\ ScheduleDrain(kept)
      /\ UNCHANGED <<ackVars, registryVars, attempts>>

Publish(t, n) == Idle /\ Deliver(Subscribers(t), n)

PublishTo(l, n) == Idle /\ l \in Subscribers(l[2]) /\ Deliver({l}, n)

-----------------------------------------------------------------------------
(* The retry timer: processRetries is one synchronous call.  RetryTick is  *)
(* its collectExpired, and one HandleDecision follows for every decision;  *)
(* nothing else runs before the last of them.                              *)

\* Mutant: a pass forgets the entries of clients that have gone.
TrackedOpen == {p \in Lanes \X Ids : p[2] \in pending[p[1]] /\ Open(p[1])}

Tracked == {p \in Lanes \X Ids : p[2] \in pending[p[1]]}

RetryTick(expired) ==
  /\ Quiet
  /\ serving
  /\ expired # {}
  /\ Expire(expired)
  /\ awaiting' = [l \in Lanes |-> {id \in awaiting[l] : <<l, id>> \notin expired}]
  /\ UNCHANGED <<size, queue, queuedBytes, spillVars, registryVars, drainVars,
                 nextSequence, attempts, accepted>>

\* Mutant: the session of the decision is not looked up again.
HandleRetryUnchecked(d) ==
  /\ d.action = "RETRY"
  /\ ScheduleDrain({d.lane})
  /\ UNCHANGED laneVars

HandleRetry(d) ==
  /\ d.action = "RETRY"
  /\ ScheduleDrain(IF Open(d.lane) /\ d.id \in Range(queue[d.lane])
                     THEN {d.lane} ELSE {})
  /\ UNCHANGED laneVars

\* Mutant: no drain after an exhausted entry (CHANGELOG.md:11).
HandleExhaustedOnly(d) ==
  /\ d.action = "EXHAUSTED"
  /\ \/ ~Open(d.lane) /\ UNCHANGED laneVars
     \/ Open(d.lane) /\ RemoveByMessageId(d.lane, d.id)
  /\ UNCHANGED drainVars

\* Mutant: the exhausted entry stays in its lane.
HandleExhaustedKeeps(d) ==
  /\ d.action = "EXHAUSTED"
  /\ ScheduleDrain(IF Open(d.lane) THEN {d.lane} ELSE {})
  /\ UNCHANGED laneVars

HandleExhausted(d) ==
  /\ d.action = "EXHAUSTED"
  /\ \/ /\ ~Open(d.lane)
        /\ UNCHANGED <<laneVars, drainVars>>
     \/ /\ Open(d.lane)
        /\ RemoveByMessageId(d.lane, d.id)
        /\ ScheduleDrain(
             IF /\ HasPendingSend(d.lane, queue'[d.lane], awaiting'[d.lane])
                /\ Cardinality(awaiting'[d.lane]) < MaxInFlight
               THEN {d.lane} ELSE {})

HandleDecision(d) ==
  /\ HandleRetry(d) \/ HandleExhausted(d)
  /\ Handled(d)
  /\ UNCHANGED <<spillVars, registryVars, nextSequence, attempts, accepted>>

-----------------------------------------------------------------------------
(* The drain of a lane.                                                    *)

Goto(l, stage, id) ==
  /\ drain' = [drain EXCEPT ![l] = stage]
  /\ held' = [held EXCEPT ![l] = id]

(* Go to the next await of the drain of l, whose queue, bytes and flags    *)
(* are now q, bytes and flagged: poll() takes the head of a BEST_EFFORT    *)
(* queue, firstPendingSend() only points at an unsent entry, and either    *)
(* asks the disk once when memory has nothing.  Refill is the second look, *)
(* after the disk's answer: it neither asks again nor comes back to the    *)
(* loop's test of the in-flight budget.                                    *)

Entries(q, flagged) == IF Reliable THEN Unsent(q, flagged) ELSE DOMAIN q

\* Mutant: one entry beyond the budget.
MaySendOneMore(flagged) == Reliable => Cardinality(flagged) <= MaxInFlight

MaySend(flagged) == Reliable => Cardinality(flagged) < MaxInFlight

\* Mutant: poll() leaves the entry in the queue.
TakeNextByPeek(l, q, bytes, flagged) ==
  /\ Entries(q, flagged) # {}
  /\ queue' = [queue EXCEPT ![l] = q]
  /\ queuedBytes' = [queuedBytes EXCEPT ![l] = bytes]
  /\ Goto(l, "holding", IF Reliable THEN FirstUnsent(q, flagged) ELSE Head(q))

TakeNext(l, q, bytes, flagged) ==
  /\ Entries(q, flagged) # {}
  /\ IF Reliable
       THEN /\ queue' = [queue EXCEPT ![l] = q]
            /\ queuedBytes' = [queuedBytes EXCEPT ![l] = bytes]
            /\ Goto(l, "holding", FirstUnsent(q, flagged))
       ELSE /\ queue' = [queue EXCEPT ![l] = Tail(q)]
            /\ queuedBytes' = [queuedBytes EXCEPT ![l] =
                                 Clamp(bytes - size[Head(q)])]
            /\ Goto(l, "holding", Head(q))

Stay(l, q, bytes, stage) ==
  /\ queue' = [queue EXCEPT ![l] = q]
  /\ queuedBytes' = [queuedBytes EXCEPT ![l] = bytes]
  /\ Goto(l, stage, NoId)

LoopHead(l, q, bytes, flagged) ==
  /\ awaiting' = [awaiting EXCEPT ![l] = flagged]
  /\ \/ /\ MaySend(flagged)
        /\ TakeNext(l, q, bytes, flagged)
        /\ UNCHANGED spillVars
     \/ /\ MaySend(flagged)
        /\ Entries(q, flagged) = {}
        /\ HasSpilled(l)
        /\ Stay(l, q, bytes, "recovering")
        /\ StartRecover(l)
     \/ /\ ~MaySend(flagged) \/ (Entries(q, flagged) = {} /\ ~HasSpilled(l))
        /\ Stay(l, q, bytes, "ending")
        /\ UNCHANGED spillVars

DrainStart(l) ==
  /\ Idle
  /\ drain[l] = "scheduled"
  /\ LoopHead(l, queue[l], queuedBytes[l], awaiting[l])
  /\ UNCHANGED <<size, ackVars, registryVars, nextSequence, attempts, accepted>>

Attempt(l, id) == attempts' = [attempts EXCEPT ![l][id] = @ + 1]

\* Mutant: the entry is marked and sent, but not registered.
SendHeldUntracked(l) ==
  /\ Idle
  /\ drain[l] = "holding"
  /\ Attempt(l, held[l])
  /\ LoopHead(l, queue[l], queuedBytes[l],
              IF Reliable THEN awaiting[l] \cup {held[l]} ELSE awaiting[l])
  /\ UNCHANGED <<size, ackVars, registryVars, nextSequence, accepted>>

(* The step after the await: AT_LEAST_ONCE marks the entry and registers   *)
(* it before sendEvent.  BEST_EFFORT ignores a failing sendEvent.          *)
SendHeld(l) ==
  /\ Idle
  /\ drain[l] = "holding"
  /\ Attempt(l, held[l])
  /\ IF Reliable
       THEN /\ Register(l, held[l])
            /\ LoopHead(l, queue[l], queuedBytes[l], awaiting[l] \cup {held[l]})
       ELSE /\ UNCHANGED ackVars
            /\ LoopHead(l, queue[l], queuedBytes[l], awaiting[l])
  /\ UNCHANGED <<size, registryVars, nextSequence, accepted>>

\* Mutant: the catch clause removes the entry and leaves it registered.
SendHeldFailsRegistered(l) ==
  /\ Idle
  /\ Reliable
  /\ drain[l] = "holding"
  /\ Attempt(l, held[l])
  /\ Register(l, held[l])
  /\ LoopHead(l, Without(queue[l], held[l]),
              Clamp(queuedBytes[l] - size[held[l]]), awaiting[l] \ {held[l]})
  /\ UNCHANGED <<size, registryVars, nextSequence, accepted>>

\* sendEvent throws in an AT_LEAST_ONCE drain: the message is forgotten.
SendHeldFails(l) ==
  /\ Idle
  /\ Reliable
  /\ drain[l] = "holding"
  /\ Attempt(l, held[l])
  /\ Acknowledge(l, held[l])
  /\ LoopHead(l, Without(queue[l], held[l]),
              Clamp(queuedBytes[l] - size[held[l]]), awaiting[l] \ {held[l]})
  /\ UNCHANGED <<size, registryVars, nextSequence, accepted>>

\* Mutant: what does not fit is not accepted.
RefilledWhileRoom(l) ==
  queue[l] \o SubSeq(recovered[l], 1,
                     Min({Len(recovered[l]), MaxQueued - Len(queue[l])}))

\* refillFromDisk accepts whatever recover() returned, with no test of room.
Refilled(l) == queue[l] \o recovered[l]

Refill(l) ==
  LET q == Refilled(l)
      bytes == queuedBytes[l] + Bytes(recovered[l])
  IN  /\ Idle
      /\ recovery[l] = "done"
      /\ \/ TakeNext(l, q, bytes, awaiting[l])
         \/ /\ Entries(q, awaiting[l]) = {}
            /\ Stay(l, q, bytes, "ending")
      /\ EndRecover(l)
      /\ UNCHANGED <<size, awaiting, ackVars, registryVars, nextSequence,
                     attempts, accepted>>

\* Mutant: the finally clause does not look at the lane again.
DrainEndOnly(l) ==
  /\ Idle
  /\ drain[l] = "ending"
  /\ Goto(l, "idle", NoId)
  /\ UNCHANGED <<laneVars, spillVars, ackVars, registryVars, nextSequence,
                 attempts, accepted>>

\* The finally clause of drainTopic.
DrainEnd(l) ==
  /\ Idle
  /\ drain[l] = "ending"
  /\ Goto(l, IF /\ HasPendingSend(l, queue[l], awaiting[l])
                /\ InFlight(l) < MaxInFlight
               THEN "scheduled" ELSE "idle", NoId)
  /\ UNCHANGED <<laneVars, spillVars, ackVars, registryVars, nextSequence,
                 attempts, accepted>>

\* The completion of a file operation is an event of its own.
Completes(operation) ==
  /\ Quiet
  /\ operation
  /\ UNCHANGED <<laneVars, ackVars, registryVars, drainVars, nextSequence,
                 attempts, accepted>>

FileEvent(l) ==
  \/ \E id \in Ids : Completes(WriteDone(l, id)) \/ Completes(WriteFails(l, id))
  \/ Completes(ListFiles(l))
  \/ Completes(ReadFile(l))
  \/ Completes(SkipFile(l))
  \/ Completes(ClearAfterWrites(l))
  \/ Completes(ClearNow(l))

-----------------------------------------------------------------------------
Init ==
  /\ policy \in Policies
  /\ LaneInit /\ SpillInit /\ AckInit
  /\ nextSequence = 1
  /\ serving = TRUE
  /\ session = [c \in Clients |-> "absent"]
  /\ subscribed = [c \in Clients |-> {}]
  /\ drain = [l \in Lanes |-> "idle"]
  /\ held = [l \in Lanes |-> NoId]
  /\ attempts = [l \in Lanes |-> [id \in Ids |-> 0]]
  /\ accepted = [l \in Lanes |-> {}]

\* Stop is one of them, as the end of every socket.
SocketEvent ==
  \/ \E c \in Clients : Connect(c) \/ Disconnect(c)
  \/ \E c \in Clients, t \in Topics : Subscribe(c, t) \/ Unsubscribe(c, t)
  \/ \E l \in Lanes, id \in Ids : Ack(l, id)
  \/ Stop

Publication ==
  \/ \E t \in Topics, n \in Sizes : Publish(t, n)
  \/ \E l \in Lanes, n \in Sizes : PublishTo(l, n)

Retrying ==
  \/ \E expired \in SUBSET Tracked : RetryTick(expired)
  \/ \E d \in decisions : HandleDecision(d)

DrainStep(l) ==
  \/ DrainStart(l)
  \/ SendHeld(l)
  \/ SendHeldFails(l)
  \/ Refill(l)
  \/ DrainEnd(l)

Next ==
  \/ SocketEvent
  \/ Publication
  \/ Retrying
  \/ \E l \in Lanes : DrainStep(l) \/ FileEvent(l)

Spec == Init /\ [][Next]_vars

(* Node runs every queued microtask (weak fairness: nothing takes one off   *)
(* the queue) and every ready callback in its turn.  Timers and file       *)
(* completions wait for the microtasks in between, again and again, hence  *)
(* strong fairness, but only for some file operation of a lane and for     *)
(* some pass of the timer that finds an expired entry.  Clients and the    *)
(* application owe nothing: socket events and publications are not fair.   *)
Fairness ==
  /\ \A l \in Lanes : WF_vars(DrainStep(l)) /\ SF_vars(FileEvent(l))
  /\ SF_vars(\E expired \in SUBSET Tracked : RetryTick(expired))
  /\ WF_vars(\E d \in decisions : HandleDecision(d))

FairSpec == Spec /\ Fairness

-----------------------------------------------------------------------------
(* Properties.                                                             *)

\* Every variable stays in its range.
TypeOK ==
  /\ policy \in Policies
  /\ LaneTypeOK /\ SpillTypeOK /\ AckTypeOK
  /\ nextSequence \in 1..(MaxMessages + 1)
  /\ serving \in BOOLEAN
  /\ session \in [Clients -> {"absent", "open", "closed"}]
  /\ subscribed \in [Clients -> SUBSET Topics]
  /\ drain \in [Lanes -> DrainStages]
  /\ held \in [Lanes -> Ids \cup {NoId}]
  /\ attempts \in [Lanes -> [Ids -> Nat]]
  /\ accepted \in [Lanes -> SUBSET Ids]

\* The in-flight budget of a lane is never exceeded, although the drain tests
\* it before an await and uses the answer after it (drainAtLeastOnce).
InFlightBound == \A l \in Lanes : InFlight(l) <= MaxInFlight

\* A refill accepts up to MaxQueued entries whatever the queue holds by then,
\* so publications during the file reads can double the configured limit,
\* but never exceed twice its value (ClientLane.refillFromDisk).
QueueBound ==
  \A l \in Lanes : Len(queue[l]) <= IF Spilling THEN 2 * MaxQueued ELSE MaxQueued

\* queuedBytes is the sum of the queued sizes after any sequence of
\* operations: fits() decides by the counter, and no clamp ever hides a drift.
BytesAccounted == \A l \in Lanes : queuedBytes[l] = Bytes(queue[l])

\* Whenever the event loop is between two handlers, a lane of a connected
\* client that has something to send and budget to send it is being drained:
\* no wakeup is lost between the loop's last look at the lane and the finally
\* clause of drainTopic, whatever is published, acked or retried meanwhile.
NoLostWakeup ==
  Idle => \A l \in Lanes :
    /\ Open(l)
    /\ HasPendingSend(l, queue[l], awaiting[l])
    /\ InFlight(l) < MaxInFlight
    => drain[l] # "idle"

\* A lane with something to send that no drain serves can only be waiting for
\* its in-flight entries; the tracker must then hold one of them, or neither
\* a timeout nor a retry will ever free the lane.
NoWedgedLane ==
  Idle => \A l \in Lanes :
    /\ Open(l)
    /\ drain[l] = "idle"
    /\ HasPendingSend(l, queue[l], awaiting[l])
    => pending[l] \cap awaiting[l] # {}

\* The lane and the tracker agree: an entry flagged awaiting is queued, and a
\* registered entry of a connected client is still in its lane.
AckStateAgrees ==
  \A l \in Lanes :
    /\ awaiting[l] \subseteq Range(queue[l])
    /\ Open(l) /\ Idle => pending[l] \subseteq Range(queue[l])

\* Where an accepted message of a lane is until it is first sent.
Stored(l) ==
  Range(queue[l]) \cup OnDisk(l) \cup Range(recovered[l])
    \cup (IF drain[l] = "holding" THEN {held[l]} ELSE {})

\* No accepted message vanishes before it was handed to the socket, except by
\* a failed file write: it waits in memory, on disk or in the drain's hands
\* (OverflowAction REJECT_NEW and SPILL_TO_DISK, which promise to keep it).
NothingLost ==
  (Spilling \/ Overflow("REJECT_NEW")) /\ ~Coalesce =>
    \A l \in Lanes : Open(l) =>
      \A id \in accepted[l] :
        attempts[l][id] > 0 \/ id \in Stored(l) \cup lost[l]

\* A message is in one place at a time, once: refills and file writes that
\* overlap never hand the same message to a lane twice.
OnePlace ==
  \A l \in Lanes :
    /\ IsInjective(queue[l] \o recovered[l])
    /\ writing[l] \cap files[l] = {}
    /\ Range(queue[l] \o recovered[l]) \cap OnDisk(l) = {}

\* hasSpilled() is right for a connected client: the counter is the number of
\* entries on disk or on their way there, through failed writes as well.
SpillCountExact ==
  \A l \in Lanes :
    Open(l) => count[l] = Cardinality(writing[l]) + Cardinality(files[l])

(* The promise of DeliveryContract, read off the lanes.                     *)

Status(l, id) ==
  IF id \notin accepted[l] THEN "none"
  ELSE IF attempts[l][id] = 0
         THEN IF id \in Stored(l) THEN "waiting" ELSE "discarded"
  ELSE IF Reliable /\ id \in Range(queue[l]) THEN "sent" ELSE "settled"

Contract == INSTANCE DeliveryContract WITH
  status <- [l \in Lanes |-> [id \in Ids |-> Status(l, id)]],
  tries  <- attempts,
  next   <- nextSequence,
  gone   <- {c \in Clients : session[c] = "closed"}

\* Whatever drains, acks, timer passes, refills and disconnects interleave, the
\* dispatcher does no more than the contract allows: a message that was acked,
\* exhausted, dropped or sent by BEST_EFFORT never comes back, from the queue,
\* the disk or the hands of a drain, and none is dropped but by the policy, a
\* failed write or the end of its client.
ImplementsContract == Contract!ContractSpec

\* Every resend to a connected client is paid for by a retry: the budget of
\* 1 + maxRetries transmissions holds whatever acks and drains interleave.
RetryBudget ==
  [][\A l \in Lanes, id \in Ids :
       attempts'[l][id] > attempts[l][id] /\ Open(l)
         => attempts'[l][id] <= 1 + retryCount[l][id]]_vars

\* The first transmissions of a lane follow the order of publication.
SentInOrder ==
  \A l \in Lanes, id \in Ids :
    attempts[l][id] = 0 /\ attempts'[l][id] > 0
      => \A later \in Ids : later > id => attempts[l][later] = 0

\* They do for every policy that keeps its queue in memory, through retries,
\* coalescing and dropped entries.
InMemoryOrder == [][~Spilling => SentInOrder]_vars

\* Once a client has gone, a lane whose drain has ended is never drained
\* again, by no publication, late decision or leftover microtask.
GoneStaysIdle ==
  [][\A l \in Lanes :
       session[l[1]] = "closed" /\ drain[l] = "idle" => drain'[l] = "idle"]_vars

\* When both clear() calls of a disconnect have ended nothing of the client
\* is on disk, although its writes and a recover() may have been under way.
SpillCleared ==
  \A l \in Lanes :
    session[l[1]] = "closed" /\ clearing[l] = {} => OnDisk(l) = {}

\* Overflow never costs the newest message: whatever an overflow action
\* discards, the message accepted last is sent or still there to be sent.
NewestKept ==
  \A l \in Lanes : Open(l) /\ accepted[l] # {} =>
    LET newest == Max(accepted[l])
    IN  attempts[l][newest] > 0 \/ newest \in Stored(l) \cup lost[l]

\* A lane that coalesces or keeps snapshots never builds a backlog, whatever
\* the sizes of the messages do to the byte limit.
NoBacklog ==
  Coalesce \/ Overflow("SNAPSHOT_ONLY") =>
    \A l \in Lanes : Len(queue[l]) <= 1 /\ OnDisk(l) = {}

\* Every accepted message is handed to the socket in the end, or the client
\* goes away, or its file write fails: acks are not needed for it, the retry
\* budget of the messages before it runs out.
EventuallySent ==
  \A l \in Lanes, id \in Ids :
    id \in accepted[l] ~> attempts[l][id] > 0 \/ ~Open(l) \/ id \in lost[l]

\* As long as the server runs no registration outlives its message: acked,
\* exhausted or removed, also the one a drain adds after its client has gone.
\* (A stopped server has no retry interval, and drops the tracker.)
AcksSettle ==
  \A l \in Lanes, id \in Ids :
    id \in pending[l] ~> id \notin pending[l] \/ ~serving

\* A client that has gone is forgotten for good: no drain, no file and, if the
\* server runs, no tracked ack of its lanes remains, although a drain may have
\* been waiting for the disk, or its turn to begin, when it left.
GoneIsForgotten ==
  \A l \in Lanes :
    session[l[1]] = "closed" ~>
      [](/\ drain[l] = "idle"
         /\ OnDisk(l) = {}
         /\ serving => pending[l] = {})

-----------------------------------------------------------------------------
(* What the documentation says and the code does not do.                   *)

\* README.md:276: "the queue transparently refills from disk in FIFO order, so
\* all messages are delivered in the order they were published".
PublicationOrder == [][SentInOrder]_vars

\* README.md:280: "Messages are enqueued in-memory up to
\* maxQueuedMessagesPerClient", with SPILL_TO_DISK too.
WithinQueueLimit == \A l \in Lanes : Len(queue[l]) <= MaxQueued

\* DeliveryMode.ts:19: "the server retries delivery until the client sends an
\* ack or the retry budget ... is exhausted": a message that occupies the
\* in-flight budget of a subscribed client is tracked for its retries.
InFlightIsTracked ==
  Idle => \A l \in Lanes :
    Open(l) /\ l[2] \in subscribed[l[1]] => awaiting[l] \subseteq pending[l]
=============================================================================
