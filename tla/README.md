# StreamFence: a TLA+ model of its delivery core

StreamFence is a topic server on top of socket.io: an application publishes
messages to the topics of a namespace, every subscribed client has a bounded
queue per topic, and a namespace chooses between best-effort and at-least-once
delivery and among five overflow actions, one of which spills to disk. This
directory models the part of it where messages can be lost, duplicated,
reordered or stuck, checks it with TLC and proves its central properties with
TLAPS. Paths below are relative to `src/src/` unless they start with `src/`;
`delivery/` stands for `internal/delivery/`.

## 1. The system

### Components

| Component (source) | State | Operations | Talks to |
|---|---|---|---|
| Topic dispatcher (`delivery/TopicDispatcher.ts`) | `nextSequence` | `publish`, `publishTo`, `acknowledge`, `processRetries`, `onClientDisconnected`, `onClientUnsubscribed`; the asynchronous `drainTopic` | registry, lanes, tracker, client adapter |
| Client lane (`delivery/ClientLane.ts`) | `queue` of entries with an `awaiting` flag, `queuedBytes` | `enqueue` (five overflow actions, coalescing), `poll`, `firstPendingSend`, `markAwaiting`, `removeByMessageId`, `refillFromDisk` | its spill queue |
| Disk spill queue (`delivery/DiskSpillQueue.ts`) | `seq`, `count`, `flushPromises`; the files of a directory | `spill`, `recover`, `clear`, `hasSpilled` | the file system |
| Ack tracker, retry service (`delivery/AckTracker.ts`, `RetryService.ts`) | `pending` map, deadline heap with generations | `register`, `acknowledge`, `collectExpired`, `removeClient`, `removeClientTopic` | sets `awaiting` and `retryCount` of lane entries |
| Sessions (`delivery/ClientSessionRegistry.ts`, `ClientSessionState.ts`) | sessions by id, ids by the joined namespace and topic; subscriptions, lanes, draining topics | `register`, `subscribe`, `unsubscribe`, `remove`, `startDrain`, `finishDrain`, `dispose` | lanes |
| Namespace handler, client adapter (`internal/transport/`) | the socket handlers | connect, subscribe, unsubscribe, ack, disconnect; `sendEvent` | registry, dispatcher |
| Topic registry and policy (`delivery/TopicRegistry.ts`, `NamespaceSpec.ts`, `internal/config/TopicPolicy.ts`) | policies by the joined namespace and topic | validation at build time, `find`, `has` | dispatcher, handlers |
| Server life cycle (`StreamFenceServer.ts`) | `running`, handlers, retry interval | `start`, `stop`, `attachRetryProcessor`, event publication | bootstrap, handlers, dispatcher |
| Auth rate limiter, token validation (`internal/security/`) | failures per address | `isLimited`, `recordFailure`, `recordSuccess` | the rate limiter: nobody in the server |
| Configuration, builders, protocol records, metrics, events | none that is read back | parsing, counting, callbacks | - |

A publication runs synchronously from the application into every subscriber's
lane and ends by scheduling a drain (`queueMicrotask`). The drain sends through
the client adapter, and for at-least-once marks the entry `awaiting` and
registers it with the tracker first. An ack, or the 50 ms retry interval, frees
the in-flight slot and schedules the drain again. Lanes of a spilling namespace
call the disk without awaiting the writes and await `recover()` in the middle
of a drain.

### What is hard about it

Everything runs on one event loop, so the interleavings are those of awaits,
timers and file completions:

* The drain tests `inFlightCount < maxInFlight`, then awaits an entry, which may
  be a whole disk recovery, then spends the slot. Acks, retries, publications
  and disconnects come in between (`TopicDispatcher.ts:303`).
* `startDrain` refuses a lane that is draining. A wakeup that arrives between
  the drain's last look at the queue and `finishDrain` is dropped and must be
  made good by the `finally` clause (`:274`).
* Writes of the spill queue are started and forgotten; `recover` waits for those
  it saw at its call, then lists, reads and unlinks with an await each;
  `clear` resets the counter under it. Writes and reads fail one by one.
* A pass of the retry timer first collects all expired entries, resetting flags
  and dropping registrations, and then handles one decision after the other.
* A client disconnects while its drain waits for the disk; the drain keeps the
  session object and goes on with it. A `server.stop()` cleans every client up in
  the application's own call, perhaps right after a publication, with drains
  still scheduled (`:175`).
* `unsubscribe` drops the tracked acks and keeps the lane.
* A handle stays in the deadline heap when its registration is renewed or
  dropped; only its generation tells that it no longer counts
  (`AckTracker.ts:77`). Timeouts differ between namespaces, so handles are not
  pushed in the order of their deadlines.
* A spilled entry is a temporary file, then a file, and is unlinked after it was
  read; the process may end between any two of these, and the constructor of
  the next queue counts and numbers from what it finds (`DiskSpillQueue.ts:15`).
* `start()` and `stop()` await the bootstrap and nothing serialises them; what
  follows the await reads the server's fields anew (`StreamFenceServer.ts:47,98`).
  Listeners run inside both, and may throw.
* A subscription is kept twice, in the session and in the registry's index, and
  the registries' keys join two names by a separator that both may contain
  (`ClientSessionRegistry.ts:77`).

`PROJECT.json` lists these hazards one by one, each at its line, with the
properties that would catch it, or the reason no property covers it yet.

### What makes each component correct

* Dispatcher: no message is lost before it was handed to the socket, none is
  sent twice by best-effort, at-least-once sends at most `1 + maxRetries` times,
  in order, within the in-flight budget; every lane that can send is drained;
  a client that has gone is forgotten.
* Lane: limits hold, the byte counter is the sum, the newest message survives
  every overflow action, coalescing and snapshots keep no backlog.
* Spill queue: the counter is the number of entries, each entry is in one place,
  nothing of a client is left after its disconnect.
* Tracker: it tracks what is in flight, every registration settles.
* Sessions: a session is in the registry that the dispatcher publishes from;
  publications and acks reach it until it has gone; the index agrees with the
  sessions, and a publication reaches exactly those who subscribed to it.
* Server: one retry interval at most, a running server has something to publish
  with, and calls made one after the other leave port, handlers, interval and
  flag all up or all down, whatever fails.

## 2. The modules

| Module | Models |
|---|---|
| `DeliveryPolicy` | the constants, the policies that validation lets through, lanes and message ids |
| `ClientLane` | `ClientLane.ts`: enqueue under every overflow action, the queue operations, the byte counter |
| `DiskSpillQueue` | `DiskSpillQueue.ts` as the dispatcher sees it: writes, `recover` from call to result, the two `clear` calls of a disconnect |
| `SpillDirectory` | `DiskSpillQueue.ts` file by file, with failing file operations, crashes and the constructor; implements `DiskSpillQueue` |
| `PendingAcks` | `AckTracker.ts` as the dispatcher sees it: registrations, verdicts, decisions |
| `AckTracker` | `AckTracker.ts` with its clock, heap and generations; implements `PendingAcks` |
| `DeliveryContract` | abstract: what delivery promises for a message of a lane, with no queue, disk, ack or drain |
| `TopicDispatcher` | the composition: handlers, publications, timer pass, the drain cut at its awaits; implements `DeliveryContract` |
| `SessionRegistry` | `ClientSessionRegistry.ts`, `ClientSessionState.ts`, `TopicRegistry.ts` under the handlers of several `NamespaceHandler`s: who receives what, under which policy |
| `ServerLifecycle` | `StreamFenceServer.ts` with `SocketServerBootstrap.ts` and the `NamespaceHandler`s: start, stop, attach, connections |
| `MCTopicDispatcher`, `MCAckTracker`, `MCSpillDirectory`, `MCSessionRegistry` | the policies, timeouts and names of each run |
| `DataLemmas` | lemmas: induction over a set of naturals, iteration of a step, least and greatest elements, sorted sets, ends of sequences |
| `TopicDispatcherProofs` | queue operations; the type invariant; the in-flight budget; agreement of lane and tracker; no lost wakeup; no wedged lane |
| `PlaceProofs` | where each message is: one place, the spill counter, nothing left on disk, the length of a queue; the retry budget; lanes of clients that have gone; the byte counter |
| `ContractProofs` | what the policies promise: nothing lost, the newest kept, no backlog, the order of sends; `TopicDispatcher` implements `DeliveryContract` |
| `AckTrackerProofs` | the heap and the passes of the tracker; `AckTracker` implements `PendingAcks` |
| `SpillDirectoryProofs` | numbers, files and counter of a directory; `SpillDirectory` implements `DiskSpillQueue` |
| `SessionRegistryProofs` | sessions and index agree; who a publication reaches |
| `ServerLifecycleProofs` | the theorems of the life cycle |

`TopicDispatcher` EXTENDS the modules of the components it composes.
`AckTracker` and `SpillDirectory` stand on their own, with the dispatcher's side
as their environment, and instantiate the abstract module they implement.
`ServerLifecycle` shares nothing with the others: to the server, delivery is one
dispatcher and one registry, built by `start()` and dropped by `stop()`. To
`SessionRegistry`, delivery is a set of lanes that publications reach: it shows
what `TopicDispatcher` takes for granted of the registries.

### Correspondence

A lane is the pair <<client, topic>>, as the code has one `ClientLane` per
session and topic. A message is its sequence number (`nextMessageId`), an entry
is a message in a lane; `size`, `awaiting`, `retryCount` are the fields of the
entry, kept as functions beside the queue. `drain[l]` is the program counter of
the lane's asynchronous drain:

| `drain[l]` | the code is |
|---|---|
| `idle` | not draining (`drainingTopics` lacks the topic) |
| `scheduled` | in the microtask queue (`scheduleDrain`) |
| `holding` | resuming from `await poll()` / `await firstPendingSend()` with entry `held[l]` |
| `recovering` | awaiting `recover()`, whose own stage is `recovery[l]` |
| `ending` | resuming in `drainTopic`, before the `finally` clause |

`LoopHead` is the code from one await to the next; it is a part of `DrainStart`,
`SendHeld` and `SendHeldFails`, never a step of its own. `Refill` is the second
look after the disk's answer, which does not test the budget again.

*The event loop.* `Quiet` says that no microtask is queued and no timer pass is
half handled; socket events, timer passes and file completions need it, since
Node empties the microtask queue before the next callback. Publications and
`Stop` only need `Idle`: the application's own microtasks may publish, or stop
the server, between two microtasks of the drain. `Stop` is the synchronous part
of `server.stop()`: the cleanup of every client (`Leave`, as `Disconnect` does it for
one) while drains of theirs may be scheduled, holding an entry or ending, and
the end of the retry interval; `serving` then keeps out timer passes and new
connections. A later `start()` builds another dispatcher, which is
`ServerLifecycle`'s. (A metrics callback that stops the server in the middle of
a timer pass is left out, as all callbacks are.) A timer pass is one synchronous call in the code; it is
cut into `RetryTick` and one `HandleDecision` per decision, during which nothing
else runs, so that the decisions of one pass can come in any order (the code's
is the order of the deadlines).

*History variables.* `attempts` counts calls of `sendEvent`, `accepted` collects
what `enqueue` did not reject, `lost` what a write failed to store. No guard
reads `accepted` or `lost`; `attempts` is read by `Ack` alone: clients ack what
they were sent, late or repeatedly.

*The contract.* `DeliveryContract` gives every message of a lane a status: `none`,
`waiting`, `sent` (handed over, may be resent), `settled`, `discarded`.
`TopicDispatcher.Status` reads it off the lane: a message is waiting while it is
unsent and in memory, on disk, in the result of a recovery or in the hands of a
drain; sent while an at-least-once queue holds it; settled after that. That a
settled or discarded message never comes back, and that nothing is discarded
but by a lossy policy, a failed write or the end of its client, is what the
refinement adds to the invariants.

*The tracker.* `AckTracker.heap` is the array of `heapPush` and `heapPop` with
positions from 1, so the parent of `i` is `i \div 2`; `tracked` is the `pending`
map with generation and deadline. The loops of `heapPush`, `heapPop` and
`collectExpired` are functions that repeat one round (`Climb`, `Sink`, `Round`)
up to the largest number of rounds the loop can take; a round that finds the
loop's condition false changes nothing. `CollectExpired` is one step, as in the
code: its rounds pop, skip stale handles, and renew or drop the registration. `entry` is the environment: what
the lane lets the dispatcher register or acknowledge. `RemoveLanes` stands for
`removeClient` and `removeClientTopic`.

*The directory.* A file of `SpillDirectory` is its number, in `tmp` or in `json`,
with the message in it. `writes` are the calls of `writeEntry` under way, `flush`
the set `flushPromises`. `recover` is cut at each of its awaits (`stage`), the two
`clear` calls list and unlink on their own. `Crash` forgets everything but the
files; `Open` is the constructor. A failing `readdir` of `recover` is a crash: the
rejection of the drain is not handled, and Node ends the process.

*The registries.* A name of `SessionRegistry` is a sequence of parts, as far as the
joining tells names apart: `<<"b", ":", ":", "c">>` is the topic `b::c`. `subscriptions` is the index and `policies` the topic
registry, both by `Key`; `subscribed` is in the sessions. `home` is the namespace
a session was created in, `listening` the clients whose socket handlers are
attached (`connectionCleanups`). Every handler is synchronous and one step.
`published` is history: the publication of the last step, with the sessions it
reached and those it was meant to choose from (all of them for `publish`, one
for `publishTo`). `ReachesItsOwn` compares the two with the subscriptions in the
sessions: under one key, whatever names share it, and under the hypothesis
`KeysApart` by namespace and topic. `IndexAgrees` and `ReachesItsOwn` are why
`TopicDispatcher` can do with one map of subscriptions and one namespace where
`KeysApart` holds; a configuration whose namespaces contain no ":" is enough for
that (`PlainNamespacesAreApart`).

*The server.* A call of `start()` or `stop()` is a number with a stage:

| `stage` | the call is |
|---|---|
| `binding` | `start()` awaiting `bootstrap.start()` |
| `bound` | resuming from it, the port bound |
| `hanging` | awaiting a `listen` callback that threw, as its bootstrap was torn down |
| `closing` | `stop()` awaiting `bootstrap.stop()` |
| `closed` | resuming from it |
| `resolved`, `rejected` | over |

The bootstrap, registries, tracker and dispatcher that call `c` builds are
generation `c`; the fields for them are set and dropped together and are the one
variable `current`. `live` are the intervals the runtime fires, `interval` the
handle in the field. `overlapped` is history: whether a call was ever made while
another was under way. The properties that need a well-behaved application are
stated for `~overlapped`; the others hold under any overlap.

### Abstractions

* `TopicDispatcher` has one namespace; its policy is a variable that never changes, so that one run
  covers a set of policies. The policy is the same for all topics, as in the code.
* Time: in `TopicDispatcher` a timer pass may find any subset of the tracked
  entries expired. `AckTracker` shows that deadlines, heap and generations only
  narrow this choice.
* `estimatedBytes` is an input from `Sizes`. A rejected message still uses up
  its number, as in the code.
* In `DiskSpillQueue` the temporary file and the rename are one write, reading a
  file and unlinking it is one step, each `clear` unlinks all at once, and no
  `unlink` or `readdir` fails. `SpillDirectory` takes all of this apart, and is
  checked to implement `DiskSpillQueue` until the client leaves, the process
  ends or an unlink fails; what holds after that is checked on `SpillDirectory`
  itself. The file system may complete writes in any order.
* `ServerLifecycle`: `close()` of an http server that has not bound yet answers at
  once, and the bind goes on after it, as Node first looks the host up. Failures
  in the constructors of the bootstrap's servers are left out.
* `sendEvent` may throw at any at-least-once send; the code then forgets the
  message, which its unit test asserts
  (`src/test/unit/internal/delivery/TopicDispatcher.test.ts`), so
  `NothingLost` and `EventuallySent` count the attempt as handed over.
* Socket ids are never reused (socket.io draws them at random), so a closed
  client stays closed.
* Metrics, events and logging are left out: nothing reads them back.

## 3. The runs

| Run | Instance | What it shows |
|---|---|---|
| `best_effort` | 1 lane, 5 messages of 3 sizes, all overflow actions, with and without coalescing, failing writes and reads | `BytesAccounted`, `NewestKept`, `NoBacklog`, `InMemoryOrder`; `ImplementsContract` |
| `reliable_spill` | 1 lane, 5 messages, `SPILL_TO_DISK` with queue limits 1 and 2 and budgets 1 and 2, one retry, failing writes, reads and sends | `TypeOK`, `InFlightBound`, `QueueBound`, `NoLostWakeup`, `NoWedgedLane`, `NothingLost`, `OnePlace`, `SpillCountExact`, `SpillCleared`, `RetryBudget`, `GoneStaysIdle`; `ImplementsContract` |
| `two_clients` | 2 clients (symmetric), 3 messages, `REJECT_NEW`, unsubscribes | broadcasts, decisions about both clients in one pass: `AckStateAgrees`, `NoLostWakeup`, `InMemoryOrder` |
| `delivery_live` | 1 lane, 4 messages, three policies, failing writes, a stop of the server, fairness | `EventuallySent`, `AcksSettle`, `GoneIsForgotten` |
| `ack_tracker` | 2 lanes with timeouts 2 and 1, 2 messages, clock up to 2, 4 handles | the heap stays a heap (`HeapOrdered`), no registration loses its handle (`HandlePerRegistration`), a pass decides about exactly what has expired (`DecidesTheExpired`); `ImplementsPendingAcks` |
| `spill_directory` | 1 directory, 3 messages, batches of 2, one crash, every file operation failing | `CountsFiles`, `FilesAreKept`, `ReadOnce`, `NothingRemains`; `ImplementsSpillQueue` |
| `server_lifecycle` | 4 calls, 1 attach, 1 client, every listener throwing, ports taken, fairness | `OneRetryInterval`, `RunningPublishes`, `AllOrNothing`, `SessionsReachable`, `CallsEnd` |
| `session_registry` | 3 clients (symmetric), 3 configurations of 2 namespaces: plain names, a shared key, names with "::" whose keys are apart | `SessionsAreConnected`, `IndexAgrees`, `ReachesItsOwn` |
| `doc_spill_order` | 1 lane, spilling | `PublicationOrder` is violated (finding 1) |
| `doc_queue_limit` | 1 lane, spilling | `WithinQueueLimit` is violated (finding 2) |
| `doc_unsubscribe` | 1 lane, unsubscribes | `InFlightIsTracked` is violated (finding 3) |
| `doc_stop` | 3 calls, nothing fails | `StoppedIsDown` is violated (finding 4) |

Every passing run explores its whole state space in two minutes or less
(25 thousand to 2.6 million states). Deadlock checking is off: when the messages
or calls of the instance are used up and the clients have gone, the system rests.

*Refinements.* `ImplementsContract` is checked of whole behaviours: each step of
the dispatcher is one step of the contract, or none. `ImplementsPendingAcks`
excepts spilling namespaces, where a drain waiting for the disk registers an
entry afresh after an unsubscribe: its new registration is generation 1 again,
and when a retry of the same millisecond left a handle of generation 2 behind,
one pass decides twice about the entry. `PendingAcks`, and so `RetryBudget`, does
not know this; the pass costs the message one transmission, never grants one.
`ImplementsSpillQueue` holds up to the first failed unlink, crash or departure,
as said above.

*Bounds.* `MaxMessages` (constant) bounds the publications of a behaviour, 5 in
the spilling runs: with a queue limit of 2, two messages fill the memory, two
more the disk, and one is published during the recovery; a limit of 1 gives
two refills in a row. A retry budget of 1 reaches retry and exhaustion of the
same entry; budgets of 1 and 2 slots are below and at the queue limit.
Sizes 1, 2 and 4 under limits of 3 and 4 bytes make the byte limit bite before
the count limit, after it, and for a single message that can never fit. Lanes
of different topics share nothing but the session and the numbering, so one
topic is enough; two clients are needed for timer passes over several sessions
and for broadcasts. Symmetry is used only in `two_clients` and `session_registry`,
which check no liveness. Unsubscribing is off where `NoWedgedLane` or liveness is checked,
because of finding 3.

`MaxHandles` 4 gives the heap three levels, `MaxTime` 2 lets the shorter timeout
expire twice, before and together with the longer one. In the directory, three
messages and batches of two leave a file for a second recovery; `MaxReads` 2
and `MaxStrays` 1 bound how often a file that cannot be unlinked comes back and
how many unlinks fail; `MaxCrashes` 1 gives a queue that adopts files, and no
property relates more than two processes. `MaxCalls` 4 is a start and a stop
overlapped by another of each, or two whole rounds; `MaxAttach` 1 replaces the
interval at any point of them. In the registries a key is disturbed by a client
of its own and one of another namespace; the third client is in either. Two of
their configurations satisfy `KeysApart`, one of these with the separator in a
namespace and in a topic.

*Fairness* (`FairSpec`). Node runs every queued microtask and every step of a
synchronous call: weak fairness of a lane's drain steps and of the decisions of
a pass. Timers and file completions are served in their turn but need the
microtasks in between to have finished, again and again: strong fairness, of
some file operation of a lane and of some timer pass that finds an expired
entry. Nothing is assumed of clients or the application: acks, disconnects and
publications are never forced, no timer pass comes once the server is stopped
(`AcksSettle` and `GoneIsForgotten` claim nothing of the tracker then, which
`stop()` drops), nor are reads forced to succeed (reads do not
fail in `delivery_live`: a file that can never be read is recovered again
without end, see the hazards).

`ServerLifecycle` assumes weak fairness of what continues a call: the runtime
answers `listen()` and `close()`, and resumes what awaits them. Nothing is
assumed of the application.

*Each property has a mutant* in `PROJECT.json`: a definition of the model changed
the way a plausible bug would change the code, under which TLC finds the
property violated. They stand in the modules above the definition they change,
marked "Mutant".

### Findings

1. `src/README.md:276` promises publication order with `SPILL_TO_DISK`. A message
   is accepted into memory whenever there is room, also while older ones are on
   disk, and overtakes them.
2. `src/README.md:280` says the queue holds up to `maxQueuedMessagesPerClient`.
   A refill does not look at what was published during its file reads; the
   queue grows up to twice the limit. `QueueBound` checks that it is no more.
3. `DeliveryMode.ts:19` says a message is retried until acked or exhausted.
   After `unsubscribe` and `subscribe` the lane still counts the old entries as
   in flight, but the tracker has forgotten them: the slots stay taken.
4. `src/README.md:539` promises that `stop()` disconnects clients, stops the retry
   loop and closes the port. A `stop()` called while `start()` awaits its port
   finds nothing to take down; `start()` then goes on, and the rest of `stop()`
   clears `running`. The retry interval fires for ever.

Seen while modelling, with no run:

* `ServerEventListener.ts:5` says that exceptions of listeners are caught. The
  server calls them without a `try`: one that throws in `serverStopping` makes
  `stop()` reject with everything still up (`StoppingThrows`).
* The server builds its dispatcher without the event publisher, so the
  dispatcher's listener events never fire; handlers stored by `onMessage` are
  never called; a disconnect clears every spill directory twice, once in the
  dispatcher and once in `dispose`.
* The registries' key joins namespace and topic by "::", which either may contain:
  topic `b::c` of `/a` and topic `c` of `/a::b` share subscribers and policy.
  No document says otherwise; `ReachesItsOwn` says who is reached then, and
  speaks of namespaces and topics under `KeysApart` only.
* `sanitizePathSegment` gives topics such as `a:b` and `a*b` one directory, whose two
  queues then number and unlink each other's files.

## 4. The proofs

Those of delivery are for arbitrary sets of clients and topics, any policies that
validation accepts, any sizes and any bound on the messages; those of the
tracker for any timeouts and clock; those of the directory for any bounds on
crashes and failures; those of the registries for any configurations and names;
those of the life cycle for any number of calls, attachments and clients, any
throwing listeners and ports. The only assumptions are `InstanceAssumption`
(`DeliveryPolicy`), `CanUnsubscribeAssumption` (`TopicDispatcher`),
`TimingAssumption` (`AckTracker`: timeouts are positive), `DirectoryAssumption`
(`SpillDirectory`: one directory), `RegistryAssumption` (`SessionRegistry`: names
are sequences of strings, a namespace's is not empty) and `LifecycleAssumption`
(`ServerLifecycle`), which TLC evaluates in the runs of those modules.

Delivery:

* `TypeCorrectness`: `Spec => []TypeOK`. Not inductive alone: a drain that holds
  `NoId` would register it with the tracker. `TypeInv` adds `HeldIsMessage`.
* `InFlightBounded`: `Spec => []InFlightBound`. The bound says nothing about the
  time between the loop's test and the send. `BudgetInv` adds `SlotIsFree` (a
  drain between test and send has a slot left) and `RecoveryInDrain` (a
  recovery belongs to such a drain, so `Refill` starts with a slot). The
  argument is that no other step flags an entry (`OthersUndisturbed`).
* `LaneAndTrackerAgree`: `Spec => []AckStateAgrees`, from `AgreeInv`: the entry a
  drain holds is still queued when it is marked, because acks and timer passes
  need an empty microtask queue; a decision not yet handled still says what the
  tracker holds, so an exhausted entry that leaves its lane is untracked; and
  at-least-once never drops, replaces or coalesces (`ReliableEnqueue`, from the
  validation of the policies).
* `NoWakeupLost`: `Spec => []NoLostWakeup`. In the middle of a timer pass the
  property would be false of a lane whose slots the pass has just freed, hence
  `WakeInv`: an undrained lane that could send has a decision coming. It needs
  `AgreeInv`: a retry schedules a drain only if its entry is still queued, and
  an ack only if it removed an entry.
* `NoLaneWedged`: `Spec => []NoWedgedLane`. `TrackedInv`: without unsubscribes, an
  entry that takes a slot of a connected client is tracked, or a decision about
  it is to come. Unsubscribing is left out of the property because of finding 3.
* `EachInOnePlace`: `Spec => []OnePlace`, from `PlaceInv`, which knows more places
  than the property names: the entry in the hands of a best-effort drain has left
  the queue, and none of a lane's places holds a number that has not been given
  out yet, so that a new message cannot collide with an old one.
* `SpilledIsCounted`: `Spec => []SpillCountExact`. The counter changes with each
  cardinality, which needs the places to be disjoint and finite: `CountInv` on
  top of `PlaceInv`.
* `NothingLeftOnDisk`: `Spec => []SpillCleared`, from `ClearInv`: only the first
  `clear()` of a disconnect is sure to see every file, as it waits for the writes;
  the second may come before it or after it, and once the client has gone no
  write starts.
* `QueueBounded`: `Spec => []QueueBound`. A drain asks the disk only with a queue
  that fits the in-flight budget or is empty, a listing takes no more than
  `MaxQueued` files, and publications fill the queue no further than its limit
  meanwhile: `BoundInv` keeps the three numbers apart, by the stage of `recover`.
* `SendsAreBudgeted`: `Spec => RetryBudget`, an action property. `UntriedInv` says
  that what is on disk, in the result of a recovery or not numbered yet was never
  sent. `PaidInv` counts the transmissions of what is queued against its retries,
  one more while it awaits its ack; a decision not yet handled says which.
* `GoneLanesRest`: `Spec => GoneStaysIdle`. Every handler that schedules a drain
  looks the session up first; the proof goes through all of them. Here and
  everywhere a disconnect and a stop are one case: the cleanup of some set of
  clients between two callbacks (`DepartureLeaves`).
* `BytesAreAccounted`: `Spec => []BytesAccounted`, inductive with `PlaceInv` and
  `AgreeInv`. A new message is in no queue, so that giving it a size changes no
  sum; a drain whose send fails subtracts the size of an entry that is still
  queued; and as the counter is the sum, no clamp at zero ever applies. It rests
  on what a sum does when a queue is concatenated, cut, shortened by an entry or
  has one replaced (`TotalOfConcat` and the lemmas after it).
* `AcceptedIsKept`: `Spec => []NothingLost`. An ack or an exhausted budget takes an
  entry out of its lane, which is no loss because what the tracker holds or has
  decided about was sent (`SentInv`); `KeepInv` follows every other entry from
  place to place.
* `NewestIsKept`: `Spec => []NewestKept`, from `NewestInv`, the same argument for the
  newest message under the actions that discard others: whatever they discard,
  they keep the message being published or reject it.
* `NoBacklogBuilds`: `Spec => []NoBacklog`. `ConflateInv` needs the byte counter of
  such a lane to be exact: otherwise a message that fits would not always take
  the place of the older one.
* `SentInPublicationOrder`: `Spec => InMemoryOrder`, an action property. `OrderInv`:
  the queue is in the order of the numbers, and nothing younger than a message
  that waits for its first send was sent, also while a drain holds one.
* `DeliveryKeepsContract`: `Spec => ImplementsContract`, the refinement. `StoredInv`:
  what a lane stores was accepted, and in best-effort not yet sent. Then every
  action is matched with a step of `ContractNext` or with a stutter: a
  publication accepts, in the lanes that do not reject it, and discards what it
  replaces; a transmission is within the budget by `PaidInv`, or goes to a client
  that has gone; an ack settles what `UntriedInv` and `SentInv` say was sent; a
  file operation drops what it could not write, or what a `clear` finds.

The tracker:

* `TrackerInvariant`: `Spec => []TrackerInv`, and from it `HeapStaysOrdered`
  (`HeapOrdered`) and `EveryRegistrationHasItsHandle` (`HandlePerRegistration`).
  The two are about the heap and hold for separate reasons. A sift keeps a heap
  in order but for the handle it moves, and the children of that handle in order
  with its parent (`OrderedBut`, `Bridged`), and it ends where the handle
  belongs before its rounds run out. That a registration keeps its handle needs
  to know that old handles of the same key are never due after it and have its
  deadline when they have its generation (`LatestInv`), so that a pass never
  takes an old handle for the new one, and that the entries which are to be sent
  again have no handle of generation 1 (`RenewalInv`), since a registration
  starts with that generation again.
* `PassesDecideTheExpired`: `Spec => DecidesTheExpired`, an action property about a
  whole pass. Every round pops one expired handle, and no round pushes one (a
  renewed deadline is later than now), so the pass ends with none left; as every
  registration has its handle, none of those left is due. `PassDecides` says for
  each round what was decided so far and what was left as it was.
* `TrackerImplementsPendingAcks`: `Spec => ImplementsPendingAcks`, the refinement,
  without spilling. `OneGenerationInv`: the generations of a key only grow, and
  no pass decides twice about a key, so its decisions are the set that
  `PendingAcks` has.

The directory:

* `CounterOfDirectory`: `Spec => []CountsFiles`, from `DirectoryInv`: no number is
  borne by a file and by a write, or given out again, also after a crash, since
  the constructor numbers from above the files it finds. Then every step changes
  the counter as it changes the set of files and writes.
* `FilesStay`: `Spec => FilesAreKept`, an action property: nothing writes over a
  file. `ListingInv`: what `recover()` has listed is not touched by any write, and
  what it unlinks is what it has read.
* `RepetitionsAreAccounted`: `Spec => []ReadOnce`, from `ReadsInv`: a message is in
  one file or one write only, and none but the file that `recover()` is about to
  unlink was read more often than it was left behind by a crash or a failed
  unlink.
* `NothingIsLeftOnDisk`: `Spec => []NothingRemains`, from `ClearInv`: the awaited
  `clear()` waits for every write, and then lists all the files there are, if no
  listing and no unlink fails and the process goes on.
* `DirectoryImplementsQueue`: `Spec => ImplementsSpillQueue`, the refinement, up to
  the first crash, departure or failed unlink. `PristineInv`: until then the
  files are numbered as the messages were, and `recover()` holds files that
  exist in their order, so that the files it reads one by one are the batch the
  queue takes.

The registries:

* `ConnectedHaveSessions`, `IndexAndSessionsAgree`: `Spec => []SessionsAreConnected`
  and `Spec => []IndexAgrees`, inductive together (`RegistryInv`), with what
  ties a session to its configuration: a client subscribes to configured topics
  only, and only after it connected.
* `PublicationsReachTheirOwn`: `Spec => []ReachesItsOwn`. That the reached are those
  who subscribed under the key follows from `IndexAgrees`, without any
  hypothesis. Under `KeysApart` a key that has a policy is the key of one name
  only (`OneNamePerKey`), so these are the subscribers of the topic, and the
  policy found is the topic's; `LaneInv` carries that on to the lanes.
* `PlainNamespacesAreApart`: `KeysApart` in every configuration whose namespaces
  contain no ":". `KeyIsUnique`: the first "::" of a key then ends the namespace,
  so two keys are equal only if both names are.

The life cycle:

* `OneInterval` and `RunningHasDispatcher`: `OneRetryInterval` and `RunningPublishes`
  are inductive together with the types, whatever calls overlap.
* `AllUpOrAllDown` and `NoSessionOutOfReach`: `AllOrNothing` and `SessionsReachable`
  speak of the time between calls that do not overlap; `PhaseInv` says what holds
  during a call as well, for each phase the server can be in: up, at rest,
  starting, stopping.

The `queuedBytes` conjunct of `TypeOK` only fixes its domain: that its values are
the sums of the sizes is `BytesAccounted`.

Induction over data (the rounds of a loop, the length of a queue) goes through
the lemma `Induction` of `DataLemmas`, about a set of naturals that holds 0 and the
successors of its elements; it follows from the well-foundedness of the order
(`NatMin`). A recursive function of the model is first shown to exist
(`Iteration`, `SumExists`), then reasoned about by the equations it satisfies.

With these, every invariant and action property that the runs check is a
theorem, and so are the three refinements. The invariants of the tracker were
checked by TLC on the instance of `ack_tracker` before they were proved. Only
model-checked: the liveness properties `EventuallySent`, `AcksSettle`,
`GoneIsForgotten` and `CallsEnd`, since fairness and ENABLED are beyond the
prover.

## 5. Plan

All components whose behaviour depends on the order of events are modelled. What
is left, in this order:

1. What the proofs say across modules: with `DirectoryImplementsQueue` and
   `TrackerImplementsPendingAcks` the dispatcher could be stated over the
   detailed modules in place of the abstract ones.
2. Two live queues on one directory, as `sanitizePathSegment` allows: `SpillDirectory`
   with two sets of its variables over shared `tmp` and `json`. Its properties
   cannot hold there; the question is which messages are lost.

### Not modelled

* Configuration loading and the builders: parsing and record building, sequential,
  without state that outlives the call. The constraints they enforce are the
  set of valid policies in `DeliveryPolicy`.
* Token validation: stateless string functions. The auth rate limiter: three
  short operations on a map that no other code of the server calls, so there is
  no order of calls to check them under.
* Metrics and events: counters and callbacks that nothing reads back, but for
  the life-cycle listeners, which `ServerLifecycle` has since they may throw.
* Protocol records: immutable; a message is its number and its size.
* Two live queues on one directory (step 2 of the plan).
* A spill queue of more than 99,999,999 files, whose names no longer sort.
