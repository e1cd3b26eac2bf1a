------------------------- MODULE MCTopicDispatcher -------------------------
(***************************************************************************)
(* Instances of TopicDispatcher for TLC: the policies of each run.         *)
(***************************************************************************)
EXTENDS TopicDispatcher, TLC

BestEffort(action, coalesce, queued, bytes) ==
  [deliveryMode |-> "BEST_EFFORT", overflowAction |-> action,
   coalesce |-> coalesce, maxQueuedMessagesPerClient |-> queued,
   maxQueuedBytesPerClient |-> bytes, maxInFlight |-> 1, maxRetries |-> 0]

AtLeastOnce(action, queued, bytes, inFlight, retries) ==
  [deliveryMode |-> "AT_LEAST_ONCE", overflowAction |-> action,
   coalesce |-> FALSE, maxQueuedMessagesPerClient |-> queued,
   maxQueuedBytesPerClient |-> bytes, maxInFlight |-> inFlight,
   maxRetries |-> retries]

\* Every overflow action, with coalescing and without; entries of different
\* sizes make the byte limit bite before and after the count limit.
BestEffortPolicies ==
  {BestEffort(action, FALSE, 2, 3) : action \in
     {"DROP_OLDEST", "REJECT_NEW", "COALESCE", "SNAPSHOT_ONLY", "SPILL_TO_DISK"}}
  \cup {BestEffort(action, TRUE, 2, 3) : action \in {"COALESCE", "SPILL_TO_DISK"}}
  \cup {BestEffort("DROP_OLDEST", FALSE, 3, 4)}

\* A budget below the queue limit, and a budget equal to it.
SpillPolicies ==
  {AtLeastOnce("SPILL_TO_DISK", 2, 9, n, 1) : n \in {1, 2}}
    \cup {AtLeastOnce("SPILL_TO_DISK", 1, 9, 1, 1)}
RejectPolicies == {AtLeastOnce("REJECT_NEW", 2, 3, n, 1) : n \in {1, 2}}

OneSlot     == {AtLeastOnce("SPILL_TO_DISK", 2, 9, 1, 1)}
LivePolicies ==
  {AtLeastOnce("SPILL_TO_DISK", 1, 9, 1, 1), AtLeastOnce("REJECT_NEW", 2, 9, 2, 1),
   BestEffort("SPILL_TO_DISK", FALSE, 2, 9)}

ClientSymmetry == Permutations(Clients)
=============================================================================
