---------------------------- MODULE MCAckTracker ----------------------------
(***************************************************************************)
(* Instances of AckTracker for TLC: two topics with different ack          *)
(* timeouts, so that a later registration may have the earlier deadline.   *)
(***************************************************************************)
EXTENDS AckTracker

AtLeastOnce(action, retries) ==
  [deliveryMode |-> "AT_LEAST_ONCE", overflowAction |-> action,
   coalesce |-> FALSE, maxQueuedMessagesPerClient |-> 2,
   maxQueuedBytesPerClient |-> 9, maxInFlight |-> 2, maxRetries |-> retries]

TrackerPolicies ==
  {AtLeastOnce("REJECT_NEW", n) : n \in {1, 2}} \cup {AtLeastOnce("SPILL_TO_DISK", 1)}

Slow     == CHOOSE l \in Lanes : TRUE
Timeouts == [l \in Lanes |-> IF l = Slow THEN 2 ELSE 1]
=============================================================================
