-------------------------- MODULE MCSpillDirectory --------------------------
(***************************************************************************)
(* Instances of SpillDirectory for TLC.                                    *)
(***************************************************************************)
EXTENDS SpillDirectory

\* recover() returns up to two entries.
TwoAtATime ==
  {[deliveryMode |-> "BEST_EFFORT", overflowAction |-> "SPILL_TO_DISK",
    coalesce |-> FALSE, maxQueuedMessagesPerClient |-> 2,
    maxQueuedBytesPerClient |-> 9, maxInFlight |-> 1, maxRetries |-> 0]}
=============================================================================
