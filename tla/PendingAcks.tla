---------------------------- MODULE PendingAcks ----------------------------
(***************************************************************************)
(* The sent messages that wait for an ack, and what a pass of the retry    *)
(* timer makes of the expired ones: AckTracker as the dispatcher sees it.  *)
(* Time is left out: a pass may find any of the pending entries expired.   *)
(* The heap and its generations only decide which ones, so the behaviours  *)
(* of the code are among these.                                            *)
(*                                                                         *)
(* collectExpired also resets the awaiting flag of an expired entry; that  *)
(* flag belongs to the lane, and the dispatcher's action does it.          *)
(***************************************************************************)
EXTENDS DeliveryPolicy

VARIABLES pending,     \* lane -> the ids registered with the tracker
          retryCount,  \* lane -> id -> retries of the lane's entry
          decisions    \* the decisions of the current pass not yet handled

ackVars == <<pending, retryCount, decisions>>

Decision == [lane : Lanes, id : Ids, action : {"RETRY", "EXHAUSTED"}]

Register(l, id) ==
  /\ pending' = [pending EXCEPT ![l] = @ \cup {id}]
  /\ UNCHANGED <<retryCount, decisions>>

Acknowledge(l, id) ==
  /\ pending' = [pending EXCEPT ![l] = @ \ {id}]
  /\ UNCHANGED <<retryCount, decisions>>

\* removeClient (every lane of a client) and removeClientTopic (one lane).
RemoveLanes(S) ==
  /\ pending' = [l \in Lanes |-> IF l \in S THEN {} ELSE pending[l]]
  /\ UNCHANGED <<retryCount, decisions>>

(* One pass over the expired entries, a set of lane and id pairs: an entry *)
(* with retries left stays pending for another ackTimeoutMs, the others    *)
(* are dropped.  The entries of a pass expire at the same "now", and the   *)
(* order of its decisions is only that of their deadlines.                 *)

\* Mutant: one retry too many.
VerdictOffByOne(l, id) ==
  IF retryCount[l][id] <= MaxRetries THEN "RETRY" ELSE "EXHAUSTED"

Verdict(l, id) == IF retryCount[l][id] < MaxRetries THEN "RETRY" ELSE "EXHAUSTED"

Expire(expired) ==
  /\ retryCount' = [l \in Lanes |-> [id \in Ids |->
       IF <<l, id>> \in expired /\ Verdict(l, id) = "RETRY"
         THEN retryCount[l][id] + 1
         ELSE retryCount[l][id]]]
  /\ pending' = [l \in Lanes |->
       {id \in pending[l] : <<l, id>> \in expired => Verdict(l, id) = "RETRY"}]
  /\ decisions' = {[lane |-> p[1], id |-> p[2], action |-> Verdict(p[1], p[2])] :
                     p \in expired}

Handled(decision) ==
  /\ decisions' = decisions \ {decision}
  /\ UNCHANGED <<pending, retryCount>>

AckInit ==
  /\ pending = [l \in Lanes |-> {}]
  /\ retryCount = [l \in Lanes |-> [id \in Ids |-> 0]]
  /\ decisions = {}

(* The tracker on its own, whatever its lanes do.                          *)
AckNext ==
  \/ \E l \in Lanes, id \in Ids : Register(l, id) \/ Acknowledge(l, id)
  \/ \E S \in SUBSET Lanes : RemoveLanes(S)
  \/ /\ decisions = {}
     /\ \E expired \in SUBSET {p \in Lanes \X Ids : p[2] \in pending[p[1]]} :
          expired # {} /\ Expire(expired)
  \/ \E d \in decisions : Handled(d)

AckTypeOK ==
  /\ pending \in [Lanes -> SUBSET Ids]
  /\ retryCount \in [Lanes -> [Ids -> 0..MaxRetries]]
  /\ decisions \in SUBSET Decision
=============================================================================
