-------------------------- MODULE DeliveryContract --------------------------
(***************************************************************************)
(* What delivery promises, without queues, disks, acks or drains: a        *)
(* message accepted for a subscriber is handed to the socket, or discarded *)
(* where the policy or a failure allows that; it is handed over once with  *)
(* BEST_EFFORT, up to 1 + maxRetries times with AT_LEAST_ONCE, and never   *)
(* again once it is settled.  TopicDispatcher implements it.               *)
(***************************************************************************)
EXTENDS DeliveryPolicy

VARIABLES status,   \* lane -> id -> where the message is
          tries,    \* lane -> id -> how often it was handed to the socket
          next,     \* the next publication
          gone      \* the clients that have left

contractVars == <<policy, status, tries, next, gone>>

Statuses == {"none", "waiting", "sent", "settled", "discarded"}

\* The policies that may drop an older message for a newer one.
Lossy == ~Reliable /\ (Coalesce \/ ~(Spilling \/ Overflow("REJECT_NEW")))

Budget == IF Reliable THEN 1 + MaxRetries ELSE 1

\* A publication: accepted by the lanes of S, at the cost of what a lossy
\* policy drops from them.
Accept(S) ==
  /\ next' = next + 1
  /\ \E D \in SUBSET {p \in S \X Ids : Lossy /\ status[p[1]][p[2]] = "waiting"} :
       status' = [l \in Lanes |-> [id \in Ids |->
         IF l \in S /\ id = next THEN "waiting"
         ELSE IF <<l, id>> \in D THEN "discarded" ELSE status[l][id]]]
  /\ UNCHANGED <<policy, tries, gone>>

\* AT_LEAST_ONCE waits for an ack, unless the socket threw.
Transmit(l, id) ==
  /\ status[l][id] \in {"waiting", "sent"}
  /\ tries[l][id] < Budget \/ l[1] \in gone
  /\ tries' = [tries EXCEPT ![l][id] = @ + 1]
  /\ \E after \in (IF Reliable THEN {"sent", "settled"} ELSE {"settled"}) :
       status' = [status EXCEPT ![l][id] = after]
  /\ UNCHANGED <<policy, next, gone>>

\* An ack, or the end of the retries.
Settle(l, id) ==
  /\ status[l][id] = "sent"
  /\ status' = [status EXCEPT ![l][id] = "settled"]
  /\ UNCHANGED <<policy, tries, next, gone>>

\* What was on disk of a client that has gone, or could not be written.
Discard(l) ==
  /\ l[1] \in gone \/ "write" \in IoFaults
  /\ \E D \in SUBSET {id \in Ids : status[l][id] = "waiting"} :
       /\ D # {}
       /\ l[1] \in gone \/ \E id \in D : D = {id}
       /\ status' = [status EXCEPT ![l] =
                       [id \in Ids |-> IF id \in D THEN "discarded" ELSE @[id]]]
  /\ UNCHANGED <<policy, tries, next, gone>>

Leave(S) ==
  /\ gone' = gone \cup S
  /\ UNCHANGED <<policy, status, tries, next>>

ContractInit ==
  /\ policy \in Policies
  /\ status = [l \in Lanes |-> [id \in Ids |-> "none"]]
  /\ tries = [l \in Lanes |-> [id \in Ids |-> 0]]
  /\ next = 1
  /\ gone = {}

ContractNext ==
  \/ next \in Ids /\ \E S \in SUBSET Lanes : Accept(S)
  \/ \E l \in Lanes, id \in Ids : Transmit(l, id) \/ Settle(l, id)
  \/ \E l \in Lanes : Discard(l)
  \/ \E S \in SUBSET Clients : Leave(S)

ContractSpec == ContractInit /\ [][ContractNext]_contractVars
=============================================================================
