--------------------------- MODULE DeliveryPolicy ---------------------------
(***************************************************************************)
(* What every delivery module shares: the clients and topics of one        *)
(* namespace, and the policy the namespace gives to all its topics.  A     *)
(* policy is fixed when the server is built; it is a variable only so that *)
(* a behaviour may be about any of the policies in a set.                  *)
(*                                                                         *)
(* A lane is the pair <<client, topic>>: the code keeps one ClientLane per *)
(* session and topic.  A message is its sequence number: nextMessageId()   *)
(* numbers the publications of a server from 1.                            *)
(***************************************************************************)
EXTENDS Integers

CONSTANTS Clients,        \* socket ids; socket.io never reuses one
          Topics,         \* the topics of the namespace
          MaxMessages,    \* bound on the publications of a behaviour
          Sizes,          \* the payload sizes a publication may have
          Policies,       \* the policies the namespace may have
          IoFaults        \* the file operations that may fail

VARIABLE policy           \* the namespace's TopicPolicy

\* What NamespaceSpecBuilder.build() lets through: validateBasic, and
\* validateReliableMode for AT_LEAST_ONCE.  It replaces a maxInFlight that is
\* not positive by 1.
ValidPolicy ==
  {p \in [deliveryMode : {"BEST_EFFORT", "AT_LEAST_ONCE"},
          overflowAction : {"DROP_OLDEST", "REJECT_NEW", "COALESCE",
                            "SNAPSHOT_ONLY", "SPILL_TO_DISK"},
          coalesce : BOOLEAN,
          maxQueuedMessagesPerClient : Nat \ {0},
          maxQueuedBytesPerClient : Nat \ {0},
          maxInFlight : Nat \ {0},
          maxRetries : Nat] :
     p.deliveryMode = "AT_LEAST_ONCE" =>
       /\ p.overflowAction \in {"REJECT_NEW", "SPILL_TO_DISK"}
       /\ ~p.coalesce
       /\ p.maxRetries > 0
       /\ p.maxInFlight <= p.maxQueuedMessagesPerClient}

ASSUME InstanceAssumption ==
  /\ MaxMessages \in Nat
  /\ Sizes \subseteq Nat \ {0}   \* estimateBytes: a JSON text has a byte
  /\ Policies \subseteq ValidPolicy
  /\ IoFaults \subseteq {"write", "read", "unlink", "readdir"}

Lanes == Clients \X Topics
Ids   == 1..MaxMessages
NoId  == 0

Reliable    == policy.deliveryMode = "AT_LEAST_ONCE"
Overflow(a) == policy.overflowAction = a
Spilling    == Overflow("SPILL_TO_DISK")
Coalesce    == policy.coalesce
MaxQueued   == policy.maxQueuedMessagesPerClient
MaxBytes    == policy.maxQueuedBytesPerClient
MaxInFlight == policy.maxInFlight
MaxRetries  == policy.maxRetries
=============================================================================
