--------------------------- MODULE SessionRegistry ---------------------------
(***************************************************************************)
(* Who receives what: ClientSessionRegistry, ClientSessionState and        *)
(* TopicRegistry under the socket handlers of several NamespaceHandlers.   *)
(* The registry keeps every subscription twice, in the session and in an   *)
(* index by namespace and topic; the index and the policies are maps whose *)
(* key is the two names joined by "::".  So a name is a sequence of parts  *)
(* here, as far as the joining matters.                                    *)
(*                                                                         *)
(* Every step is synchronous code.  What is queued and sent is             *)
(* TopicDispatcher's; here a publication only reaches lanes.               *)
(***************************************************************************)
EXTENDS Sequences, FiniteSets, Functions

CONSTANTS Clients,     \* socket ids, each used once
          Specs,       \* the configurations: sets of <<namespace, topic>>
          Requests     \* the topics clients and the application may name

\* A namespace is a path: it is not empty.
ASSUME RegistryAssumption ==
  /\ \A spec \in Specs : spec \subseteq (Seq(STRING) \ {<<>>}) \X Seq(STRING)
  /\ Requests \subseteq Seq(STRING)

VARIABLES configured,     \* the configuration of this server
          policies,       \* TopicRegistry: key -> <<namespace, topic>> of the policy
          serving,        \* whether the namespace handlers are started
          home,           \* client -> the namespace of its session
          listening,      \* clients whose socket handlers are attached
          sessions,       \* the clients in the registry
          subscribed,     \* client -> the topics in its session
          subscriptions,  \* the index: key -> subscribers
          lanes,          \* client -> topic -> <<namespace, topic>> of its policy
          published       \* the publication of the last step, if any (history)

configVars  == <<configured, policies>>
sessionVars == <<home, listening, sessions, subscribed, subscriptions>>
vars == <<configVars, serving, sessionVars, lanes, published>>

NoName == <<>>

Namespaces == {p[1] : p \in configured}

\* Mutant: the key leaves the namespace out.
TopicKey(namespace, topic) == topic

Key(namespace, topic) == namespace \o <<":", ":">> \o topic

\* Map.set.
Put(map, key, value) ==
  [k \in DOMAIN map \cup {key} |-> IF k = key THEN value ELSE map[k]]

-----------------------------------------------------------------------------
(* The index of subscriptions.  A key without subscribers is deleted.      *)

Indexed(key) == IF key \in DOMAIN subscriptions THEN subscriptions[key] ELSE {}

SubscribersOf(namespace, topic) == Indexed(Key(namespace, topic)) \cap sessions

WithSubscription(c, topic) ==
  LET key == Key(home[c], topic)
  IN  Put(subscriptions, key, Indexed(key) \cup {c})

\* removeSubscription for every <<client, key>> in gone.
Without(gone) ==
  LET left(key) == {c \in subscriptions[key] : <<c, key>> \notin gone}
  IN  [key \in {k \in DOMAIN subscriptions : left(k) # {}} |-> left(key)]

\* Mutant: the index is not cleaned up.
RemoveFromSessionsOnly(S) ==
  /\ sessions' = sessions \ S
  /\ UNCHANGED subscriptions

\* onClientDisconnected for every client of S.
RemoveClients(S) ==
  /\ sessions' = sessions \ S
  /\ subscriptions' = Without(UNION {{<<c, Key(home[c], topic)>> :
                                         topic \in subscribed[c]} :
                                      c \in S \cap sessions})

-----------------------------------------------------------------------------
(* Socket events.                                                          *)

Connection(c, namespace) ==
  /\ serving
  /\ home[c] = NoName
  /\ namespace \in Namespaces
  /\ home' = [home EXCEPT ![c] = namespace]
  /\ sessions' = sessions \cup {c}
  /\ listening' = listening \cup {c}
  /\ published' = {}
  /\ UNCHANGED <<configVars, serving, subscribed, subscriptions, lanes>>

Subscribe(c, topic) ==
  /\ c \in listening
  /\ Key(home[c], topic) \in DOMAIN policies
  /\ sessions' = sessions \cup {c}
  /\ subscribed' = [subscribed EXCEPT ![c] = @ \cup {topic}]
  /\ subscriptions' = WithSubscription(c, topic)
  /\ published' = {}
  /\ UNCHANGED <<configVars, serving, home, listening, lanes>>

Unsubscribe(c, topic) ==
  /\ c \in listening
  /\ c \in sessions
  /\ subscribed' = [subscribed EXCEPT ![c] = @ \ {topic}]
  /\ subscriptions' = Without({<<c, Key(home[c], topic)>>})
  /\ published' = {}
  /\ UNCHANGED <<configVars, serving, home, listening, sessions, lanes>>

\* Mutant: the handlers are detached and the session is kept.
DetachOnly(S) ==
  /\ listening' = listening \ S
  /\ UNCHANGED <<sessions, subscriptions>>

\* The cleanup of every socket of S.
Cleanup(S) ==
  /\ listening' = listening \ S
  /\ RemoveClients(S)

Disconnect(c) ==
  /\ c \in listening
  /\ Cleanup({c})
  /\ published' = {}
  /\ UNCHANGED <<configVars, serving, home, subscribed, lanes>>

\* The server stops its namespace handlers, one after the other.
Stop ==
  /\ serving
  /\ serving' = FALSE
  /\ Cleanup(listening)
  /\ published' = {}
  /\ UNCHANGED <<configVars, home, subscribed, lanes>>

-----------------------------------------------------------------------------
(* Publications, of the application or a client.                           *)

\* The message goes to the sessions of S, of those among whom the caller asked
\* for.  A lane keeps the policy it was created with.
Enqueue(S, among, namespace, topic) ==
  /\ Key(namespace, topic) \in DOMAIN policies
  /\ lanes' = [c \in Clients |->
       IF c \in S /\ topic \notin DOMAIN lanes[c]
         THEN Put(lanes[c], topic, policies[Key(namespace, topic)])
         ELSE lanes[c]]
  /\ published' = {[namespace |-> namespace, topic |-> topic,
                    among |-> among, reached |-> S]}
  /\ UNCHANGED <<configVars, serving, sessionVars>>

Publish(namespace, topic) ==
  Enqueue(SubscribersOf(namespace, topic), Clients, namespace, topic)

PublishTo(namespace, c, topic) ==
  /\ c \in sessions
  /\ home[c] = namespace
  /\ topic \in subscribed[c]
  /\ Enqueue({c}, {c}, namespace, topic)

-----------------------------------------------------------------------------
\* The namespaces are registered in their order, and the last policy of a key
\* stays: any of them, as the order is the configuration's.
Init ==
  /\ configured \in Specs
  /\ LET keys == {Key(p[1], p[2]) : p \in configured}
     IN  policies \in {f \in [keys -> configured] :
                         \A key \in keys : Key(f[key][1], f[key][2]) = key}
  /\ serving = TRUE
  /\ home = [c \in Clients |-> NoName]
  /\ listening = {} /\ sessions = {}
  /\ subscribed = [c \in Clients |-> {}]
  /\ subscriptions = [key \in {} |-> {}]
  /\ lanes = [c \in Clients |-> [topic \in {} |-> NoName]]
  /\ published = {}

Next ==
  \/ \E c \in Clients, namespace \in Namespaces : Connection(c, namespace)
  \/ \E c \in Clients, topic \in Requests : Subscribe(c, topic) \/ Unsubscribe(c, topic)
  \/ \E c \in Clients : Disconnect(c)
  \/ Stop
  \/ \E namespace \in Namespaces, topic \in Requests :
       \/ Publish(namespace, topic)
       \/ \E c \in Clients : PublishTo(namespace, c, topic)

Spec == Init /\ [][Next]_vars

-----------------------------------------------------------------------------
(* Properties.                                                             *)

\* A session is in the registry as long as its socket handlers are attached:
\* none of the handlers finds it gone, and none brings it back after that.
SessionsAreConnected == sessions = listening

Subscribing(key) ==
  {c \in sessions : \E topic \in subscribed[c] : Key(home[c], topic) = key}

\* The index and the sessions agree about every subscription, through repeated
\* subscriptions, the end of clients and the end of the server, and although
\* clients of different namespaces may share a key; no set stays behind empty,
\* or the index would grow with every topic that was ever subscribed.
IndexAgrees ==
  subscriptions = [key \in {k \in DOMAIN policies : Subscribing(k) # {}} |->
                     Subscribing(key)]

\* No configured pair of names reads, when joined by "::", like another pair the
\* server can be asked about.  "/a" with "b::c" and "/a::b" with "c" do, and
\* nothing in the code forbids them.
KeysApart ==
  \A p \in configured : \A q \in configured \cup (Namespaces \X Requests) :
    p[1] \o <<":", ":">> \o p[2] = q[1] \o <<":", ":">> \o q[2] => p = q

\* A publication reaches whoever has a subscription with its key, once, and
\* nobody else: subscriptions come and go through two maps, and only one of
\* them is asked.  Where no two names share a key, these are the subscribers
\* of its topic in its namespace, all of them, and the policy of every lane is
\* the one of its own topic: the registry is then what TopicDispatcher takes
\* it for.
ReachesItsOwn ==
  /\ \A p \in published :
       p.reached = p.among \cap Subscribing(Key(p.namespace, p.topic))
  /\ KeysApart =>
       /\ \A p \in published :
            p.reached = {c \in p.among \cap sessions :
                           home[c] = p.namespace /\ p.topic \in subscribed[c]}
       /\ \A c \in Clients : \A topic \in DOMAIN lanes[c] :
            lanes[c][topic] = <<home[c], topic>>
=============================================================================
