------------------------ MODULE SessionRegistryProofs ------------------------
(***************************************************************************)
(* The registries for every set of clients, configurations and topics.     *)
(***************************************************************************)
EXTENDS SessionRegistry, SequenceTheorems, TLAPS

\* The provers do not know that ":" is a string.
Part == STRING \cup {":"}
Name == Seq(Part)

\* Two keys of one namespace are keys of one topic.
LEMMA KeyOfTopic ==
  ASSUME NEW n \in Name, NEW t \in Name, NEW u \in Name, Key(n, t) = Key(n, u)
  PROVE  t = u
<1>1. PICK m : m = n \o <<":", ":">>
  OBVIOUS
<1>2. m \in Name /\ Len(m) \in Nat /\ Len(t) \in Nat /\ Len(u) \in Nat
  <2>1. <<":", ":">> \in Seq(Part)
    BY DEF Part
  <2>2. m \in Name
    BY <1>1, <2>1, ConcatProperties DEF Name
  <2>3. QED
    BY <2>2 DEF Name
<1>3. m \o t = m \o u
  BY <1>1 DEF Key
<1>4. Len(m \o t) = Len(m) + Len(t) /\ Len(m \o u) = Len(m) + Len(u)
  BY <1>2 DEF Name
<1>5. Len(t) = Len(u)
  BY <1>2, <1>3, <1>4
<1>6. ASSUME NEW i \in 1..Len(t)
      PROVE  t[i] = u[i]
  <2>1. (m \o t)[Len(m) + i] = t[i] /\ (m \o u)[Len(m) + i] = u[i]
    BY <1>2, <1>5 DEF Name
  <2>2. QED
    BY <1>3, <2>1
<1>7. QED
  BY <1>5, <1>6, SeqEqual DEF Name

\* The first ":" of a key ends a plain namespace.
LEMMA KeyIsUnique ==
  ASSUME NEW n \in Name, NEW t \in Name, NEW m \in Name, NEW u \in Name,
         ":" \notin Range(n) \cup Range(m), Key(n, t) = Key(m, u)
  PROVE  n = m /\ t = u
<1>1. ASSUME NEW a \in Name, NEW x \in Name, NEW b \in Name, NEW y \in Name,
             ":" \notin Range(b), Key(a, x) = Key(b, y)
      PROVE  ~(Len(a) < Len(b))
  <2>1. Key(a, x)[Len(a) + 1] = ":"
    BY DEF Key, Name
  <2>2. SUFFICES ASSUME Len(a) < Len(b)
                 PROVE  FALSE
    OBVIOUS
  <2>3. Key(b, y)[Len(a) + 1] = b[Len(a) + 1] /\ Len(a) + 1 \in DOMAIN b
    BY <2>2 DEF Key, Name
  <2>4. QED
    BY <1>1, <2>1, <2>3 DEF Range
<1>2. Len(n) = Len(m)
  BY <1>1 DEF Name
<1>3. ASSUME NEW i \in 1..Len(n)
      PROVE  n[i] = m[i]
  BY <1>2 DEF Key, Name
<1>4. n = m
  BY <1>2, <1>3, SeqEqual DEF Name
<1>5. QED
  BY <1>4, KeyOfTopic

-----------------------------------------------------------------------------
(* Sessions and index.                                                     *)

ConfigInv ==
  /\ configured \in Specs
  /\ DOMAIN policies = {Key(p[1], p[2]) : p \in configured}
  /\ \A key \in DOMAIN policies :
       policies[key] \in configured /\ Key(policies[key][1], policies[key][2]) = key

\* A client subscribes to configured topics only, and only after it connected.
SessionInv ==
  /\ home \in [Clients -> Namespaces \cup {NoName}]
  /\ subscribed \in [Clients -> SUBSET Requests]
  /\ listening \subseteq Clients
  /\ \A c \in listening : home[c] # NoName
  /\ \A c \in Clients : \A topic \in subscribed[c] :
       home[c] # NoName /\ Key(home[c], topic) \in DOMAIN policies

RegistryInv == ConfigInv /\ SessionInv /\ SessionsAreConnected /\ IndexAgrees

LEMMA NamesAreSequences ==
  ASSUME ConfigInv
  PROVE  /\ configured \subseteq (Name \ {NoName}) \X Name
         /\ Namespaces \subseteq Name \ {NoName} /\ Requests \subseteq Name
<1>1. Seq(STRING) \subseteq Name
  BY DEF Name, Part
<1>2. configured \subseteq (Seq(STRING) \ {<<>>}) \X Seq(STRING)
  BY RegistryAssumption DEF ConfigInv
<1>3. QED
  BY <1>1, <1>2, RegistryAssumption DEF Namespaces, NoName

LEMMA InitRegistry == Init => RegistryInv
<1> SUFFICES ASSUME Init
             PROVE  RegistryInv
  OBVIOUS
<1>1. ConfigInv
  BY DEF Init, ConfigInv
<1>2. SessionInv /\ SessionsAreConnected
  BY DEF Init, SessionInv, SessionsAreConnected
<1>3. \A key \in DOMAIN policies : Subscribing(key) = {}
  BY DEF Init, Subscribing
<1>4. IndexAgrees
  BY <1>3 DEF Init, IndexAgrees
<1>5. QED
  BY <1>1, <1>2, <1>4 DEF RegistryInv

LEMMA IndexedIsSubscribing ==
  ASSUME IndexAgrees, NEW key \in DOMAIN policies
  PROVE  Indexed(key) = Subscribing(key)
BY DEF IndexAgrees, Indexed

LEMMA SubscribeIndexed ==
  ASSUME RegistryInv, NEW c \in Clients, NEW topic \in Requests, Subscribe(c, topic)
  PROVE  IndexAgrees'
<1>1. PICK key : key = Key(home[c], topic)
  OBVIOUS
<1>2. /\ key \in DOMAIN policies /\ sessions' = sessions /\ c \in sessions
      /\ subscribed' = [subscribed EXCEPT ![c] = @ \cup {topic}]
      /\ UNCHANGED <<policies, home>> /\ c \in Clients
      /\ subscribed \in [Clients -> SUBSET Requests] /\ sessions \subseteq Clients
  BY <1>1 DEF Subscribe, RegistryInv, SessionsAreConnected, SessionInv, configVars
<1>3. ASSUME NEW k \in DOMAIN policies
      PROVE  Subscribing(k)' = IF k = key THEN Subscribing(k) \cup {c}
                                          ELSE Subscribing(k)
  BY <1>1, <1>2 DEF Subscribing
<1>4. subscriptions' = [k \in {key} \cup DOMAIN subscriptions |->
                          IF k = key THEN Indexed(key) \cup {c} ELSE subscriptions[k]]
  BY <1>1 DEF Subscribe, WithSubscription, Put
<1>5. Indexed(key) = Subscribing(key)
  BY <1>2, IndexedIsSubscribing DEF RegistryInv
<1>6. QED
  BY <1>2, <1>3, <1>4, <1>5 DEF RegistryInv, IndexAgrees

\* What is left of the index is what the sessions have left.
LEMMA WithoutIndexed ==
  ASSUME IndexAgrees, NEW gone, subscriptions' = Without(gone), UNCHANGED policies,
         \A key \in DOMAIN policies :
           Subscribing(key)' = {c \in Subscribing(key) : <<c, key>> \notin gone}
  PROVE  IndexAgrees'
BY DEF IndexAgrees, Without

LEMMA UnsubscribeIndexed ==
  ASSUME RegistryInv, NEW c \in Clients, NEW topic \in Requests, Unsubscribe(c, topic)
  PROVE  IndexAgrees'
<1>1. PICK key : key = Key(home[c], topic)
  OBVIOUS
<1>2. /\ c \in sessions /\ sessions \subseteq Clients
      /\ subscribed' = [subscribed EXCEPT ![c] = @ \ {topic}]
      /\ subscribed \in [Clients -> SUBSET Requests]
      /\ UNCHANGED <<policies, home, sessions>>
  BY DEF Unsubscribe, RegistryInv, SessionsAreConnected, SessionInv, configVars
<1>3. /\ home[c] \in Name /\ Requests \subseteq Name
  BY NamesAreSequences DEF RegistryInv, SessionInv, Unsubscribe
<1>4. ASSUME NEW t \in subscribed[c], t # topic
      PROVE  Key(home[c], t) # key
  BY <1>1, <1>2, <1>3, <1>4, KeyOfTopic
<1>5. ASSUME NEW k \in DOMAIN policies
      PROVE  Subscribing(k)' = {d \in Subscribing(k) : <<d, k>> \notin {<<c, key>>}}
  BY <1>1, <1>2, <1>4 DEF Subscribing
<1>6. QED
  BY <1>1, <1>2, <1>5, WithoutIndexed DEF RegistryInv, Unsubscribe

LEMMA CleanupIndexed ==
  ASSUME RegistryInv, NEW S \in SUBSET listening, Cleanup(S),
         UNCHANGED <<policies, home, subscribed>>
  PROVE  IndexAgrees'
<1>1. PICK gone : gone = UNION {{<<c, Key(home[c], topic)>> : topic \in subscribed[c]} :
                                  c \in S \cap sessions}
  OBVIOUS
<1>2. subscriptions' = Without(gone) /\ sessions' = sessions \ S
  BY <1>1 DEF Cleanup, RemoveClients
<1>3. ASSUME NEW key \in DOMAIN policies, NEW c \in Subscribing(key)
      PROVE  <<c, key>> \in gone <=> c \in S
  BY <1>1, <1>3 DEF Subscribing
<1>4. ASSUME NEW key \in DOMAIN policies
      PROVE  Subscribing(key)' = {c \in Subscribing(key) : <<c, key>> \notin gone}
  BY <1>2, <1>3 DEF Subscribing
<1>5. QED
  BY <1>2, <1>4, WithoutIndexed DEF RegistryInv

LEMMA NextRegistry ==
  ASSUME RegistryInv, [Next]_vars
  PROVE  RegistryInv'
<1>1. ASSUME NEW c \in Clients, NEW namespace \in Namespaces, Connection(c, namespace)
      PROVE  RegistryInv'
  <2>1. /\ subscribed[c] = {} /\ namespace # NoName
        /\ home' = [home EXCEPT ![c] = namespace]
        /\ sessions' = sessions \cup {c} /\ listening' = listening \cup {c}
        /\ UNCHANGED <<configured, policies, subscribed, subscriptions>>
    BY <1>1, NamesAreSequences DEF Connection, RegistryInv, SessionInv, configVars
  <2>2. ConfigInv' /\ SessionInv' /\ SessionsAreConnected'
    BY <2>1 DEF RegistryInv, ConfigInv, SessionInv, SessionsAreConnected, Namespaces
  <2>3. \A key : Subscribing(key)' = Subscribing(key)
    BY <2>1 DEF Subscribing, RegistryInv, SessionInv, SessionsAreConnected
  <2>4. QED
    BY <2>1, <2>2, <2>3 DEF RegistryInv, IndexAgrees
<1>2. ASSUME NEW c \in Clients, NEW topic \in Requests, Subscribe(c, topic)
      PROVE  RegistryInv'
  <2>1. ConfigInv' /\ SessionInv' /\ SessionsAreConnected'
    BY <1>2 DEF Subscribe, configVars, RegistryInv, ConfigInv, SessionInv,
       SessionsAreConnected, Namespaces
  <2>2. QED
    BY <1>2, <2>1, SubscribeIndexed DEF RegistryInv
<1>3. ASSUME NEW c \in Clients, NEW topic \in Requests, Unsubscribe(c, topic)
      PROVE  RegistryInv'
  <2>1. ConfigInv' /\ SessionInv' /\ SessionsAreConnected'
    BY <1>3 DEF Unsubscribe, configVars, RegistryInv, ConfigInv, SessionInv,
       SessionsAreConnected, Namespaces
  <2>2. QED
    BY <1>3, <2>1, UnsubscribeIndexed DEF RegistryInv
<1>4. ASSUME NEW S \in SUBSET listening, Cleanup(S),
             UNCHANGED <<configVars, home, subscribed>>
      PROVE  RegistryInv'
  <2>1. ConfigInv' /\ SessionInv' /\ SessionsAreConnected'
    BY <1>4 DEF Cleanup, RemoveClients, configVars, RegistryInv, ConfigInv, SessionInv,
       SessionsAreConnected, Namespaces
  <2>2. QED
    BY <1>4, <2>1, CleanupIndexed DEF RegistryInv, configVars
<1>5. ASSUME UNCHANGED <<configVars, sessionVars>>
      PROVE  RegistryInv'
  BY <1>5 DEF configVars, sessionVars, RegistryInv, ConfigInv, SessionInv,
     SessionsAreConnected, IndexAgrees, Subscribing, Namespaces
<1>6. CASE \E c \in Clients : Disconnect(c)
  BY <1>4, <1>6 DEF Disconnect
<1>7. CASE Stop
  BY <1>4, <1>7 DEF Stop
<1>8. CASE \E S, among, namespace, topic : Enqueue(S, among, namespace, topic)
  BY <1>5, <1>8 DEF Enqueue
<1>9. CASE UNCHANGED vars
  BY <1>5, <1>9 DEF vars
<1>10. QED
  BY <1>1, <1>2, <1>3, <1>6, <1>7, <1>8, <1>9 DEF Next, Publish, PublishTo

\* The inductive invariant behind the next two theorems.
THEOREM RegistryInvariant == Spec => []RegistryInv
<1>1. RegistryInv /\ [Next]_vars => RegistryInv'
  BY NextRegistry
<1>2. QED
  BY <1>1, InitRegistry, PTL DEF Spec

\* A session is in the registry as long as its socket handlers are attached.
THEOREM ConnectedHaveSessions == Spec => []SessionsAreConnected
<1>1. RegistryInv => SessionsAreConnected
  BY DEF RegistryInv
<1>2. QED
  BY <1>1, RegistryInvariant, PTL

\* The index holds the subscriptions of the sessions, no more and no less, and
\* no empty set: whatever clients subscribe, unsubscribe and leave, in whatever
\* order, also where clients of two namespaces share a key.
THEOREM IndexAndSessionsAgree == Spec => []IndexAgrees
<1>1. RegistryInv => IndexAgrees
  BY DEF RegistryInv
<1>2. QED
  BY <1>1, RegistryInvariant, PTL

-----------------------------------------------------------------------------
(* Who is reached.                                                         *)

\* A client that has lanes keeps its namespace, and its lanes their policies.
LaneInv ==
  KeysApart => \A c \in Clients : \A topic \in DOMAIN lanes[c] :
                 home[c] # NoName /\ lanes[c][topic] = <<home[c], topic>>

\* Two names that share the key of a policy are one name.
LEMMA OneNamePerKey ==
  ASSUME ConfigInv, KeysApart, NEW n \in Namespaces, NEW t \in Requests,
         Key(n, t) \in DOMAIN policies
  PROVE  /\ policies[Key(n, t)] = <<n, t>>
         /\ \A m \in Namespaces, u \in Requests :
              Key(m, u) = Key(n, t) => m = n /\ u = t
<1>1. PICK p : p = policies[Key(n, t)]
  OBVIOUS
<1>2. p \in configured /\ Key(p[1], p[2]) = Key(n, t)
  BY <1>1 DEF ConfigInv
<1>3. ASSUME NEW m \in Namespaces, NEW u \in Requests, Key(m, u) = Key(n, t)
      PROVE  p = <<m, u>>
  <2>1. PICK q : q = <<m, u>>
    OBVIOUS
  <2>2. q \in Namespaces \X Requests /\ q[1] = m /\ q[2] = u
    BY <2>1
  <2>3. p[1] \o <<":", ":">> \o p[2] = q[1] \o <<":", ":">> \o q[2]
    BY <1>2, <1>3, <2>2 DEF Key
  <2>4. p = q
    BY <1>2, <2>2, <2>3 DEF KeysApart
  <2>5. QED
    BY <2>1, <2>4
<1>4. p = <<n, t>>
  BY <1>3
<1>5. QED
  BY <1>1, <1>3, <1>4

\* What a publication reaches: the sessions with a subscription of that key.
LEMMA PublicationReaches ==
  ASSUME RegistryInv, NEW namespace \in Namespaces, NEW topic \in Requests,
         Key(namespace, topic) \in DOMAIN policies
  PROVE  /\ SubscribersOf(namespace, topic) =
              Clients \cap Subscribing(Key(namespace, topic))
         /\ \A c \in sessions : home[c] = namespace /\ topic \in subscribed[c] =>
              {c} = {c} \cap Subscribing(Key(namespace, topic))
<1>1. sessions \subseteq Clients
  BY DEF RegistryInv, SessionsAreConnected, SessionInv
<1>2. Indexed(Key(namespace, topic)) = Subscribing(Key(namespace, topic))
  BY IndexedIsSubscribing DEF RegistryInv
<1>3. QED
  BY <1>1, <1>2 DEF SubscribersOf, Subscribing

\* Where names and keys are one, these are the subscribers of the topic.
LEMMA SubscribingToTopic ==
  ASSUME RegistryInv, KeysApart, NEW namespace \in Namespaces, NEW topic \in Requests,
         Key(namespace, topic) \in DOMAIN policies
  PROVE  Subscribing(Key(namespace, topic)) =
           {c \in sessions : home[c] = namespace /\ topic \in subscribed[c]}
<1>1. ASSUME NEW c \in sessions, NEW t \in subscribed[c],
             Key(home[c], t) = Key(namespace, topic)
      PROVE  home[c] = namespace /\ t = topic
  <2>1. home[c] \in Namespaces /\ t \in Requests
    BY <1>1 DEF RegistryInv, SessionInv, SessionsAreConnected
  <2>2. QED
    BY <1>1, <2>1, OneNamePerKey DEF RegistryInv
<1>2. QED
  BY <1>1 DEF Subscribing

LEMMA EnqueueReaches ==
  ASSUME RegistryInv, LaneInv, NEW namespace \in Namespaces, NEW topic \in Requests,
         NEW S, NEW among, Enqueue(S, among, namespace, topic),
         S = among \cap Subscribing(Key(namespace, topic))
  PROVE  LaneInv' /\ ReachesItsOwn'
<1>1. /\ Key(namespace, topic) \in DOMAIN policies
      /\ UNCHANGED <<configured, policies, home, sessions, subscribed>>
      /\ KeysApart' = KeysApart
  BY DEF Enqueue, configVars, sessionVars, KeysApart, Namespaces
<1>2. \A key : Subscribing(key)' = Subscribing(key)
  BY <1>1 DEF Subscribing
<1>3. PICK p : p = [namespace |-> namespace, topic |-> topic,
                    among |-> among, reached |-> S]
  OBVIOUS
<1>4. /\ published' = {p} /\ p.namespace = namespace /\ p.topic = topic
      /\ p.among = among /\ p.reached = S
  BY <1>3 DEF Enqueue
<1>5. ASSUME KeysApart
      PROVE  S = {c \in among \cap sessions :
                    home[c] = namespace /\ topic \in subscribed[c]}
  BY <1>1, <1>5, SubscribingToTopic
<1>6. ASSUME KeysApart, NEW c \in Clients, NEW t \in DOMAIN lanes'[c]
      PROVE  home[c] # NoName /\ lanes'[c][t] = <<home[c], t>>
  <2>1. policies[Key(namespace, topic)] = <<namespace, topic>>
    BY <1>1, <1>6, OneNamePerKey DEF RegistryInv
  <2>2. lanes'[c] = IF c \in S /\ topic \notin DOMAIN lanes[c]
                      THEN Put(lanes[c], topic, <<namespace, topic>>) ELSE lanes[c]
    BY <2>1 DEF Enqueue
  <2>3. c \in S => home[c] = namespace /\ namespace # NoName
    BY <1>5, <1>6, NamesAreSequences DEF RegistryInv
  <2>4. QED
    BY <1>6, <2>2, <2>3 DEF LaneInv, Put
<1>7. LaneInv'
  BY <1>1, <1>6 DEF LaneInv
<1>8. ASSUME NEW q \in published'
      PROVE  /\ q.reached = q.among \cap Subscribing(Key(q.namespace, q.topic))'
             /\ KeysApart => q.reached = {c \in q.among \cap sessions' :
                  home'[c] = q.namespace /\ q.topic \in subscribed'[c]}
  <2>1. q = p
    BY <1>4, <1>8
  <2>2. Subscribing(Key(namespace, topic))' = Subscribing(Key(namespace, topic))
    BY <1>2
  <2>3. QED
    BY <1>1, <1>4, <1>5, <2>1, <2>2
<1>9. QED
  BY <1>1, <1>7, <1>8 DEF LaneInv, ReachesItsOwn

LEMMA NextReaches ==
  ASSUME RegistryInv, LaneInv, ReachesItsOwn, [Next]_vars
  PROVE  LaneInv' /\ ReachesItsOwn'
<1>1. ASSUME UNCHANGED <<configured, lanes>>, published' = {},
             \A c \in Clients : home[c] # NoName => home'[c] = home[c]
      PROVE  LaneInv' /\ ReachesItsOwn'
  <2>1. KeysApart' = KeysApart
    BY <1>1 DEF KeysApart, Namespaces
  <2>2. LaneInv'
    BY <1>1, <2>1 DEF LaneInv
  <2>3. QED
    BY <1>1, <2>2 DEF LaneInv, ReachesItsOwn
<1>2. ASSUME NEW c \in Clients, NEW namespace, Connection(c, namespace)
      PROVE  LaneInv' /\ ReachesItsOwn'
  BY <1>1, <1>2 DEF Connection, configVars, RegistryInv, SessionInv
<1>3. CASE \/ \E c \in Clients, topic \in Requests :
                Subscribe(c, topic) \/ Unsubscribe(c, topic)
           \/ \E c \in Clients : Disconnect(c)
           \/ Stop
  BY <1>1, <1>3 DEF Subscribe, Unsubscribe, Disconnect, Stop, configVars
<1>4. ASSUME NEW namespace \in Namespaces, NEW topic \in Requests,
             Publish(namespace, topic)
      PROVE  LaneInv' /\ ReachesItsOwn'
  <2>1. PICK S : S = SubscribersOf(namespace, topic)
    OBVIOUS
  <2>2. Enqueue(S, Clients, namespace, topic) /\ Key(namespace, topic) \in DOMAIN policies
    BY <1>4, <2>1 DEF Publish, Enqueue
  <2>3. QED
    BY <2>1, <2>2, PublicationReaches, EnqueueReaches
<1>5. ASSUME NEW namespace \in Namespaces, NEW topic \in Requests, NEW c \in Clients,
             PublishTo(namespace, c, topic)
      PROVE  LaneInv' /\ ReachesItsOwn'
  <2>1. PICK S : S = {c}
    OBVIOUS
  <2>2. Enqueue(S, S, namespace, topic) /\ Key(namespace, topic) \in DOMAIN policies
    BY <1>5, <2>1 DEF PublishTo, Enqueue
  <2>3. S = S \cap Subscribing(Key(namespace, topic))
    BY <1>5, <2>1, <2>2, PublicationReaches DEF PublishTo
  <2>4. QED
    BY <2>2, <2>3, EnqueueReaches
<1>6. CASE UNCHANGED vars
  BY <1>6 DEF vars, configVars, sessionVars, LaneInv, ReachesItsOwn, KeysApart,
     Namespaces, Subscribing
<1>7. QED
  BY <1>2, <1>3, <1>4, <1>5, <1>6 DEF Next

\* A publication reaches exactly the sessions that hold a subscription with its
\* key.  In a configuration none of whose names reads, when joined, like
\* another one, these are exactly the subscribers of its topic in its namespace,
\* and every lane has the policy of its own topic.
THEOREM PublicationsReachTheirOwn == Spec => []ReachesItsOwn
<1>1. Init => LaneInv /\ ReachesItsOwn
  BY DEF Init, LaneInv, ReachesItsOwn
<1>2. RegistryInv /\ LaneInv /\ ReachesItsOwn /\ [Next]_vars
        => LaneInv' /\ ReachesItsOwn'
  BY NextReaches
<1>3. QED
  BY <1>1, <1>2, RegistryInvariant, PTL DEF Spec

\* The configurations this is about: namespaces without a ":" are enough,
\* whatever topics are configured and asked for.
THEOREM PlainNamespacesAreApart ==
  Spec => []((\A n \in Namespaces : ":" \notin Range(n)) => KeysApart)
<1>1. ASSUME RegistryInv, \A n \in Namespaces : ":" \notin Range(n)
      PROVE  KeysApart
  <2>1. /\ Namespaces \subseteq Name /\ Requests \subseteq Name
        /\ configured \subseteq Name \X Name
        /\ configured \subseteq Namespaces \X Name
    BY <1>1, NamesAreSequences DEF RegistryInv, Namespaces
  <2>2. SUFFICES ASSUME NEW p \in configured,
                        NEW q \in configured \cup (Namespaces \X Requests),
                        Key(p[1], p[2]) = Key(q[1], q[2])
                 PROVE  p = q
    BY DEF KeysApart, Key
  <2>3. /\ p[1] \in Namespaces /\ p[2] \in Name /\ p = <<p[1], p[2]>>
        /\ q[1] \in Namespaces /\ q[2] \in Name /\ q = <<q[1], q[2]>>
    BY <2>1
  <2>4. p[1] = q[1] /\ p[2] = q[2]
    BY <1>1, <2>1, <2>2, <2>3, KeyIsUnique
  <2>5. QED
    BY <2>3, <2>4
<1>2. QED
  BY <1>1, RegistryInvariant, PTL
=============================================================================
