--------------------------- MODULE ServerLifecycle ---------------------------
(***************************************************************************)
(* StreamFenceServer.start(), stop() and attachRetryProcessor(), with the  *)
(* SocketServerBootstrap they await, the NamespaceHandlers and the         *)
(* sessions those register.                                                *)
(*                                                                         *)
(* start() and stop() are asynchronous and nothing serialises them: the    *)
(* application may call again while a call waits, and what follows an      *)
(* await reads the server's fields anew.  A call is a number.  The start() *)
(* call c that gets as far as to build a bootstrap, registries and a       *)
(* dispatcher builds generation c of them; the fields that hold them are   *)
(* always set and dropped together, hence the one variable "current".      *)
(***************************************************************************)
EXTENDS Integers

CONSTANTS MaxCalls,      \* bound on the calls of start() and stop()
          MaxAttach,     \* bound on the calls of attachRetryProcessor()
          Clients,       \* the clients that may connect
          Periods,       \* the intervals an application attaches with
          Throwing,      \* the events for which a listener may throw
          ListenMayFail  \* whether the port may be taken

Events == {"starting", "started", "stopping", "stopped"}

ASSUME LifecycleAssumption ==
  /\ MaxCalls \in Nat /\ MaxAttach \in Nat
  /\ Periods \subseteq Nat
  /\ Throwing \subseteq Events
  /\ ListenMayFail \in BOOLEAN

VARIABLES running,
          current,     \* the generation in the fields of the server, or None
          port,        \* generation -> the state of its http server
          torn,        \* generations whose bootstrap.stop() has ended
          handler,     \* start call -> the [io, registry] its handlers serve
          attached,    \* start calls whose handlers listen for connections
          list,        \* namespaceHandlers: the start call that made them
          sessions,    \* <<client, start call of its handler>> in a registry
          processor,   \* retryProcessor
          period,      \* retryIntervalMs
          interval,    \* retryIntervalHandle
          live,        \* the intervals the runtime fires
          call,        \* call -> [kind, stage, gen]
          calls,       \* calls made so far
          timers,      \* intervals made so far
          overlapped   \* whether a call was ever made during another (history)

serverVars == <<running, current, handler, attached, list, sessions>>
retryVars  == <<processor, period, interval, live, timers>>
vars == <<serverVars, retryVars, port, torn, call, calls, overlapped>>

Calls  == 1..MaxCalls
None   == 0
NoTimer == [id |-> 0, ms |-> 0]

Ended == {"resolved", "rejected"}
Under == {c \in 1..calls : call[c].stage \notin Ended}

May(event) == event \in Throwing

-----------------------------------------------------------------------------
(* How a call begins and ends.                                             *)

Begin(kind, stage, gen) ==
  /\ calls < MaxCalls
  /\ calls' = calls + 1
  /\ call' = [call EXCEPT ![calls + 1] =
                [kind |-> kind, stage |-> stage, gen |-> gen]]
  /\ overlapped' = (overlapped \/ Under # {})

Goto(c, stage) ==
  /\ call' = [call EXCEPT ![c].stage = stage]
  /\ UNCHANGED <<calls, overlapped>>

-----------------------------------------------------------------------------
(* start(), up to the await on the bootstrap.                              *)

StartRunning ==
  /\ running
  /\ Begin("start", "resolved", None)
  /\ UNCHANGED <<serverVars, retryVars, port, torn>>

\* Mutant: a running server is started again.
StartAlways ==
  /\ Begin("start", "binding", calls + 1)
  /\ current' = calls + 1
  /\ port' = [port EXCEPT ![calls + 1] = "binding"]
  /\ UNCHANGED <<running, handler, attached, list, sessions, retryVars, torn>>

StartBinds ==
  /\ ~running
  /\ Begin("start", "binding", calls + 1)
  /\ current' = calls + 1
  /\ port' = [port EXCEPT ![calls + 1] = "binding"]
  /\ UNCHANGED <<running, handler, attached, list, sessions, retryVars, torn>>

\* emitServerStarting is outside every try.
StartingThrows ==
  /\ ~running
  /\ May("starting")
  /\ Begin("start", "rejected", None)
  /\ UNCHANGED <<serverVars, retryVars, port, torn>>

(* The runtime's answer to listen().  The callback of a bootstrap that has *)
(* been torn down finds no httpServer and throws into the runtime: the     *)
(* server listens, and the promise of start() is never settled.            *)
Bound(c) ==
  /\ call[c].kind = "start" /\ call[c].stage = "binding"
  /\ port' = [port EXCEPT ![c] = "listening"]
  /\ Goto(c, IF c \in torn THEN "hanging" ELSE "bound")
  /\ UNCHANGED <<serverVars, retryVars, torn>>

\* Mutant: no handler for the server's error event.
ListenFailsUnheard(c) ==
  /\ ListenMayFail
  /\ call[c].kind = "start" /\ call[c].stage = "binding"
  /\ port' = [port EXCEPT ![c] = "failed"]
  /\ Goto(c, "hanging")
  /\ UNCHANGED <<serverVars, retryVars, torn>>

ListenFails(c) ==
  /\ ListenMayFail
  /\ call[c].kind = "start" /\ call[c].stage = "binding"
  /\ port' = [port EXCEPT ![c] = "failed"]
  /\ Goto(c, "rejected")
  /\ UNCHANGED <<serverVars, retryVars, torn>>

-----------------------------------------------------------------------------
(* start() after the await.  It reads the bootstrap and the registries     *)
(* from the server's fields, whoever set them meanwhile.                   *)

\* The address is gone, or the fields are, or their bootstrap was stopped.
StartInterrupted(c) ==
  /\ call[c].kind = "start" /\ call[c].stage = "bound"
  /\ port[c] = "closed" \/ current = None \/ current \in torn
  /\ Goto(c, "rejected")
  /\ UNCHANGED <<serverVars, retryVars, port, torn>>

SetInterval(ms) ==
  /\ timers' = timers + 1
  /\ interval' = [id |-> timers + 1, ms |-> ms]

StartFinishes(c) ==
  /\ call[c].kind = "start" /\ call[c].stage = "bound"
  /\ current # None /\ current \notin torn
  /\ handler' = [handler EXCEPT ![c] = [io |-> current, registry |-> current]]
  /\ attached' = attached \cup {c}
  /\ list' = c
  /\ processor' = IF processor = "none" THEN "dispatcher" ELSE processor
  /\ running' = TRUE
  /\ \/ /\ interval = NoTimer
        /\ SetInterval(period)
        /\ live' = live \cup {interval'}
     \/ /\ interval # NoTimer
        /\ UNCHANGED <<timers, interval, live>>
  /\ \/ Goto(c, "resolved")
     \/ May("started") /\ Goto(c, "rejected")
  /\ UNCHANGED <<current, sessions, period, port, torn>>

-----------------------------------------------------------------------------
(* stop().                                                                 *)

StopIdle ==
  /\ ~running /\ current = None
  /\ Begin("stop", "resolved", None)
  /\ UNCHANGED <<serverVars, retryVars, port, torn>>

StoppingThrows ==
  /\ running \/ current # None
  /\ May("stopping")
  /\ Begin("stop", "rejected", None)
  /\ UNCHANGED <<serverVars, retryVars, port, torn>>

\* Mutant: the interval is cleared and its handle kept.
StopKeepsHandle ==
  /\ current # None
  /\ live' = live \ {interval}
  /\ attached' = attached \ {list}
  /\ list' = None
  /\ sessions' = {s \in sessions : s[2] # list /\ handler[s[2]].io # current}
  /\ Begin("stop", "closing", current)
  /\ UNCHANGED <<running, current, handler, processor, period, interval, timers,
                 port, torn>>

(* Up to the await on bootstrap.stop(): the interval, the handlers of the  *)
(* list with their sessions, and then the sockets of the io server, whose  *)
(* disconnect handlers remove the sessions that are left.                  *)
StopCloses ==
  /\ current # None
  /\ live' = live \ {interval}
  /\ interval' = NoTimer
  /\ attached' = attached \ {list}
  /\ list' = None
  /\ sessions' = {s \in sessions : s[2] # list /\ handler[s[2]].io # current}
  /\ Begin("stop", "closing", current)
  /\ UNCHANGED <<running, current, handler, processor, period, timers, port, torn>>

\* The callbacks of close(): a server that is not bound yet answers at once,
\* and its bind goes on.
Closed(c) ==
  /\ call[c].kind = "stop" /\ call[c].stage = "closing"
  /\ torn' = torn \cup {call[c].gen}
  /\ port' = [port EXCEPT ![call[c].gen] = IF @ = "listening" THEN "closed" ELSE @]
  /\ Goto(c, "closed")
  /\ UNCHANGED <<serverVars, retryVars>>

\* Mutant: the flag stays up.
StopStaysRunning(c) ==
  /\ call[c].kind = "stop" /\ call[c].stage = "closed"
  /\ current' = None
  /\ Goto(c, "resolved") \/ (May("stopped") /\ Goto(c, "rejected"))
  /\ UNCHANGED <<running, handler, attached, list, sessions, retryVars, port, torn>>

\* What follows the await drops whatever the fields hold by now.
StopFinishes(c) ==
  /\ call[c].kind = "stop" /\ call[c].stage = "closed"
  /\ current' = None
  /\ running' = FALSE
  /\ Goto(c, "resolved") \/ (May("stopped") /\ Goto(c, "rejected"))
  /\ UNCHANGED <<handler, attached, list, sessions, retryVars, port, torn>>

-----------------------------------------------------------------------------
(* attachRetryProcessor(), and the clients.                                *)

\* Mutant: the interval that runs is not cleared.
AttachBeside(ms) ==
  /\ timers < MaxCalls + MaxAttach
  /\ processor' = "attached"
  /\ period' = ms
  /\ overlapped' = (overlapped \/ Under # {})
  /\ \/ /\ running
        /\ SetInterval(ms)
        /\ live' = live \cup {interval'}
     \/ ~running /\ UNCHANGED <<timers, interval, live>>
  /\ UNCHANGED <<serverVars, port, torn, call, calls>>

Attach(ms) ==
  /\ timers < MaxCalls + MaxAttach
  /\ processor' = "attached"
  /\ period' = ms
  /\ overlapped' = (overlapped \/ Under # {})
  /\ \/ /\ running
        /\ SetInterval(ms)
        /\ live' = (live \ {interval}) \cup {interval'}
     \/ ~running /\ UNCHANGED <<timers, interval, live>>
  /\ UNCHANGED <<serverVars, port, torn, call, calls>>

\* Every handler that listens on the server the client reached registers it.
Connect(client) ==
  /\ \A s \in sessions : s[1] # client
  /\ \E g \in Calls :
       /\ port[g] = "listening"
       /\ sessions' = sessions \cup
            {<<client, h>> : h \in {h \in attached : handler[h].io = g}}
  /\ UNCHANGED <<running, current, handler, attached, list, retryVars, port, torn,
                 call, calls, overlapped>>

Disconnect(client) ==
  /\ sessions' = {s \in sessions : s[1] # client}
  /\ UNCHANGED <<running, current, handler, attached, list, retryVars, port, torn,
                 call, calls, overlapped>>

-----------------------------------------------------------------------------
Init ==
  /\ running = FALSE /\ current = None
  /\ port = [g \in Calls |-> "none"] /\ torn = {}
  /\ handler = [c \in Calls |-> [io |-> None, registry |-> None]]
  /\ attached = {} /\ list = None /\ sessions = {}
  /\ processor = "none" /\ period = 50
  /\ interval = NoTimer /\ live = {} /\ timers = 0
  /\ call = [c \in Calls |-> [kind |-> "none", stage |-> "none", gen |-> None]]
  /\ calls = 0
  /\ overlapped = FALSE

Start == StartRunning \/ StartBinds \/ StartingThrows
Stop  == StopIdle \/ StoppingThrows \/ StopCloses

Continue(c) ==
  \/ Bound(c) \/ ListenFails(c)
  \/ StartInterrupted(c) \/ StartFinishes(c)
  \/ Closed(c) \/ StopFinishes(c)

Next ==
  \/ Start \/ Stop
  \/ \E c \in Calls : Continue(c)
  \/ \E ms \in Periods : Attach(ms)
  \/ \E client \in Clients : Connect(client) \/ Disconnect(client)

\* The runtime answers listen() and close() and resumes what they wake.
Fairness == \A c \in Calls : WF_vars(Continue(c))

Spec == Init /\ [][Next]_vars /\ Fairness

-----------------------------------------------------------------------------
(* Properties.                                                             *)

\* However calls overlap, at most one retry interval fires, and the server
\* holds its handle: a second one would run every retry pass twice and could
\* never be cleared.
OneRetryInterval == live \subseteq {interval} \ {NoTimer}

\* However calls overlap, a server that says it is running has a dispatcher:
\* publish() is not dropped by its optional chaining.
RunningPublishes == running => current # None

Serving ==
  /\ current # None /\ port[current] = "listening"
  /\ {g \in Calls : port[g] = "listening"} = {current}
  /\ attached = {list} /\ handler[list] = [io |-> current, registry |-> current]
  /\ interval \in live /\ interval.ms = period
  /\ processor # "none"

Down ==
  /\ \A g \in Calls : port[g] # "listening"
  /\ attached = {} /\ sessions = {} /\ live = {}

\* Calls made one after the other leave the server all up or all down, after
\* listeners that threw, ports that were taken, restarts and retry processors
\* attached at any time: running is the truth about the port, the handlers and
\* the retry interval.
AllOrNothing ==
  Under = {} /\ ~overlapped => IF running THEN Serving ELSE Down

\* Calls made one after the other never split the server: every session is in
\* the registry that the dispatcher publishes from and acknowledges in.
SessionsReachable ==
  ~overlapped => \A s \in sessions : handler[s[2]].registry = current

\* A call made while no other is under way comes to an end, whatever the
\* port and the listeners do.
CallsEnd ==
  \A c \in Calls :
    call[c].stage # "none" ~> call[c].stage \in Ended \/ overlapped

-----------------------------------------------------------------------------
(* What the documentation says and the code does not do.                   *)

\* README.md:539, of stop(): "Graceful shutdown - disconnects clients, stops
\* retry loop, closes port".
StoppedIsDown ==
  Under = {} /\ calls > 0 /\ call[calls].kind = "stop"
    /\ call[calls].stage = "resolved" => Down
=============================================================================
