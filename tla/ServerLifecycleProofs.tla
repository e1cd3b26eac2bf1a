------------------------ MODULE ServerLifecycleProofs ------------------------
(***************************************************************************)
(* What holds of start(), stop() and attachRetryProcessor() for any number *)
(* of calls and clients: under every overlap of calls, at most one retry   *)
(* interval and no running server without a dispatcher; of calls made one  *)
(* after the other, all up or all down, and no session out of reach.       *)
(***************************************************************************)
EXTENDS ServerLifecycle, TLAPS

Stages == {"none", "binding", "hanging", "bound", "closing", "closed",
           "resolved", "rejected"}

\* What the fields can hold.  Generations, handlers and calls are numbers of
\* calls already made, so that the next call's number is new to all of them.
LifecycleTypeOK ==
  /\ running \in BOOLEAN /\ overlapped \in BOOLEAN
  /\ calls \in 0..MaxCalls
  /\ current \in 0..calls
  /\ DOMAIN port = Calls
  /\ torn \subseteq 1..calls
  /\ DOMAIN handler = Calls
  /\ call \in [Calls -> [kind : {"none", "start", "stop"}, stage : Stages,
                         gen : 0..calls]]
  /\ \A c \in Calls : c > calls => call[c].stage = "none"
  /\ \A c \in Calls : call[c].stage = "none" => c > calls
  /\ \A c \in Calls : call[c].stage = "closing" => call[c].gen # None
  /\ timers \in Nat

-----------------------------------------------------------------------------
(* Calls under way.                                                        *)

\* A call that begins is under way unless it ends at once.
LEMMA BeginUnder ==
  ASSUME LifecycleTypeOK, NEW kind, NEW stage, NEW gen,
         Begin(kind, stage, gen)
  PROVE  Under' = IF stage \in Ended THEN Under ELSE Under \cup {calls + 1}
<1>1. /\ calls \in Nat /\ calls < MaxCalls /\ MaxCalls \in Nat
      /\ calls' = calls + 1
      /\ DOMAIN call = Calls
  BY LifecycleAssumption DEF LifecycleTypeOK, Begin
<1>2. /\ calls + 1 \in Calls
      /\ \A c \in 1..calls : c \in Calls /\ c # calls + 1
  BY <1>1 DEF Calls
<1>3. /\ call'[calls + 1].stage = stage
      /\ \A c \in 1..calls : call'[c] = call[c]
  BY <1>1, <1>2 DEF Begin
<1>4. 1..calls' = (1..calls) \cup {calls + 1}
  BY <1>1
<1>. QED  BY <1>3, <1>4 DEF Under

\* A call under way stays so until it ends.
LEMMA GotoUnder ==
  ASSUME LifecycleTypeOK, NEW c \in Calls, call[c].stage # "none",
         NEW stage, Goto(c, stage), call[c].stage \notin Ended
  PROVE  /\ c \in Under
         /\ Under' = IF stage \in Ended THEN Under \ {c} ELSE Under
<1>1. c \in 1..calls /\ calls' = calls
  BY LifecycleAssumption DEF LifecycleTypeOK, Calls, Goto
<1>2. /\ call'[c].stage = stage
      /\ \A d \in 1..calls : d # c => call'[d] = call[d]
  BY LifecycleAssumption DEF LifecycleTypeOK, Goto, Calls
<1>. QED  BY <1>1, <1>2 DEF Under

-----------------------------------------------------------------------------
(* The ranges.                                                             *)

LEMMA LifecycleTypes == Spec => []LifecycleTypeOK
<1>1. Init => LifecycleTypeOK
  <2>. SUFFICES ASSUME Init PROVE LifecycleTypeOK
    OBVIOUS
  <2>1. \A c \in Calls : c > 0 /\ call[c] = [kind |-> "none", stage |-> "none", gen |-> 0]
    BY LifecycleAssumption DEF Init, Calls, None
  <2>2. call \in [Calls -> [kind : {"none", "start", "stop"}, stage : Stages,
                          gen : 0..calls]]
    BY <2>1 DEF Init, Stages, None
  <2>3. running \in BOOLEAN /\ overlapped \in BOOLEAN /\ torn = {}
        /\ DOMAIN port = Calls /\ DOMAIN handler = Calls
    BY DEF Init
  <2>4. calls = 0 /\ current = 0 /\ timers = 0
        /\ 0 \in 0..MaxCalls /\ 0 \in 0..0 /\ 0 \in Nat
    BY LifecycleAssumption DEF Init, None
  <2>5. \A c \in Calls : /\ c > calls <=> call[c].stage = "none"
                        /\ call[c].stage # "closing"
    BY <2>1, <2>4
  <2>. QED  BY <2>2, <2>3, <2>4, <2>5 DEF LifecycleTypeOK
<1>2. LifecycleTypeOK /\ [Next]_vars => LifecycleTypeOK'
  <2>. SUFFICES ASSUME LifecycleTypeOK, [Next]_vars
                PROVE  LifecycleTypeOK'
    OBVIOUS
  <2>. USE LifecycleAssumption DEF LifecycleTypeOK, Calls
  <2>1. ASSUME NEW kind \in {"start", "stop"}, NEW stage \in Stages \ {"none"},
               NEW gen \in 0..(calls + 1), Begin(kind, stage, gen),
               stage = "closing" => gen # None
        PROVE  /\ calls' \in 0..MaxCalls /\ calls' = calls + 1
               /\ overlapped' \in BOOLEAN
               /\ call' \in [Calls -> [kind : {"none", "start", "stop"},
                                      stage : Stages, gen : 0..calls']]
               /\ \A c \in Calls : c > calls' <=> call'[c].stage = "none"
               /\ \A c \in Calls : call'[c].stage = "closing" => call'[c].gen # None
    <3>1. calls' = calls + 1 /\ calls + 1 \in Calls /\ calls \in Nat
      BY <2>1 DEF Begin
    <3>2. /\ call'[calls + 1] = [kind |-> kind, stage |-> stage, gen |-> gen]
          /\ \A c \in Calls : c # calls + 1 => call'[c] = call[c]
          /\ DOMAIN call' = Calls
      BY <2>1, <3>1 DEF Begin
    <3>3. call' \in [Calls -> [kind : {"none", "start", "stop"},
                              stage : Stages, gen : 0..(calls + 1)]]
      BY <2>1, <3>1 DEF Begin
    <3>4. ASSUME NEW c \in Calls
          PROVE  /\ c > calls' <=> call'[c].stage = "none"
                 /\ call'[c].stage = "closing" => call'[c].gen # None
      <4>1. CASE c = calls + 1
        BY <4>1, <3>1, <3>2, <2>1
      <4>2. CASE c # calls + 1
        BY <4>2, <3>1, <3>2
      <4>. QED  BY <4>1, <4>2
    <3>5. overlapped' \in BOOLEAN
      BY <2>1 DEF Begin
    <3>. QED  BY <3>1, <3>3, <3>4, <3>5
  <2>2. ASSUME NEW c \in Calls, NEW stage \in Stages \ {"none", "closing"},
               Goto(c, stage), call[c].stage # "none"
        PROVE  /\ calls' = calls /\ overlapped' = overlapped
               /\ call' \in [Calls -> [kind : {"none", "start", "stop"},
                                      stage : Stages, gen : 0..calls]]
               /\ \A d \in Calls : d > calls <=> call'[d].stage = "none"
               /\ \A d \in Calls : call'[d].stage = "closing" => call'[d].gen # None
    <3>1. /\ call'[c] = [call[c] EXCEPT !.stage = stage]
          /\ \A d \in Calls : d # c => call'[d] = call[d]
          /\ DOMAIN call' = Calls
      BY <2>2 DEF Goto
    <3>2. call' \in [Calls -> [kind : {"none", "start", "stop"},
                              stage : Stages, gen : 0..calls]]
      BY <2>2 DEF Goto
    <3>3. ASSUME NEW d \in Calls
          PROVE  /\ d > calls <=> call'[d].stage = "none"
                 /\ call'[d].stage = "closing" => call'[d].gen # None
      BY <2>2, <3>1
    <3>. QED  BY <2>2, <3>2, <3>3 DEF Goto
  <2>3. ASSUME Start PROVE LifecycleTypeOK'
    <3>. USE DEF serverVars, retryVars, None
    <3>1. CASE StartRunning
      BY <2>1, <3>1 DEF StartRunning, Stages
    <3>2. CASE StartBinds
      BY <2>1, <3>2 DEF StartBinds, Stages
    <3>3. CASE StartingThrows
      BY <2>1, <3>3 DEF StartingThrows, Stages
    <3>. QED  BY <2>3, <3>1, <3>2, <3>3 DEF Start
  <2>4. ASSUME Stop PROVE LifecycleTypeOK'
    <3>. USE DEF serverVars, retryVars, None
    <3>1. CASE StopIdle
      BY <2>1, <3>1 DEF StopIdle, Stages
    <3>2. CASE StoppingThrows
      BY <2>1, <3>2 DEF StoppingThrows, Stages
    <3>3. CASE StopCloses
      <4>1. /\ Begin("stop", "closing", current) /\ current # None
            /\ current \in 0..(calls + 1) /\ "closing" \in Stages \ {"none"}
        BY <3>3 DEF StopCloses, Stages
      <4>. HIDE DEF Calls
      <4>2. /\ calls' \in 0..MaxCalls /\ calls' = calls + 1
            /\ overlapped' \in BOOLEAN
            /\ call' \in [Calls -> [kind : {"none", "start", "stop"},
                                   stage : Stages, gen : 0..calls']]
            /\ \A c \in Calls : c > calls' <=> call'[c].stage = "none"
            /\ \A c \in Calls : call'[c].stage = "closing" => call'[c].gen # None
        BY <4>1, <2>1
      <4>. QED  BY <3>3, <4>2 DEF StopCloses
    <3>. QED  BY <2>4, <3>1, <3>2, <3>3 DEF Stop
  <2>5. ASSUME NEW c \in Calls, Continue(c) PROVE LifecycleTypeOK'
    <3>. USE DEF serverVars, retryVars
    <3>1. CASE Bound(c)
      BY <2>2, <3>1 DEF Bound, Stages
    <3>2. CASE ListenFails(c)
      BY <2>2, <3>2 DEF ListenFails, Stages
    <3>3. CASE StartInterrupted(c)
      BY <2>2, <3>3 DEF StartInterrupted, Stages
    <3>4. CASE StartFinishes(c)
      <4>1. \E stage \in {"resolved", "rejected"} :
              Goto(c, stage) /\ call[c].stage # "none"
        BY <3>4 DEF StartFinishes
      <4>2. /\ calls' = calls /\ overlapped' = overlapped
            /\ call' \in [Calls -> [kind : {"none", "start", "stop"},
                                   stage : Stages, gen : 0..calls]]
            /\ \A d \in Calls : d > calls <=> call'[d].stage = "none"
            /\ \A d \in Calls : call'[d].stage = "closing" => call'[d].gen # None
        BY <4>1, <2>2 DEF Stages
      <4>3. running' \in BOOLEAN /\ timers' \in Nat /\ DOMAIN handler' = Calls
            /\ UNCHANGED <<current, port, torn>>
        BY <3>4 DEF StartFinishes, SetInterval
      <4>. QED  BY <4>2, <4>3
    <3>5. CASE Closed(c)
      <4>1. /\ Goto(c, "closed") /\ call[c].stage = "closing"
            /\ call[c].gen \in 1..calls
        BY <3>5 DEF Closed, None
      <4>2. /\ calls' = calls /\ overlapped' = overlapped
            /\ call' \in [Calls -> [kind : {"none", "start", "stop"},
                                   stage : Stages, gen : 0..calls]]
            /\ \A d \in Calls : d > calls <=> call'[d].stage = "none"
            /\ \A d \in Calls : call'[d].stage = "closing" => call'[d].gen # None
        BY <4>1, <2>2 DEF Stages
      <4>. QED  BY <3>5, <4>1, <4>2 DEF Closed
    <3>6. CASE StopFinishes(c)
      <4>1. \E stage \in {"resolved", "rejected"} :
              Goto(c, stage) /\ call[c].stage # "none"
        BY <3>6 DEF StopFinishes
      <4>2. /\ calls' = calls /\ overlapped' = overlapped
            /\ call' \in [Calls -> [kind : {"none", "start", "stop"},
                                   stage : Stages, gen : 0..calls]]
            /\ \A d \in Calls : d > calls <=> call'[d].stage = "none"
            /\ \A d \in Calls : call'[d].stage = "closing" => call'[d].gen # None
        BY <4>1, <2>2 DEF Stages
      <4>3. current' = 0 /\ 0 \in 0..calls
        BY <3>6 DEF StopFinishes, None
      <4>. QED  BY <3>6, <4>2, <4>3 DEF StopFinishes
    <3>. QED  BY <2>5, <3>1, <3>2, <3>3, <3>4, <3>5, <3>6 DEF Continue
  <2>6. ASSUME NEW ms \in Periods, Attach(ms) PROVE LifecycleTypeOK'
    BY <2>6 DEF Attach, SetInterval, serverVars
  <2>7. ASSUME NEW client \in Clients, Connect(client) \/ Disconnect(client)
        PROVE  LifecycleTypeOK'
    BY <2>7 DEF Connect, Disconnect, retryVars
  <2>8. CASE UNCHANGED vars
    BY <2>8 DEF vars, serverVars, retryVars
  <2>. QED  BY <2>3, <2>4, <2>5, <2>6, <2>7, <2>8 DEF Next
<1>. QED  BY <1>1, <1>2, PTL DEF Spec

-----------------------------------------------------------------------------
(* Under every overlap of calls.                                           *)

\* At most one retry interval fires and the server holds its handle, however
\* start(), stop() and attachRetryProcessor() overlap: a new interval is made
\* only when the handle is free, or in place of the one it names.
THEOREM OneInterval == Spec => []OneRetryInterval
<1>1. Init => OneRetryInterval
  BY DEF Init, OneRetryInterval
<1>2. OneRetryInterval /\ LifecycleTypeOK /\ [Next]_vars => OneRetryInterval'
  <2>. SUFFICES ASSUME OneRetryInterval, LifecycleTypeOK, [Next]_vars
                PROVE  OneRetryInterval'
    OBVIOUS
  <2>. USE DEF OneRetryInterval, retryVars, serverVars
  <2>1. ASSUME NEW ms, SetInterval(ms) PROVE interval' # NoTimer
    BY <2>1 DEF SetInterval, NoTimer, LifecycleTypeOK
  <2>2. CASE Start
    BY <2>2 DEF Start, StartRunning, StartBinds, StartingThrows
  <2>3. CASE Stop
    BY <2>3 DEF Stop, StopIdle, StoppingThrows, StopCloses
  <2>4. ASSUME NEW c \in Calls, Continue(c) PROVE OneRetryInterval'
    <3>1. CASE StartFinishes(c)
      BY <3>1, <2>1 DEF StartFinishes
    <3>2. CASE ~StartFinishes(c)
      BY <2>4, <3>2 DEF Continue, Bound, ListenFails, StartInterrupted, Closed,
                        StopFinishes
    <3>. QED  BY <3>1, <3>2
  <2>5. ASSUME NEW ms \in Periods, Attach(ms) PROVE OneRetryInterval'
    BY <2>5, <2>1 DEF Attach
  <2>6. ASSUME NEW client \in Clients, Connect(client) \/ Disconnect(client)
        PROVE  OneRetryInterval'
    BY <2>6 DEF Connect, Disconnect
  <2>7. CASE UNCHANGED vars
    BY <2>7 DEF vars
  <2>. QED  BY <2>2, <2>3, <2>4, <2>5, <2>6, <2>7 DEF Next
<1>. QED  BY <1>1, <1>2, LifecycleTypes, PTL DEF Spec

\* However calls overlap, the server never says it is running without a
\* dispatcher to publish to: running is set only when the fields are there,
\* and the step that drops them clears it.
THEOREM RunningHasDispatcher == Spec => []RunningPublishes
<1>1. Init => RunningPublishes
  BY DEF Init, RunningPublishes
<1>2. RunningPublishes /\ LifecycleTypeOK /\ [Next]_vars => RunningPublishes'
  <2>. SUFFICES ASSUME RunningPublishes, LifecycleTypeOK, [Next]_vars
                PROVE  RunningPublishes'
    OBVIOUS
  <2>. USE DEF RunningPublishes, serverVars
  <2>1. CASE Start
    BY <2>1 DEF Start, StartRunning, StartBinds, StartingThrows
  <2>2. CASE Stop
    BY <2>2 DEF Stop, StopIdle, StoppingThrows, StopCloses
  <2>3. ASSUME NEW c \in Calls, Continue(c) PROVE RunningPublishes'
    BY <2>3 DEF Continue, Bound, ListenFails, StartInterrupted, StartFinishes,
                Closed, StopFinishes
  <2>4. ASSUME NEW ms \in Periods, Attach(ms) PROVE RunningPublishes'
    BY <2>4 DEF Attach
  <2>5. ASSUME NEW client \in Clients, Connect(client) \/ Disconnect(client)
        PROVE  RunningPublishes'
    BY <2>5 DEF Connect, Disconnect
  <2>6. CASE UNCHANGED vars
    BY <2>6 DEF vars
  <2>. QED  BY <2>1, <2>2, <2>3, <2>4, <2>5, <2>6 DEF Next
<1>. QED  BY <1>1, <1>2, LifecycleTypes, PTL DEF Spec

-----------------------------------------------------------------------------
(* Of calls made one after the other.  Serving and Down are not inductive: *)
(* between two calls the server is in one of them, during a call it passes *)
(* through the phases below.                                               *)

\* No handler listens, nobody is connected, no interval fires.
Rested == /\ attached = {} /\ sessions = {} /\ live = {}
          /\ interval = NoTimer /\ list = None

\* Only the servers of the generations of S listen.
OnlyListening(S) == \A g \in Calls : port[g] = "listening" => g \in S

Up        == /\ Under = {} /\ running /\ Serving
             /\ \A s \in sessions : s[2] = list
AtRest    == Under = {} /\ ~running /\ Rested /\ OnlyListening({})
Starting(c) ==
  /\ Under = {c} /\ call[c].kind = "start"
  /\ ~running /\ Rested /\ current = c /\ c \notin torn
  /\ \/ call[c].stage = "binding" /\ OnlyListening({})
     \/ call[c].stage = "bound" /\ OnlyListening({c}) /\ port[c] = "listening"
Stopping(c) ==
  /\ Under = {c} /\ call[c].kind = "stop" /\ Rested
  /\ \/ call[c].stage = "closing" /\ OnlyListening({current}) /\ call[c].gen = current
     \/ call[c].stage = "closed" /\ OnlyListening({})

Phase == Up \/ AtRest \/ \E c \in Calls : Starting(c) \/ Stopping(c)

PhaseInv == ~overlapped => Phase

LEMMA BetweenCalls ==
  ASSUME Phase, Under = {}
  PROVE  IF running THEN Up ELSE AtRest
BY DEF Phase, Up, AtRest, Starting, Stopping

\* A call begins, or is over at once, when no other is under way.
LEMMA PhaseOfStart ==
  ASSUME LifecycleTypeOK, PhaseInv, Start
  PROVE  PhaseInv'
<1>. SUFFICES ASSUME ~overlapped' PROVE Phase'
  BY DEF PhaseInv
<1>1. ~overlapped /\ Under = {} /\ Phase
  BY DEF PhaseInv, Start, StartRunning, StartBinds, StartingThrows, Begin
<1>2. IF running THEN Up ELSE AtRest
  BY <1>1, BetweenCalls
<1>3. CASE StartRunning
  <2>1. Under' = {}
    BY <1>1, <1>3, BeginUnder DEF StartRunning, Ended
  <2>2. Up
    BY <1>2, <1>3 DEF StartRunning
  <2>. QED  BY <2>1, <2>2, <1>3 DEF Phase, Up, Serving, StartRunning, serverVars, retryVars
<1>4. CASE StartingThrows
  <2>1. Under' = {}
    BY <1>1, <1>4, BeginUnder DEF StartingThrows, Ended
  <2>2. AtRest
    BY <1>2, <1>4 DEF StartingThrows
  <2>. QED  BY <2>1, <2>2, <1>4 DEF Phase, AtRest, Rested, OnlyListening,
                                    StartingThrows, serverVars, retryVars
<1>5. CASE StartBinds
  <2>. PICK c : c = calls + 1
    OBVIOUS
  <2>1. Under' = {c}
    BY <1>1, <1>5, BeginUnder DEF StartBinds, Ended
  <2>2. c \in Calls /\ c \notin torn
    BY <1>5, LifecycleAssumption DEF StartBinds, Begin, LifecycleTypeOK, Calls
  <2>7. /\ call'[c].kind = "start" /\ call'[c].stage = "binding"
        /\ current' = c /\ UNCHANGED <<running, torn>>
    BY <1>5, <2>2 DEF StartBinds, Begin, LifecycleTypeOK
  <2>3. AtRest
    BY <1>2, <1>5 DEF StartBinds
  <2>4. Rested' /\ ~running'
    BY <2>3, <1>5 DEF AtRest, Rested, StartBinds, retryVars
  <2>5. OnlyListening({})'
    BY <2>3, <1>5, <2>2 DEF AtRest, OnlyListening, StartBinds, LifecycleTypeOK
  <2>6. Starting(c)'
    BY <2>1, <2>2, <2>7, <2>4, <2>5 DEF Starting
  <2>. QED  BY <2>2, <2>6 DEF Phase
<1>. QED  BY <1>3, <1>4, <1>5 DEF Start

LEMMA PhaseOfStop ==
  ASSUME LifecycleTypeOK, OneRetryInterval, PhaseInv, Stop
  PROVE  PhaseInv'
<1>. SUFFICES ASSUME ~overlapped' PROVE Phase'
  BY DEF PhaseInv
<1>1. ~overlapped /\ Under = {} /\ Phase
  BY DEF PhaseInv, Stop, StopIdle, StopCloses, StoppingThrows, Begin
<1>2. IF running THEN Up ELSE AtRest
  BY <1>1, BetweenCalls
<1>3. CASE StopIdle \/ StoppingThrows
  <2>1. Under' = {}
    BY <1>1, <1>3, BeginUnder DEF StopIdle, StoppingThrows, Ended
  <2>2. UNCHANGED <<serverVars, retryVars, port, torn>>
    BY <1>3 DEF StopIdle, StoppingThrows
  <2>3. CASE Up
    BY <2>1, <2>2, <2>3 DEF Phase, Up, Serving, serverVars, retryVars
  <2>4. CASE AtRest
    BY <2>1, <2>2, <2>4 DEF Phase, AtRest, Rested, OnlyListening, serverVars, retryVars
  <2>. QED  BY <1>2, <2>3, <2>4
<1>4. CASE StopCloses
  <2>. PICK c : c = calls + 1
    OBVIOUS
  <2>1. Under' = {c}
    BY <1>1, <1>4, BeginUnder DEF StopCloses, Ended
  <2>6. c \in Calls
    BY <1>4, LifecycleAssumption DEF StopCloses, Begin, LifecycleTypeOK, Calls
  <2>2. /\ call'[c].kind = "stop" /\ call'[c].stage = "closing"
        /\ call'[c].gen = current'
    BY <1>4, <2>6 DEF StopCloses, Begin, LifecycleTypeOK
  <2>3. Rested'
    BY <1>2, <1>4 DEF Up, Serving, AtRest, Rested, StopCloses, OneRetryInterval
  <2>4. OnlyListening({current})'
    BY <1>2, <1>4 DEF Up, Serving, AtRest, OnlyListening, StopCloses
  <2>5. Stopping(c)'
    BY <2>1, <2>2, <2>3, <2>4, <1>4 DEF Stopping, StopCloses
  <2>. QED  BY <2>6, <2>5 DEF Phase
<1>. QED  BY <1>3, <1>4 DEF Stop

\* The only call under way goes on.
LEMMA PhaseOfContinue ==
  ASSUME LifecycleTypeOK, PhaseInv, NEW c \in Calls, Continue(c)
  PROVE  PhaseInv'
<1>. SUFFICES ASSUME ~overlapped' PROVE Phase'
  BY DEF PhaseInv
<1>. USE DEF serverVars, retryVars
<1>1. Phase
  BY DEF PhaseInv, Continue, Bound, ListenFails, StartInterrupted, StartFinishes,
         Closed, StopFinishes, Goto
<1>2. call[c].stage \in {"binding", "bound", "closing", "closed"}
  BY DEF Continue, Bound, ListenFails, StartInterrupted, StartFinishes,
         Closed, StopFinishes
<1>3. c \in Under
  BY <1>2, LifecycleAssumption DEF Under, Ended, LifecycleTypeOK, Calls
<1>4. Starting(c) \/ Stopping(c)
  BY <1>1, <1>3 DEF Phase, Up, AtRest, Starting, Stopping
<1>5. Under = {c}
  BY <1>4 DEF Starting, Stopping
<1>6. ASSUME NEW stage, Goto(c, stage)
      PROVE  /\ Under' = IF stage \in Ended THEN {} ELSE {c}
             /\ call'[c] = [call[c] EXCEPT !.stage = stage]
  <2>1. call[c].stage # "none" /\ call[c].stage \notin Ended
    BY <1>2 DEF Ended
  <2>2. Under' = IF stage \in Ended THEN Under \ {c} ELSE Under
    BY <2>1, <1>6, GotoUnder
  <2>3. call'[c] = [call[c] EXCEPT !.stage = stage]
    BY <1>6 DEF Goto, LifecycleTypeOK
  <2>. QED  BY <2>2, <2>3, <1>5
<1>7. call[c] \in [kind : {"none", "start", "stop"}, stage : Stages, gen : 0..calls]
  BY DEF LifecycleTypeOK
<1>10. CASE Bound(c)
  <2>1. Starting(c) /\ Goto(c, "bound") /\ port' = [port EXCEPT ![c] = "listening"]
    BY <1>4, <1>10 DEF Bound, Starting, Stopping
  <2>2. Under' = {c} /\ call'[c].kind = "start" /\ call'[c].stage = "bound"
    <3>1. Under' = {c} /\ call'[c] = [call[c] EXCEPT !.stage = "bound"]
      BY <2>1, <1>6 DEF Ended
    <3>. QED  BY <3>1, <1>7, <1>10 DEF Bound
  <2>3. OnlyListening({c})' /\ port'[c] = "listening"
    BY <2>1, <1>10 DEF Starting, OnlyListening, LifecycleTypeOK, Bound
  <2>4. Rested' /\ ~running' /\ current' = c /\ c \notin torn'
    BY <2>1, <1>10 DEF Bound, Starting, Rested
  <2>. QED  BY <2>2, <2>3, <2>4 DEF Phase, Starting
<1>11. CASE ListenFails(c)
  <2>1. Under' = {} /\ Starting(c) /\ call[c].stage = "binding"
    BY <1>4, <1>6, <1>11 DEF ListenFails, Ended, Stopping
  <2>2. OnlyListening({})'
    BY <2>1, <1>11 DEF ListenFails, Starting, OnlyListening, LifecycleTypeOK
  <2>3. Rested' /\ ~running'
    BY <2>1, <1>11 DEF ListenFails, Starting, Rested
  <2>. QED  BY <2>1, <2>2, <2>3 DEF Phase, AtRest
<1>12. CASE StartInterrupted(c)
  BY <1>4, <1>12 DEF StartInterrupted, Starting, Stopping, None, Calls
<1>13. CASE StartFinishes(c)
  <2>1. Starting(c) /\ call[c].stage = "bound" /\ c # None
    BY <1>4, <1>13 DEF StartFinishes, Starting, Stopping, None, Calls
  <2>2. Under' = {}
    BY <1>6, <1>13 DEF StartFinishes, Ended
  <2>3. running' /\ current' = c /\ port' = port /\ period' = period /\ sessions' = {}
    BY <2>1, <1>13 DEF StartFinishes, Starting, Rested
  <2>4. attached' = {c} /\ list' = c
    BY <2>1, <1>13 DEF StartFinishes, Starting, Rested
  <2>5. handler'[c] = [io |-> c, registry |-> c]
    BY <2>1, <1>13 DEF StartFinishes, Starting, LifecycleTypeOK
  <2>6. interval' \in live' /\ interval'.ms = period'
    BY <2>1, <1>13 DEF StartFinishes, SetInterval, Starting, Rested
  <2>7. processor' # "none"
    BY <1>13 DEF StartFinishes
  <2>8. port[c] = "listening" /\ {g \in Calls : port[g] = "listening"} = {c}
    BY <2>1 DEF Starting, OnlyListening
  <2>9. Serving'
    BY <2>1, <2>3, <2>4, <2>5, <2>6, <2>7, <2>8 DEF Serving
  <2>. QED  BY <2>2, <2>3, <2>9 DEF Phase, Up
<1>14. CASE Closed(c)
  <2>1. Stopping(c) /\ call[c].stage = "closing"
    BY <1>4, <1>14 DEF Closed, Starting, Stopping
  <2>2. Under' = {c} /\ call'[c].kind = "stop" /\ call'[c].stage = "closed"
    <3>1. Goto(c, "closed")
      BY <1>14 DEF Closed
    <3>2. Under' = {c} /\ call'[c] = [call[c] EXCEPT !.stage = "closed"]
      BY <3>1, <1>6 DEF Ended
    <3>. QED  BY <3>2, <2>1, <1>7 DEF Stopping
  <2>3. OnlyListening({})'
    BY <2>1, <1>14 DEF Closed, Stopping, OnlyListening, LifecycleTypeOK
  <2>4. Rested'
    BY <2>1, <1>14 DEF Closed, Stopping, Rested
  <2>. QED  BY <2>2, <2>3, <2>4 DEF Phase, Stopping
<1>15. CASE StopFinishes(c)
  <2>1. Stopping(c) /\ call[c].stage = "closed" /\ Under' = {}
    BY <1>4, <1>6, <1>15 DEF StopFinishes, Ended, Starting
  <2>2. ~running' /\ Rested' /\ OnlyListening({})'
    BY <2>1, <1>15 DEF StopFinishes, Stopping, Rested, OnlyListening
  <2>. QED  BY <2>1, <2>2 DEF Phase, AtRest
<1>. QED  BY <1>10, <1>11, <1>12, <1>13, <1>14, <1>15 DEF Continue

LEMMA PhaseOfOthers ==
  ASSUME LifecycleTypeOK, OneRetryInterval, PhaseInv,
         \/ \E ms \in Periods : Attach(ms)
         \/ \E client \in Clients : Connect(client) \/ Disconnect(client)
         \/ UNCHANGED vars
  PROVE  PhaseInv'
<1>. SUFFICES ASSUME ~overlapped' PROVE Phase'
  BY DEF PhaseInv
<1>. USE DEF serverVars, retryVars
<1>a. UNCHANGED <<call, calls>> /\ (overlapped => overlapped')
  <2>1. ASSUME NEW ms \in Periods, Attach(ms)
        PROVE  UNCHANGED <<call, calls>> /\ (overlapped => overlapped')
    BY <2>1 DEF Attach
  <2>2. ASSUME NEW client \in Clients, Connect(client) \/ Disconnect(client)
        PROVE  UNCHANGED <<call, calls, overlapped>>
    BY <2>2 DEF Connect, Disconnect
  <2>3. ASSUME UNCHANGED vars PROVE UNCHANGED <<call, calls, overlapped>>
    BY <2>3 DEF vars
  <2>. QED  BY <2>1, <2>2, <2>3
<1>b. Under' = Under
  BY <1>a DEF Under
<1>1. ~overlapped /\ Phase /\ Under' = Under
  BY <1>a, <1>b DEF PhaseInv
<1>2. ASSUME NEW ms \in Periods, Attach(ms) PROVE Phase'
  <2>1. Under = {}
    BY <1>2, <1>1 DEF Attach
  <2>2. CASE Up
    BY <1>1, <1>2, <2>2 DEF Phase, Up, Attach, Serving, SetInterval
  <2>3. CASE AtRest
    BY <1>1, <1>2, <2>3 DEF Phase, AtRest, Attach, Rested, OnlyListening
  <2>. QED  BY <1>1, <2>1, <2>2, <2>3, BetweenCalls
<1>3. ASSUME \/ \E client \in Clients : Connect(client) \/ Disconnect(client)
             \/ UNCHANGED vars
      PROVE  Phase'
  <2>1. /\ \A s \in sessions' : s \in sessions \/ s[2] \in attached
        /\ UNCHANGED <<running, current, handler, attached, list, retryVars, port,
                       torn, call, calls>>
    BY <1>3 DEF Connect, Disconnect, vars
  <2>2. CASE Up
    <3>1. \A s \in sessions' : s[2] = list'
      BY <2>1, <2>2 DEF Up, Serving
    <3>. QED  BY <1>1, <2>1, <2>2, <3>1 DEF Phase, Up, Serving
  <2>3. ASSUME Rested PROVE Rested'
    BY <2>1, <2>3 DEF Rested
  <2>4. CASE AtRest
    BY <1>1, <2>1, <2>3, <2>4 DEF Phase, AtRest, OnlyListening
  <2>5. ASSUME NEW c \in Calls, Starting(c) PROVE Phase'
    BY <1>1, <2>1, <2>3, <2>5 DEF Phase, Starting, OnlyListening
  <2>6. ASSUME NEW c \in Calls, Stopping(c) PROVE Phase'
    BY <1>1, <2>1, <2>3, <2>6 DEF Phase, Stopping, OnlyListening
  <2>. QED  BY <1>1, <2>2, <2>4, <2>5, <2>6 DEF Phase
<1>. QED  BY <1>2, <1>3

\* What holds of the server also while a call is under way, phase by phase.
THEOREM Phases == Spec => []PhaseInv
<1>1. Init => PhaseInv
  <2>. SUFFICES ASSUME Init PROVE Phase
    BY DEF PhaseInv
  <2>1. Under = {}
    BY DEF Init, Under
  <2>. QED  BY <2>1 DEF Init, Phase, AtRest, Rested, OnlyListening
<1>2. LifecycleTypeOK /\ OneRetryInterval /\ PhaseInv /\ [Next]_vars => PhaseInv'
  BY PhaseOfStart, PhaseOfStop, PhaseOfContinue, PhaseOfOthers DEF Next
<1>. QED  BY <1>1, <1>2, LifecycleTypes, OneInterval, PTL DEF Spec

\* Calls made one after the other, with retry processors attached and clients
\* connecting at any time, leave the server all up or all down, whichever of
\* them fails at its port or at a listener.
THEOREM AllUpOrAllDown == Spec => []AllOrNothing
<1>1. PhaseInv => AllOrNothing
  <2>. SUFFICES ASSUME Phase, Under = {} PROVE IF running THEN Serving ELSE Down
    BY DEF PhaseInv, AllOrNothing
  <2>1. IF running THEN Up ELSE AtRest
    BY BetweenCalls
  <2>. QED  BY <2>1 DEF Up, AtRest, Rested, OnlyListening, Down
<1>. QED  BY <1>1, Phases, PTL

\* They never leave a session where neither publications nor acks reach it.
THEOREM NoSessionOutOfReach == Spec => []SessionsReachable
<1>1. PhaseInv => SessionsReachable
  <2>. SUFFICES ASSUME Phase, NEW s \in sessions
                PROVE  handler[s[2]].registry = current
    BY DEF PhaseInv, SessionsReachable
  <2>1. Up
    BY DEF Phase, AtRest, Starting, Stopping, Rested
  <2>. QED  BY <2>1 DEF Up, Serving
<1>. QED  BY <1>1, Phases, PTL
=============================================================================
