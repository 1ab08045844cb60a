---------------------------- MODULE CounterStrike ----------------------------
(***************************************************************************)
(* The counter-strike connector: one MQTT session kept by a timer loop,     *)
(* registration and status reports, and the strike commands a platform      *)
(* sends (internal/counterstrike).  Three threads meet here: the loop Run,   *)
(* the settings handlers (ApplySettings, Reconnect) and the MQTT client's    *)
(* callbacks.  s.mu, t.mu and controlMu make the steps below atomic; what    *)
(* the code does between two critical sections are two steps.               *)
(***************************************************************************)
EXTENDS Integers, SequencesExt

CONSTANTS
  Configs,       \* settings the operator may save: [enabled, complete, broker,
                 \* device, bands]
  Saved,         \* those of Configs the settings file may hold at start
  Requests,      \* control messages a platform may send
  Channels,      \* interference channels: [id, reserved, bands]
  MaxResponses,  \* maxIdempotencyEntries
  None,          \* no client, no settings read, no answer yet
  MaxEvents      \* bound: settings saved, reconnects asked for, control
                 \* messages delivered and faults of the broker, together

BoundsAssumption ==
  /\ MaxResponses \in Nat \ {0}
  /\ MaxEvents \in Nat /\ Saved \subseteq Configs

VARIABLES
  settings,    \* Service.settings; its fingerprint is the value itself
  generation,  \* Service.connectionGeneration
  status,      \* the fields of Service.status decisions and readers use
  subscribed,  \* Service.subscribed
  retryLater,  \* nextConnectAttemptAt lies in the future
  tick,        \* the loop's place in tick() and what it read on the way
  caller,      \* the settings handler between its lock and its Disconnect
  client,      \* pahoTransport.client: opened with, alive, topics, and whether
               \* other settings had been saved by then (late)
  up,          \* pahoTransport.connected
  lost,        \* a connection-lost callback that has not run yet
  inbox,       \* control messages received, waiting for controlMu
  control,     \* the handler that holds controlMu
  responses,   \* Service.responses in the order of responseTaskIDs
  strike,      \* channels the interference service strikes on
  events,      \* how much of MaxEvents is used
  told,        \* registrations published
  reported,    \* work state last published to each broker
  answered     \* tasks given a fresh answer, in order

conn == <<settings, generation, status, subscribed, retryLater>>
mqtt == <<client, up, lost>>
task == <<inbox, control, responses, strike, answered>>
seen == <<told, reported>>
vars == <<conn, tick, caller, mqtt, task, seen, events>>
------------------------------------------------------------------------------
\* Configuration and payloads.

Complete(cfg) == cfg.complete
Active(cfg) == cfg.enabled /\ Complete(cfg)

NoClient == [cfg |-> None, alive |-> FALSE, topics |-> {}, late |-> FALSE]
Alive == client.alive

ControlTopic(cfg) == <<"control", cfg.device>>
LegacyTopic == <<"legacy">>
Topics(cfg) == <<ControlTopic(cfg), LegacyTopic>>

\* Names of one band, as platforms and channels write them.
NormalizeBand(name) ==
  CASE name \in {"0.9", "0.915", "900", "915", "915M", "0.915G"} -> "915"
    [] name \in {"2.4", "2400", "2.4G", "2400M"} -> "2.4"
    [] name \in {"5.8", "5800", "5.8G", "5800M"} -> "5.8"
    [] OTHER -> name

MatchesBand(channel, band) ==
  \E b \in channel.bands : NormalizeBand(b) = NormalizeBand(band)

Usable == {c \in Channels : ~c.reserved}

\* The channels a command asks for: all usable ones when it names no band.
ChannelIDs(bands) ==
  {c.id : c \in {c \in Usable : bands = {} \/ \E b \in bands : MatchesBand(c, b)}}

\* Every band named must have a channel, and there must be one channel.
Unmatched(bands) ==
  IF bands = {} THEN Usable = {}
                ELSE \E b \in bands : \A c \in Usable : ~MatchesBand(c, b)

\* settingsWithRuntimeDevice: the bands the relay offers, if it offers any.
RuntimeBands(cfg) ==
  IF Usable = {} THEN cfg.bands
  ELSE {NormalizeBand(b) : b \in UNION {c.bands : c \in Usable}}

WorkState == IF strike = {} THEN 0 ELSE 1

Registration(cfg, work) ==
  [topic |-> <<"device", cfg.device>>, settings |-> cfg, bands |-> RuntimeBands(cfg),
   workState |-> work]

Unknown == -1   \* the work state of a device that never reported

Response(req, code) == [task |-> req.task, cmd |-> req.cmd, code |-> code]
------------------------------------------------------------------------------
Event == events < MaxEvents /\ events' = events + 1

\* The transport.  Connect holds t.mu throughout, so it is one step; it keeps
\* a client that is connected, whichever settings opened it.

Disconnect == client' = NoClient /\ up' = FALSE /\ UNCHANGED lost

OpenClient(cfg) ==
  /\ client' = IF Alive THEN client
               ELSE [cfg |-> cfg, alive |-> TRUE, topics |-> {}, late |-> cfg # settings]
  /\ up' = TRUE
  /\ UNCHANGED <<lost, events>>

OpenFails ==
  /\ ~Alive /\ Event
  /\ client' = NoClient
  /\ UNCHANGED <<up, lost>>

\* A call on the session fails without a live client, or for a fault.
CallFails ==
  \/ ~Alive /\ UNCHANGED events
  \/ Alive /\ Event

ConnectionLost ==
  /\ lost /\ lost' = FALSE /\ up' = FALSE
  /\ UNCHANGED <<conn, tick, caller, client, task, seen, events>>

\* The broker or the network ends a session.
BrokerDrops ==
  /\ Alive /\ ~lost /\ Event
  /\ client' = [client EXCEPT !.alive = FALSE]
  /\ lost' = TRUE
  /\ UNCHANGED <<conn, tick, caller, up, task, seen>>
------------------------------------------------------------------------------
\* Settings handlers.

ApplySettings(cfg) ==
  /\ caller = "idle" /\ Event
  /\ settings' = cfg
  /\ IF cfg = settings
     THEN /\ UNCHANGED <<generation, status, subscribed, retryLater, caller>>
     ELSE /\ generation' = generation + 1
          /\ subscribed' = FALSE /\ retryLater' = FALSE
          /\ status' = [connected |-> FALSE, connecting |-> Active(cfg),
                        registered |-> "never", stated |-> "never"]
          /\ caller' = "disconnect"
  /\ UNCHANGED <<tick, mqtt, task, seen>>

Reconnect ==
  /\ caller = "idle" /\ Event
  /\ Active(settings)
  /\ generation' = generation + 1
  /\ subscribed' = FALSE /\ retryLater' = FALSE
  /\ status' = [status EXCEPT !.connected = FALSE, !.connecting = TRUE]
  /\ caller' = "disconnect"
  /\ UNCHANGED <<settings, tick, mqtt, task, seen>>

\* Mutant: the session is left to the loop.
CallerOnlyWakes ==
  /\ caller = "disconnect" /\ caller' = "idle"
  /\ UNCHANGED <<conn, tick, mqtt, task, seen, events>>

\* Both leave s.mu before they close the session and wake the loop.
CallerDisconnects ==
  /\ caller = "disconnect" /\ caller' = "idle"
  /\ Disconnect
  /\ UNCHANGED <<conn, tick, task, seen, events>>
------------------------------------------------------------------------------
\* tick, as the loop runs it: at a wake-up or once a second.

\* tick reads settings and generation together, and every section below
\* gives up when the generation has moved: that is a tick that did nothing, so
\* the reading and the first section are one step.  So are a call on the
\* transport and the look at the generation after it: settings saved between
\* the two might as well be saved before the call.

Current == tick.generation = generation
Goto(pc) == tick' = [tick EXCEPT !.pc = pc]
At(pc) == tick.pc = pc

Idle == [pc |-> "idle", settings |-> None, generation |-> 0, topic |-> 1,
         work |-> 0, register |-> FALSE, state |-> FALSE]

\* Back to the select: the values read are gone.
Return == tick' = Idle
GotoIfCurrent(pc) == IF Current THEN Goto(pc) ELSE Return

SetState(connected, connecting) ==
  status' = IF Current THEN [status EXCEPT !.connected = connected,
                                           !.connecting = connecting]
                       ELSE status

Begin(pc) == tick' = [Idle EXCEPT !.pc = pc, !.settings = settings,
                                  !.generation = generation]

TickInactive ==
  /\ At("idle") /\ ~Active(settings) /\ Disconnect
  /\ status' = [status EXCEPT !.connected = FALSE, !.connecting = FALSE]
  /\ UNCHANGED <<settings, generation, subscribed, retryLater, tick, caller,
                 task, seen, events>>

\* Mutant: the subscriptions of the old session are taken for those of the new.
KeepSubscriptions == UNCHANGED subscribed

ResetSubscriptions == subscribed' = FALSE

\* A session that is not up is opened anew, without subscriptions, unless the
\* retry has to wait.
TickBegin ==
  /\ At("idle") /\ Active(settings)
  /\ \/ up /\ Begin("ensure") /\ UNCHANGED <<subscribed, status>>
     \/ /\ ~up /\ ~retryLater /\ Begin("connect") /\ ResetSubscriptions
        /\ status' = [status EXCEPT !.connected = FALSE, !.connecting = TRUE]
  /\ UNCHANGED <<settings, generation, retryLater, caller, mqtt, task, seen, events>>

SetConnectFailure ==
  /\ SetState(FALSE, FALSE)
  /\ retryLater' = IF Current THEN TRUE ELSE retryLater

TickConnect ==
  /\ At("connect")
  /\ \/ OpenClient(tick.settings) /\ GotoIfCurrent("ensure")
        /\ UNCHANGED <<status, retryLater>>
     \/ OpenFails /\ Return /\ SetConnectFailure
  /\ UNCHANGED <<settings, generation, subscribed, caller, task, seen>>

TickEnsure ==
  /\ At("ensure")
  /\ GotoIfCurrent(IF subscribed THEN "success" ELSE "subscribe")
  /\ UNCHANGED <<conn, caller, mqtt, task, seen, events>>

TickSubscribe ==
  /\ At("subscribe")
  /\ \/ /\ Alive /\ UNCHANGED events
        /\ IF Current /\ tick.topic = 1 THEN tick' = [tick EXCEPT !.topic = 2]
                                         ELSE GotoIfCurrent("success")
        /\ client' = [client EXCEPT !.topics = @ \cup {Topics(tick.settings)[tick.topic]}]
     \/ CallFails /\ GotoIfCurrent("refused") /\ UNCHANGED client
  /\ UNCHANGED <<conn, caller, up, lost, task, seen>>

TickRefused ==
  /\ At("refused") /\ Disconnect /\ Return /\ SetConnectFailure
  /\ UNCHANGED <<settings, generation, subscribed, caller, task, seen, events>>

\* ensureSubscriptions' last section and setConnectionSuccess, both guarded.
TickSuccess ==
  /\ At("success")
  /\ IF Current
     THEN /\ subscribed' = TRUE /\ retryLater' = FALSE
          /\ SetState(TRUE, FALSE) /\ Goto("read")
     ELSE Return /\ UNCHANGED <<subscribed, retryLater, status>>
  /\ UNCHANGED <<settings, generation, caller, mqtt, task, seen, events>>

\* Mutant: a late answer is booked for the settings saved meanwhile.
MarkLate(f) == status' = [status EXCEPT ![f] = "recent"]

\* A report is booked only for the settings it was made from.
Mark(f) == status' = IF Current THEN [status EXCEPT ![f] = "recent"] ELSE status

Due(last) == last \in {"never", "due"}

\* Status() is read once, for both reports and for their work state.
TickRead ==
  /\ At("read")
  /\ tick' = [tick EXCEPT !.pc = "register", !.work = WorkState,
                          !.register = Due(status.registered),
                          !.state = Due(status.stated)]
  /\ UNCHANGED <<conn, caller, mqtt, task, seen, events>>

TickRegister ==
  /\ At("register")
  /\ \/ ~tick.register /\ Goto("state") /\ UNCHANGED <<told, events>>
     \/ /\ tick.register /\ Alive /\ Goto("registered")
        /\ told' = told \cup {Registration(tick.settings, tick.work)} /\ UNCHANGED events
     \/ tick.register /\ CallFails /\ Goto("state") /\ UNCHANGED told
  /\ UNCHANGED <<conn, caller, mqtt, task, reported>>

MarkRegistered ==
  /\ At("registered") /\ Goto("state")
  /\ Mark("registered")
  /\ UNCHANGED <<settings, generation, subscribed, retryLater, caller,
                 mqtt, task, seen, events>>

TickState ==
  /\ At("state")
  /\ \/ ~tick.state /\ Return /\ UNCHANGED <<reported, events>>
     \/ /\ tick.state /\ Alive /\ Goto("stated") /\ UNCHANGED events
        /\ reported' = [reported EXCEPT ![client.cfg.broker] = tick.work]
     \/ tick.state /\ CallFails /\ Return /\ UNCHANGED reported
  /\ UNCHANGED <<conn, caller, mqtt, task, told>>

MarkStated ==
  /\ At("stated") /\ Return
  /\ Mark("stated")
  /\ UNCHANGED <<settings, generation, subscribed, retryLater, caller,
                 mqtt, task, seen, events>>

\* The retry delay and the report intervals pass.
RetryDue ==
  /\ retryLater /\ retryLater' = FALSE
  /\ UNCHANGED <<settings, generation, status, subscribed, tick, caller,
                 mqtt, task, seen, events>>

ReportDue(f) ==
  /\ status[f] = "recent" /\ status' = [status EXCEPT ![f] = "due"]
  /\ UNCHANGED <<settings, generation, subscribed, retryLater, tick, caller,
                 mqtt, task, seen, events>>

------------------------------------------------------------------------------
\* Strike commands.

Free == [pc |-> "free", settings |-> None, answer |-> None,
         fresh |-> FALSE]

\* The broker delivers a request on a topic of the live session; QoS 1 may
\* deliver it again.
Deliver(topic, req) ==
  /\ Alive /\ topic \in client.topics
  /\ Event
  /\ inbox' = inbox \cup {<<topic, req>>}
  /\ UNCHANGED <<conn, tick, caller, mqtt, control, responses, strike,
                 answered, seen>>

Remembered(t) == \E i \in 1..Len(responses) : responses[i].task = t
Answer(t) == SelectInSeq(responses, LAMBDA r : r.task = t)

Addressed(cfg, req) == req.device = cfg.device

\* Mutant: an answer makes room one place too early.
RememberShort(answer) ==
  LET longer == Append(responses, answer)
  IN  IF answer.task = "" \/ Remembered(answer.task) THEN responses
      ELSE IF Len(longer) >= MaxResponses THEN Tail(longer) ELSE longer

\* rememberResponse: the oldest answer makes room.
Remember(answer) ==
  LET longer == Append(responses, answer)
  IN  IF answer.task = "" \/ Remembered(answer.task) THEN responses
      ELSE IF Len(longer) > MaxResponses THEN Tail(longer) ELSE longer

\* executeControl's refusals before it reaches the interference service.
Refused(cfg, req) ==
  \/ req.task = "" \/ ~Addressed(cfg, req)
  \/ req.cmd \notin {"open", "close"}
  \/ req.cmd = "open" /\ (req.power \/ Unmatched(req.bands))

\* A message that gets no answer: garbled or for another device, on the
\* topic all devices share.
Ignored(cfg, topic, req) ==
  topic = LegacyTopic /\ (req.garbled \/ ~Addressed(cfg, req))

HandleControl ==
  /\ control.pc = "free"
  /\ \E m \in inbox : LET req == m[2] IN
       /\ inbox' = inbox \ {m}
       /\ \/ Ignored(settings, m[1], req) /\ UNCHANGED control
          \/ /\ ~Ignored(settings, m[1], req)
             /\ req.garbled \/ Remembered(req.task)
             /\ control' = [Free EXCEPT !.pc = "answer",
                  !.answer = IF req.garbled THEN Response(req, 1)
                                            ELSE responses[Answer(req.task)]]
          \/ /\ ~Ignored(settings, m[1], req)
             /\ ~req.garbled /\ ~Remembered(req.task)
             /\ control' = [Free EXCEPT !.pc = "execute", !.settings = settings,
                                        !.answer = req, !.fresh = TRUE]
  /\ UNCHANGED <<conn, tick, caller, mqtt, responses, strike, answered,
                 seen, events>>

\* SetScreenStrike may refuse, and then changes nothing.
Execute(req, code) ==
  \/ code = 1 /\ UNCHANGED strike
  \/ /\ code = 0 /\ ~Refused(control.settings, req)
     /\ strike' = IF req.cmd = "open" THEN ChannelIDs(req.bands) ELSE {}

ExecuteControl ==
  /\ control.pc = "execute"
  /\ \E code \in {0, 1} :
       /\ Execute(control.answer, code)
       /\ LET answer == Response(control.answer, code)
          IN  /\ responses' = Remember(answer)
              /\ answered' = Append(answered, answer.task)
              /\ control' = [control EXCEPT !.pc = "answer", !.answer = answer]
  /\ UNCHANGED <<conn, tick, caller, mqtt, inbox, seen, events>>

\* publishControlResponse: tried once, on whatever session there is.
AnswerControl ==
  /\ control.pc = "answer"
  /\ \/ Alive /\ UNCHANGED events
     \/ CallFails
  /\ control' = IF control.fresh THEN [control EXCEPT !.pc = "mark"] ELSE Free
  /\ UNCHANGED <<conn, tick, caller, mqtt, inbox, responses, strike,
                 answered, seen>>

\* A command just executed makes the next status report due at once.
ControlDone ==
  /\ control.pc = "mark" /\ control' = Free
  /\ status' = [status EXCEPT !.stated = "never"]
  /\ UNCHANGED <<settings, generation, subscribed, retryLater, tick, caller,
                 mqtt, inbox, responses, strike, answered, seen, events>>

\* The strike ends by its timer or at the screen; the connector is not told.
StrikeEnds ==
  /\ strike # {} /\ strike' = {}
  /\ UNCHANGED <<conn, tick, caller, mqtt, inbox, control, responses,
                 answered, seen, events>>
------------------------------------------------------------------------------
Init ==
  /\ settings \in Saved /\ generation = 1
  /\ status = [connected |-> FALSE, connecting |-> Active(settings),
               registered |-> "never", stated |-> "never"]
  /\ subscribed = FALSE /\ retryLater = FALSE
  /\ tick = Idle /\ caller = "idle"
  /\ client = NoClient /\ up = FALSE /\ lost = FALSE
  /\ inbox = {} /\ control = Free /\ responses = <<>> /\ strike = {}
  /\ events = 0
  /\ told = {} /\ reported = [b \in {c.broker : c \in Configs} |-> Unknown]
  /\ answered = <<>>

Handlers == (\E cfg \in Configs : ApplySettings(cfg)) \/ Reconnect
Loop ==
  \/ TickInactive \/ TickBegin \/ TickConnect \/ TickEnsure
  \/ TickSubscribe \/ TickRefused \/ TickSuccess \/ TickRead \/ TickRegister
  \/ MarkRegistered \/ TickState \/ MarkStated
Control == HandleControl \/ ExecuteControl \/ AnswerControl \/ ControlDone
Deliveries == \E t \in client.topics, r \in Requests : Deliver(t, r)
Time == RetryDue \/ ReportDue("registered") \/ ReportDue("stated")

Next ==
  \/ Handlers \/ CallerDisconnects \/ Loop \/ Control \/ Time
  \/ Deliveries \/ ConnectionLost \/ BrokerDrops \/ StrikeEnds

\* The runtime runs the loop, the handlers it has entered and the client's
\* callbacks, and time passes; nothing else is owed.
Fairness ==
  /\ WF_vars(Loop) /\ WF_vars(CallerDisconnects) /\ WF_vars(Control)
  /\ WF_vars(ConnectionLost)
  /\ WF_vars(RetryDue) /\ \A f \in {"registered", "stated"} : WF_vars(ReportDue(f))

Spec == Init /\ [][Next]_vars
FairSpec == Spec /\ Fairness
------------------------------------------------------------------------------
TypeOK ==
  /\ settings \in Configs /\ generation \in Nat
  /\ status \in [connected : BOOLEAN, connecting : BOOLEAN,
                 registered : {"never", "recent", "due"},
                 stated : {"never", "recent", "due"}]
  /\ {subscribed, retryLater, up, lost} \subseteq BOOLEAN
  /\ tick.settings \in Configs \cup {None} /\ tick.generation \in 0..generation
  /\ caller \in {"idle", "disconnect"}
  /\ client.cfg \in Configs \cup {None}
  /\ Len(responses) <= MaxResponses
  /\ strike \subseteq {c.id : c \in Usable}
  /\ \A r \in told : r.settings \in Configs

\* While the connector says it is connected and the session is alive, both
\* control topics of the saved device are subscribed on that very session
\* (ensureSubscriptions, resetSubscriptions, the generation checks).
ControlChannelOpen ==
  status.connected /\ Alive
     => {Topics(settings)[i] : i \in 1..2} \subseteq client.topics

\* A registration time is kept only for settings whose registration went out:
\* an answer that comes after the settings changed must not be booked for the
\* new ones (the generation check in tick's callbacks).
RegisteredMeansTold ==
  status.registered # "never" => \E work \in {0, 1} : Registration(settings, work) \in told

\* A command delivered again is executed again only after MaxResponses other
\* tasks were answered in between, whichever settings were saved meanwhile
\* (controlMu, rememberResponse).
ExecutedOnce ==
  \A i, j \in 1..Len(answered) :
    i < j /\ answered[i] = answered[j] /\ answered[i] # ""
      => Cardinality({answered[k] : k \in (i + 1)..(j - 1)}) >= MaxResponses

\* What an enabled connector settles in: connected, its broker last told the
\* real work state, on a session of the saved settings, whichever were saved
\* meanwhile.  Only a session that was opened with settings already replaced
\* may stay instead (SessionMatchesSettings).
Converged ==
  Active(settings) =>
    /\ status.connected /\ Alive
    /\ client.cfg = settings \/ client.late
    /\ reported[client.cfg.broker] = WorkState

\* The session the connector reports as connected was opened with the saved
\* settings (user-manual.md:470, 513).
SessionMatchesSettings ==
  status.connected /\ Alive => client.cfg = settings
==============================================================================
