------------------------------- MODULE Lingyun -------------------------------
(***************************************************************************)
(* The Lingyun connector (internal/lingyun): logical devices that report    *)
(* targets to a platform over one MQTT session.  One loop receives the      *)
(* store's events and runs tick; tick starts one publishing goroutine per   *)
(* device; controls arrive on the MQTT client's goroutine; the operator     *)
(* saves settings or asks for a reconnect.  Unlike the counter-strike       *)
(* connector its MQTT client reconnects by itself (SetAutoReconnect).       *)
(***************************************************************************)
EXTENDS Integers, Sequences, FiniteSets

CONSTANTS
  Devices,     \* logical devices: [type, sensing]
  Configs,     \* settings: [enabled, complete, broker, devices]
  Saved,       \* those of Configs the settings file may hold at start
  Targets,     \* targets: [id, source, located]
  Requests,    \* controls: [valid, cmd, op, bands]
  Channels,    \* interference channels: [id, reserved, bands]
  None,        \* no client, no job, nothing read
  QueueLimit,  \* capacity of the event channel
  MaxEvents    \* bound: changes from outside the connector, all together

LimitAssumption == Saved \subseteq Configs /\ QueueLimit \in Nat \ {0} /\ MaxEvents \in Nat

VARIABLES
  settings, generation,    \* Service.settings (its own fingerprint), connectionGeneration
  connected, subscribed, seeded, retryLater,
  due,        \* <<device, report>> whose interval has passed
  reporting,  \* devices whose ReportingEnabled holds
  pending,    \* <<device, target>> waiting to be published
  inFlight,   \* device |-> key of the job that publishes for it
  jobs,       \* the publishing goroutines
  tick, caller, control,   \* the loop, a settings handler, the control handler
  client, up, lost,        \* the MQTT client, transport.connected, late callback
  queue, live, strike,     \* the store's channel and targets, the jammer
  events,                  \* how much of MaxEvents is used
  owed        \* objects taken in for reporting and not published since

conn == <<settings, generation, connected, subscribed, seeded, retryLater>>
device == <<due, reporting, pending, inFlight>>
mqtt == <<client, up, lost>>
world == <<queue, live, strike>>
vars == <<conn, device, jobs, tick, caller, control, mqtt, world, events, owed>>

Event == events < MaxEvents /\ events' = events + 1
------------------------------------------------------------------------------
\* Configuration, topics, payloads.

Complete(cfg) == cfg.complete /\ cfg.devices # {}
Active(cfg) == cfg.enabled /\ Complete(cfg)
Topics(cfg) == {<<"device_control", d.type>> : d \in cfg.devices}
Reports(d) == {"register", "status"} \cup IF d.sensing THEN {"data"} ELSE {}

IsPositionSource(source, type) ==
  type \in {"dcd", "remoteid"} /\ source \in {"RID", "RID_GB46750", "dji_o3", "dji_o4"}

ProjectPosition(t, d) == IsPositionSource(t.source, d.type) /\ t.located
ProjectAOA(t, d) == d.type = "aoa" /\ t.source = "fpv"
Projects(t, d) == ProjectPosition(t, d) \/ ProjectAOA(t, d)

Usable == {c \in Channels : ~c.reserved}
NormalizeBand(b) == IF b \in {"2.4G", "2400M", "2.4"} THEN "2.4" ELSE b
MatchesBand(c, b) == \E x \in c.bands : NormalizeBand(x) = NormalizeBand(b)
ChannelIDs(bands) ==
  {c.id : c \in {c \in Usable : bands = {} \/ \E b \in bands : MatchesBand(c, b)}}
Unmatched(bands) ==
  \/ ChannelIDs(bands) = {}
  \/ \E b \in bands : \A c \in Usable : ~MatchesBand(c, b)
------------------------------------------------------------------------------
\* The transport and the MQTT library behind it.

NoClient == [cfg |-> None, state |-> "none", topics |-> {}, first |-> TRUE, late |-> FALSE]
Open == client.state = "open"

Disconnect == client' = NoClient /\ up' = FALSE /\ UNCHANGED lost

\* A call fails without an open session, which a missing client also marks.
CallFails ==
  /\ IF Open THEN Event ELSE UNCHANGED events
  /\ up' = IF client.state = "none" THEN FALSE ELSE up

CallSucceeds == Open /\ UNCHANGED <<up, events>>

\* Connect keeps a client the library still counts as connected, whichever
\* settings opened it; a client that reconnects counts.
OpenClient(cfg) ==
  /\ client' = IF client.state = "none"
               THEN [cfg |-> cfg, state |-> "open", topics |-> {}, first |-> TRUE,
                     late |-> cfg # settings]
               ELSE client
  /\ up' = TRUE
  /\ UNCHANGED <<lost, events>>

OpenFails ==
  /\ client.state = "none" /\ Event
  /\ up' = FALSE /\ UNCHANGED <<client, lost>>

\* The session ends; the library starts to reconnect.
BrokerDrops ==
  /\ Open /\ ~lost /\ Event
  /\ client' = [client EXCEPT !.state = "reconnecting", !.topics = {}, !.first = FALSE]
  /\ lost' = TRUE
  /\ UNCHANGED <<conn, device, jobs, tick, caller, control, up, world, owed>>

OnConnectionLost ==
  /\ lost /\ lost' = FALSE /\ up' = FALSE
  /\ UNCHANGED <<conn, device, jobs, tick, caller, control, client, world, events, owed>>

\* A clean session comes back without its subscriptions.
LibraryReconnects ==
  /\ client.state = "reconnecting"
  /\ client' = [client EXCEPT !.state = "open"] /\ up' = TRUE
  /\ UNCHANGED <<conn, device, jobs, tick, caller, control, lost, world, events, owed>>
------------------------------------------------------------------------------
\* Settings handlers.

Everything ==
  {x \in Devices \X {"register", "status", "data"} : x[2] \in Reports(x[1])}

ApplySettings(cfg) ==
  /\ caller = "idle" /\ Event
  /\ settings' = cfg
  /\ IF cfg = settings
     THEN UNCHANGED <<generation, connected, subscribed, seeded, retryLater,
                      due, pending, owed, caller>>
     ELSE /\ generation' = generation + 1
          /\ connected' = FALSE /\ subscribed' = FALSE /\ seeded' = FALSE
          /\ retryLater' = FALSE
          /\ due' = Everything /\ pending' = {} /\ owed' = {}
          /\ caller' = "disconnect"
  /\ UNCHANGED <<reporting, inFlight, jobs, tick, control, mqtt, world>>

Reconnect ==
  /\ caller = "idle" /\ Active(settings) /\ Event
  /\ generation' = generation + 1
  /\ connected' = FALSE /\ subscribed' = FALSE /\ seeded' = FALSE
  /\ retryLater' = FALSE
  /\ caller' = "disconnect"
  /\ UNCHANGED <<settings, device, jobs, tick, control, mqtt, world, owed>>

CallerDisconnects ==
  /\ caller = "disconnect" /\ caller' = "idle" /\ Disconnect
  /\ UNCHANGED <<conn, device, jobs, tick, control, world, events, owed>>
------------------------------------------------------------------------------
\* The loop: tick.

\* tick reads settings and generation together, and gives up when the
\* generation has moved: that is a tick that did nothing, so the reading and
\* the first section that depends on it are one step.  So are a call on the
\* transport and the look at the generation after it: settings saved between
\* the two might as well be saved before the call.

Idle == [pc |-> "idle", settings |-> None, generation |-> 0]
At(pc) == tick.pc = pc
Goto(pc) == tick' = [tick EXCEPT !.pc = pc]
Return == tick' = Idle
Current == tick.generation = generation

\* Disabled or incomplete: the session is closed, markDisconnected; only a
\* disabled connector forgets what it collected.
TickInactive ==
  /\ At("idle") /\ ~Active(settings) /\ Disconnect
  /\ connected' = FALSE /\ subscribed' = FALSE /\ seeded' = FALSE
  /\ retryLater' = FALSE
  /\ IF settings.enabled THEN UNCHANGED <<pending, owed>>
                         ELSE pending' = {} /\ owed' = {}
  /\ UNCHANGED <<settings, generation, due, reporting, inFlight, jobs, tick,
                 caller, control, world, events>>

\* setConnecting says "not connected" of a session that may well be.
TickBegin ==
  /\ At("idle") /\ Active(settings) /\ (up \/ ~retryLater)
  /\ tick' = [pc |-> "connect", settings |-> settings, generation |-> generation]
  /\ connected' = FALSE
  /\ UNCHANGED <<settings, generation, subscribed, seeded, retryLater, device,
                 jobs, caller, control, mqtt, world, events, owed>>

\* isSeeded and what follows from it.
AfterConnect == IF seeded THEN "jobs" ELSE "seed"

\* connect: a session that is up and subscribed is kept.
TickKeep ==
  /\ At("connect") /\ Current /\ up /\ subscribed
  /\ connected' = TRUE /\ retryLater' = FALSE /\ Goto(AfterConnect)
  /\ UNCHANGED <<settings, generation, subscribed, seeded, device, jobs, caller,
                 control, mqtt, world, events, owed>>

GotoIfCurrent(pc) == IF Current THEN Goto(pc) ELSE Return

TickConnect ==
  /\ At("connect") /\ ~(Current /\ up /\ subscribed)
  /\ \/ ~Current /\ Return /\ UNCHANGED <<mqtt, events>>
     \/ OpenClient(tick.settings) /\ GotoIfCurrent("subscribe")
     \/ OpenFails /\ GotoIfCurrent("refused")
  /\ UNCHANGED <<conn, device, jobs, caller, control, world, owed>>

\* subscribeControls asks for all topics at once and fails when one fails.
TickSubscribe ==
  /\ At("subscribe")
  /\ \/ /\ CallSucceeds /\ GotoIfCurrent(AfterConnect)
        /\ client' = [client EXCEPT !.topics = @ \cup Topics(tick.settings)]
        /\ IF Current
           THEN subscribed' = TRUE /\ connected' = TRUE /\ retryLater' = FALSE
           ELSE UNCHANGED <<subscribed, connected, retryLater>>
     \/ /\ CallFails /\ GotoIfCurrent("refused")
        /\ UNCHANGED <<client, subscribed, connected, retryLater>>
  /\ UNCHANGED <<settings, generation, seeded, device, jobs, caller, control,
                 lost, world, owed>>

\* Whatever session there is by now is closed; setConnectFailure.
TickRefused ==
  /\ At("refused") /\ Disconnect /\ Return
  /\ connected' = IF Current THEN FALSE ELSE connected
  /\ retryLater' = IF Current THEN TRUE ELSE retryLater
  /\ UNCHANGED <<settings, generation, subscribed, seeded, device, jobs, caller,
                 control, world, events, owed>>

Accepts(cfg, d) == d \in cfg.devices /\ d \in reporting
ObjectsFor(cfg, ts) ==
  {o \in cfg.devices \X ts : Accepts(cfg, o[1]) /\ Projects(o[2], o[1])}
AddPending(objects) == pending' = pending \cup objects /\ owed' = owed \cup objects

SeedCurrentTargets ==
  /\ At("seed") /\ Goto("seeded")
  /\ AddPending(ObjectsFor(tick.settings, live))
  /\ UNCHANGED <<conn, due, reporting, inFlight, jobs, caller, control, mqtt,
                 world, events>>

SetSeeded ==
  /\ At("seeded")
  /\ IF Current THEN seeded' = TRUE /\ Goto("jobs") ELSE UNCHANGED seeded /\ Return
  /\ UNCHANGED <<settings, generation, connected, subscribed, retryLater, device,
                 jobs, caller, control, mqtt, world, events, owed>>

\* The key is read now, the settings were read when the tick began.
Job(d) == [device |-> d, settings |-> tick.settings, key |-> settings,
           do |-> {r \in Reports(d) : <<d, r>> \in due}, marks |-> FALSE,
           objects |-> {}]

TryStart(d) == Job(d).do # {} /\ inFlight[d] # settings

PublishDeviceJobs ==
  /\ At("jobs") /\ Return
  /\ LET starting == {d \in tick.settings.devices : TryStart(d)}
     IN  /\ jobs' = jobs \cup {Job(d) : d \in starting}
         /\ inFlight' = [d \in Devices |-> IF d \in starting THEN settings ELSE inFlight[d]]
  /\ UNCHANGED <<conn, due, reporting, pending, caller, control, mqtt, world,
                 events, owed>>
------------------------------------------------------------------------------
\* A job's goroutine: registration, status, data, those that are due, each
\* only while the settings are still the job's.

KeyMatches(j) == j.key = settings
Report(j) == IF "register" \in j.do THEN "register"
             ELSE IF "status" \in j.do THEN "status" ELSE "data"
Doing(j, r) == Report(j) = r /\ KeyMatches(j) /\ ~j.marks /\ j.objects = {}

\* finishDevicePublishJob: only the job that holds the place gives it up.
Finish(j) ==
  /\ jobs' = jobs \ {j}
  /\ inFlight' = IF inFlight[j.device] = j.key THEN [inFlight EXCEPT ![j.device] = None]
                                               ELSE inFlight
Change(j, k) == jobs' = (jobs \ {j}) \cup {k} /\ UNCHANGED inFlight

\* On to the report after r, or the end.
Done(j, r) ==
  IF j.do = {r} THEN Finish(j)
  ELSE Change(j, [j EXCEPT !.do = @ \ {r}, !.marks = FALSE])

MarkPublished(j, r) == due' = IF KeyMatches(j) THEN due \ {<<j.device, r>>} ELSE due

Abandon(j) ==
  /\ ~KeyMatches(j) /\ ~j.marks /\ j.objects = {} /\ Finish(j)
  /\ UNCHANGED <<conn, due, reporting, pending, tick, caller, control, mqtt,
                 world, events, owed>>

\* Sent and marked; no step in between changes what a mark then does.
PublishRegistration(j) ==
  /\ Doing(j, "register") /\ Done(j, "register")
  /\ \/ CallSucceeds /\ MarkPublished(j, "register")
     \/ CallFails /\ UNCHANGED due
  /\ UNCHANGED <<conn, reporting, pending, tick, caller, control, client, lost,
                 world, owed>>

\* A status forced between sending and marking is marked away.
PublishStatus(j) ==
  /\ Doing(j, "status")
  /\ \/ CallSucceeds /\ Change(j, [j EXCEPT !.marks = TRUE])
     \/ CallFails /\ Done(j, "status")
  /\ UNCHANGED <<conn, due, reporting, pending, tick, caller, control, client,
                 lost, world, owed>>

MarkStatus(j) ==
  /\ j.marks /\ Done(j, "status") /\ MarkPublished(j, "status")
  /\ UNCHANGED <<conn, reporting, pending, tick, caller, control, mqtt, world,
                 events, owed>>

PendingOf(d) == {p \in pending : p[1] = d}

PopPending(j) ==
  /\ Doing(j, "data")
  /\ IF PendingOf(j.device) = {} THEN Finish(j)
     ELSE Change(j, [j EXCEPT !.objects = PendingOf(j.device)])
  /\ pending' = pending \ PendingOf(j.device)
  /\ UNCHANGED <<conn, due, reporting, tick, caller, control, mqtt, world, events, owed>>

\* Mutant: what a failed publication held is dropped.
RestoreNothing(j) == UNCHANGED pending

\* What a failed publication held goes back, whatever happened meanwhile.
RestorePending(j) == pending' = pending \cup j.objects

FlushDevice(j) ==
  /\ j.objects # {} /\ Finish(j)
  /\ \/ /\ j.device \notin reporting /\ owed' = owed \ j.objects
        /\ UNCHANGED <<due, pending, up, events>>
     \/ /\ j.device \in reporting /\ CallSucceeds
        /\ MarkPublished(j, "data") /\ owed' = owed \ j.objects /\ UNCHANGED pending
     \/ /\ j.device \in reporting /\ CallFails
        /\ RestorePending(j) /\ UNCHANGED <<due, owed>>
  /\ UNCHANGED <<conn, reporting, tick, caller, control, client, lost, world>>

\* Time passes between ticks: only a tick reads what it changes.  Intervals
\* that end while jobs run end with the last of them.
IntervalsPass(d) ==
  /\ At("idle") /\ d \in settings.devices /\ jobs = {} /\ due' = due \cup ({d} \X Reports(d)) /\ due' # due
  /\ UNCHANGED <<conn, reporting, pending, inFlight, jobs, tick, caller, control,
                 mqtt, world, events, owed>>

RetryDue ==
  /\ retryLater /\ retryLater' = FALSE
  /\ UNCHANGED <<settings, generation, connected, subscribed, seeded, device,
                 jobs, tick, caller, control, mqtt, world, events, owed>>
------------------------------------------------------------------------------
\* Mutant: the channel is not bounded.
AnnounceAlways(e) == queue' = Append(queue, e)

\* The store and the jammer, and the loop's handling of what they announce.

Announce(e) == queue' = IF Len(queue) < QueueLimit THEN Append(queue, e) ELSE queue

TargetSeen(t) ==
  /\ Event /\ live' = live \cup {t} /\ Announce([kind |-> "target", target |-> t])
  /\ UNCHANGED <<conn, device, jobs, tick, caller, control, mqtt, strike, owed>>

StrikeChanges ==
  /\ Event /\ strike' = IF strike = {} THEN ChannelIDs({}) ELSE {}
  /\ Announce([kind |-> "strike", target |-> None])
  /\ UNCHANGED <<conn, device, jobs, tick, caller, control, mqtt, live, owed>>

ForceStatusDue == due' = due \cup {<<d, "status">> : d \in {d \in Devices : ~d.sensing}}

HandleEvent ==
  /\ At("idle") /\ queue # <<>> /\ queue' = Tail(queue)
  /\ LET e == Head(queue) IN
       \/ ~settings.enabled /\ UNCHANGED <<due, pending, owed>>
       \/ /\ settings.enabled /\ e.kind = "target"
          /\ AddPending(ObjectsFor(settings, {e.target})) /\ UNCHANGED due
       \/ settings.enabled /\ e.kind = "strike" /\ ForceStatusDue /\ UNCHANGED <<pending, owed>>
  /\ UNCHANGED <<conn, reporting, inFlight, jobs, tick, caller, control, mqtt,
                 live, strike, events>>
------------------------------------------------------------------------------
\* Controls from the platform.

SetReporting(d, on) ==
  IF on
  THEN reporting' = reporting \cup {d} /\ seeded' = FALSE /\ UNCHANGED <<pending, owed>>
  ELSE /\ reporting' = reporting \ {d} /\ UNCHANGED seeded
       /\ pending' = pending \ PendingOf(d)
       /\ owed' = {o \in owed : o[1] # d}

Supported(req) == req.valid /\ req.cmd /\ req.op \in {0, 1}

\* The interference service may refuse; a refusal changes nothing.
InterferenceControl(req) ==
  \/ UNCHANGED <<strike, due>>
  \/ /\ req.op = 0 \/ ~Unmatched(req.bands)
     /\ strike' = IF req.op = 0 THEN {} ELSE ChannelIDs(req.bands)
     /\ ForceStatusDue

HandleControlMessage(d, req) ==
  /\ control = "free" /\ Open /\ <<"device_control", d.type>> \in client.topics /\ Event
  /\ IF d \notin settings.devices
     THEN UNCHANGED <<control, reporting, seeded, pending, owed, strike, due>>
     ELSE /\ control' = "answer"
          /\ \/ ~Supported(req) /\ UNCHANGED <<reporting, seeded, pending, owed, strike, due>>
             \/ /\ Supported(req) /\ d.sensing /\ SetReporting(d, req.op = 1)
                /\ UNCHANGED <<strike, due>>
             \/ /\ Supported(req) /\ ~d.sensing /\ InterferenceControl(req)
                /\ UNCHANGED <<reporting, seeded, pending, owed>>
  /\ UNCHANGED <<settings, generation, connected, subscribed, retryLater,
                 inFlight, jobs, tick, caller, mqtt, queue, live>>

PublishControlResponse ==
  /\ control = "answer" /\ control' = "free"
  /\ CallSucceeds \/ CallFails
  /\ UNCHANGED <<conn, device, jobs, tick, caller, client, lost, world, owed>>
------------------------------------------------------------------------------
Init ==
  /\ settings \in Saved /\ generation = 1
  /\ connected = FALSE /\ subscribed = FALSE /\ seeded = FALSE /\ retryLater = FALSE
  /\ due = Everything /\ reporting = Devices /\ pending = {}
  /\ inFlight = [d \in Devices |-> None] /\ jobs = {}
  /\ tick = Idle /\ caller = "idle" /\ control = "free"
  /\ client = NoClient /\ up = FALSE /\ lost = FALSE
  /\ queue = <<>> /\ live = {} /\ strike = {} /\ events = 0
  /\ owed = {}

Loop ==
  \/ TickInactive \/ TickBegin \/ TickKeep \/ TickConnect
  \/ TickSubscribe \/ TickRefused \/ SeedCurrentTargets \/ SetSeeded
  \/ PublishDeviceJobs
RunJob ==
  \E j \in jobs :
    \/ Abandon(j) \/ PublishRegistration(j) \/ PublishStatus(j) \/ MarkStatus(j)
    \/ PopPending(j) \/ FlushDevice(j)
Operator == (\E cfg \in Configs : ApplySettings(cfg)) \/ Reconnect
Outside == (\E t \in Targets : TargetSeen(t)) \/ StrikeChanges \/ BrokerDrops
Controls == \E d \in Devices, r \in Requests : HandleControlMessage(d, r)
Time == RetryDue \/ \E d \in Devices : IntervalsPass(d)
Library == OnConnectionLost \/ LibraryReconnects

Next ==
  \/ Operator \/ CallerDisconnects \/ Loop \/ HandleEvent \/ RunJob \/ Time
  \/ Outside \/ Library \/ Controls \/ PublishControlResponse

\* The loop runs, handlers and callbacks entered are finished, and the retry
\* delay passes.  The library's own reconnecting may never succeed.
Fairness ==
  /\ WF_vars(Loop) /\ WF_vars(CallerDisconnects) /\ WF_vars(OnConnectionLost)
  /\ WF_vars(RetryDue)

Spec == Init /\ [][Next]_vars
FairSpec == Spec /\ Fairness
------------------------------------------------------------------------------
TypeOK ==
  /\ settings \in Configs /\ generation \in Nat
  /\ {connected, subscribed, seeded, retryLater, up, lost} \subseteq BOOLEAN
  /\ due \subseteq Everything /\ reporting \subseteq Devices
  /\ pending \cup owed \subseteq Devices \X Targets
  /\ \A d \in Devices : inFlight[d] \in Configs \cup {None}
  /\ \A j \in jobs : j.settings \in Configs /\ j.key \in Configs
  /\ client.cfg \in Configs \cup {None}
  /\ Len(queue) <= QueueLimit /\ live \subseteq Targets

\* While the connector says it is connected, the session it opened carries
\* the control topics of the saved devices, as long as the library did not
\* have to reopen it (connect, subscribeControls, the generation checks).
ControlChannelOpen ==
  connected /\ Open /\ client.first => Topics(settings) \subseteq client.topics

\* An object taken in for a device that reports is waiting or on its way
\* until it was published, whatever fails in between (popPending,
\* restorePending); saving other settings or stopping the reports drops it.
NothingLost ==
  owed \subseteq pending \cup UNION {j.objects : j \in jobs}

\* Once settings and faults have settled an enabled connector has an open
\* session with the controls subscribed, whether the library, the loop or
\* both recover it (Connect's reuse of a client, retries, generations): one of
\* the saved settings, unless it was opened with settings already replaced.
Recovered ==
  Active(settings) => subscribed /\ Open /\ (client.cfg = settings \/ client.late)

\* The session the connector calls connected was opened with the saved
\* settings (user-manual.md:470).
SessionMatchesSettings == connected /\ Open => client.cfg = settings
==============================================================================
