-------------------------- MODULE CounterStrikeProofs --------------------------
(***************************************************************************)
(* Proofs about CounterStrike, for every set of settings, channels and        *)
(* requests and any number of events.                                       *)
(***************************************************************************)
EXTENDS CounterStrike, FiniteSetTheorems, TLAPS

Places ==
  {"idle", "connect", "ensure", "subscribe", "refused", "success", "read",
   "register", "registered", "state", "stated"}
Ticks ==
  [pc : Places, settings : Configs \cup {None}, generation : Nat, topic : {1, 2},
   work : {0, 1}, register : BOOLEAN, state : BOOLEAN]
Times == {"never", "recent", "due"}
Statuses == [connected : BOOLEAN, connecting : BOOLEAN, registered : Times, stated : Times]
SomeTopics == {LegacyTopic} \cup {ControlTopic(cfg) : cfg \in Configs}
Clients ==
  [cfg : Configs \cup {None}, alive : BOOLEAN, topics : SUBSET SomeTopics, late : BOOLEAN]

\* The loop's generation is never ahead, and as long as it is the present one the
\* settings it works for are the present ones.
Types ==
  /\ settings \in Configs /\ generation \in Nat /\ generation > 0
  /\ status \in Statuses /\ tick \in Ticks /\ client \in Clients
LoopKnows ==
  /\ tick.generation <= generation
  /\ tick.pc # "idle" => tick.settings \in Configs
  /\ tick.pc # "idle" /\ Current => tick.settings = settings
  /\ tick.pc \in {"connect", "ensure"} => tick.topic = 1

\* What is booked, or about to be booked, as registered went out.
Told(cfg) == \E work \in {0, 1} : Registration(cfg, work) \in told
Registrations ==
  /\ status.registered # "never" => Told(settings)
  /\ tick.pc = "registered" => Told(tick.settings)

\* Where the loop is in opening the control channel of a session.
Both(cfg) == {ControlTopic(cfg), LegacyTopic}
Channel ==
  /\ (status.connected \/ subscribed) /\ Alive => Both(settings) \subseteq client.topics
  /\ tick.pc = "connect" => ~subscribed /\ ~status.connected
  /\ tick.pc = "subscribe" /\ tick.topic = 2 /\ Current /\ Alive
       => ControlTopic(settings) \in client.topics
  /\ tick.pc = "success" /\ Current /\ Alive => Both(settings) \subseteq client.topics

IInv == Types /\ LoopKnows /\ Registrations /\ Channel
-----------------------------------------------------------------------------
LEMMA IdleIs ==
  Idle \in Ticks /\ Idle.pc = "idle" /\ Idle.generation = 0 /\ Idle.topic = 1
BY DEF Idle, Ticks, Places

LEMMA NoClientIs == NoClient \in Clients /\ NoClient.alive = FALSE
BY DEF NoClient, Clients

LEMMA TopicsAre ==
  ASSUME NEW cfg
  PROVE  Topics(cfg)[1] = ControlTopic(cfg) /\ Topics(cfg)[2] = LegacyTopic
BY DEF Topics

LEMMA WorkStateIs == WorkState \in {0, 1}
BY DEF WorkState

LEMMA InitIInv == BoundsAssumption /\ Init => IInv
<1> SUFFICES ASSUME BoundsAssumption, Init PROVE IInv
  OBVIOUS
<1>1. settings \in Configs /\ generation = 1
  BY DEF Init, BoundsAssumption
<1>2. status \in Statuses /\ ~status.connected /\ status.registered = "never"
  BY DEF Init, Statuses, Times, Active
<1>3. tick \in Ticks /\ client \in Clients /\ tick.pc = "idle" /\ tick.generation = 0
  BY IdleIs, NoClientIs DEF Init
<1>4. ~subscribed
  BY DEF Init
<1> QED BY <1>1, <1>2, <1>3, <1>4 DEF IInv, Types, LoopKnows, Registrations, Channel
-----------------------------------------------------------------------------
\* What the steps that neither the loop nor a settings handler takes may change.
LEMMA ElsewhereStep ==
  ASSUME IInv, UNCHANGED <<settings, generation, subscribed, tick, told>>,
         status' \in Statuses,
         status'.connected = status.connected,
         status'.registered # "never" => status.registered # "never",
         client' = client \/ (client' \in Clients /\ ~client'.alive)
  PROVE  IInv'
<1>1. Types' /\ LoopKnows' /\ Registrations'
  BY DEF IInv, Types, LoopKnows, Registrations, Told, Registration, RuntimeBands, Usable, Current
<1>2. Channel'
  BY DEF IInv, Channel, Current, Alive
<1> QED BY <1>1, <1>2 DEF IInv

\* The client's callbacks, the commands, and time.
LEMMA OtherStep ==
  ASSUME IInv,
         \/ ConnectionLost \/ BrokerDrops \/ CallerDisconnects \/ Deliveries
         \/ Control \/ Time \/ StrikeEnds
  PROVE  IInv'
<1> USE DEF conn, mqtt, task, seen
<1>0. status \in Statuses /\ client \in Clients
  BY DEF IInv, Types
<1>1. UNCHANGED <<settings, generation, subscribed, tick, told>>
  BY DEF ConnectionLost, BrokerDrops, CallerDisconnects, Disconnect, Deliveries, Deliver,
     Control, HandleControl, ExecuteControl, AnswerControl, ControlDone, Time, RetryDue,
     ReportDue, StrikeEnds
<1>2. \/ status' = status
      \/ status' = [status EXCEPT !.stated = "never"]
      \/ status.registered = "recent" /\ status' = [status EXCEPT !.registered = "due"]
      \/ status.stated = "recent" /\ status' = [status EXCEPT !.stated = "due"]
  BY DEF ConnectionLost, BrokerDrops, CallerDisconnects, Disconnect, Deliveries, Deliver,
     Control, HandleControl, ExecuteControl, AnswerControl, ControlDone, Time, RetryDue,
     ReportDue, StrikeEnds
<1>3. /\ status' \in Statuses /\ status'.connected = status.connected
      /\ status'.registered # "never" => status.registered # "never"
  BY <1>0, <1>2 DEF Statuses, Times
<1>4. client' = client \/ client' = NoClient \/ client' = [client EXCEPT !.alive = FALSE]
  BY DEF ConnectionLost, BrokerDrops, CallerDisconnects, Disconnect, Deliveries, Deliver,
     Control, HandleControl, ExecuteControl, AnswerControl, ControlDone, Time, RetryDue,
     ReportDue, StrikeEnds
<1>5. client' = client \/ (client' \in Clients /\ ~client'.alive)
  BY <1>0, <1>4, NoClientIs DEF Clients
<1> QED BY <1>1, <1>3, <1>5, ElsewhereStep

\* Settings are saved, or a reconnect is asked for: the generation moves on.
LEMMA HandlersStep ==
  ASSUME IInv, Handlers
  PROVE  IInv'
<1> USE DEF conn, mqtt, task, seen
<1>0. settings \in Configs /\ generation \in Nat /\ status \in Statuses /\ tick.generation \in Nat
      /\ tick.generation <= generation
  BY DEF IInv, Types, LoopKnows, Ticks
<1>1. CASE \E cfg \in Configs : ApplySettings(cfg) /\ cfg = settings
  <2>1. UNCHANGED <<settings, generation, subscribed, tick, told, status, client>>
    BY <1>1 DEF ApplySettings
  <2> QED BY <1>0, <2>1, ElsewhereStep
<1>2. ASSUME NEW cfg \in Configs, ApplySettings(cfg), cfg # settings PROVE IInv'
  <2>1. /\ settings' = cfg /\ generation' = generation + 1 /\ subscribed' = FALSE
        /\ UNCHANGED <<tick, client, told>>
    BY <1>2 DEF ApplySettings
  <2>2. status' \in Statuses /\ ~status'.connected /\ status'.registered = "never"
    <3>1. Active(cfg) \in BOOLEAN
      BY DEF Active
    <3>2. status' = [connected |-> FALSE, connecting |-> Active(cfg),
                     registered |-> "never", stated |-> "never"]
      BY <1>2 DEF ApplySettings
    <3> QED BY <3>1, <3>2 DEF Statuses, Times
  <2>3. ~Current'
    BY <1>0, <2>1 DEF Current
  <2>4. Types' /\ LoopKnows'
    BY <1>0, <2>1, <2>2, <2>3 DEF IInv, Types, LoopKnows
  <2>5. Registrations' /\ Channel'
    BY <2>1, <2>2, <2>3 DEF IInv, Registrations, Told, Registration, RuntimeBands, Usable, Channel
  <2> QED BY <2>4, <2>5 DEF IInv
<1>3. CASE Reconnect
  <2>1. /\ generation' = generation + 1 /\ subscribed' = FALSE
        /\ UNCHANGED <<settings, tick, client, told>>
    BY <1>3 DEF Reconnect
  <2>2. status' \in Statuses /\ ~status'.connected /\ status'.registered = status.registered
    BY <1>0, <1>3 DEF Reconnect, Statuses, Times
  <2>3. ~Current'
    BY <1>0, <2>1 DEF Current
  <2>4. Types' /\ LoopKnows'
    BY <1>0, <2>1, <2>2, <2>3 DEF IInv, Types, LoopKnows
  <2>5. Registrations' /\ Channel'
    BY <2>1, <2>2, <2>3 DEF IInv, Registrations, Told, Registration, RuntimeBands, Usable, Channel
  <2> QED BY <2>4, <2>5 DEF IInv
<1> QED BY <1>1, <1>2, <1>3 DEF Handlers
-----------------------------------------------------------------------------
(* The loop.                                                                *)

\* Where a step of the loop may take it.
LEMMA LoopGoes ==
  ASSUME IInv, NEW pc \in Places
  PROVE  /\ Goto(pc) => /\ tick' \in Ticks /\ tick'.pc = pc
                        /\ tick'.settings = tick.settings /\ tick'.generation = tick.generation
                        /\ tick'.topic = tick.topic /\ tick'.work = tick.work
         /\ Return => tick' \in Ticks /\ tick'.pc = "idle" /\ tick'.generation = 0
         /\ Begin(pc) => /\ tick' \in Ticks /\ tick'.pc = pc /\ tick'.topic = 1
                         /\ tick'.settings = settings /\ tick'.generation = generation
<1>1. tick \in Ticks /\ settings \in Configs /\ generation \in Nat
  BY DEF IInv, Types
<1>2. Goto(pc) => /\ tick' \in Ticks /\ tick'.pc = pc
                  /\ tick'.settings = tick.settings /\ tick'.generation = tick.generation
                  /\ tick'.topic = tick.topic /\ tick'.work = tick.work
  BY <1>1 DEF Goto, Ticks
<1>3. Begin(pc) => /\ tick' \in Ticks /\ tick'.pc = pc /\ tick'.topic = 1
                   /\ tick'.settings = settings /\ tick'.generation = generation
  BY <1>1, IdleIs DEF Begin, Ticks
<1> QED BY <1>2, <1>3, IdleIs DEF Return

\* A step of the loop to a place with no duties of its own.
LEMMA EasyStep ==
  ASSUME IInv, UNCHANGED <<settings, generation>>, told \subseteq told',
         status' \in Statuses, status'.registered = status.registered,
         tick' \in Ticks, tick'.pc = "ensure" => tick'.topic = 1,
         \/ tick'.pc = "idle" /\ tick'.generation = 0
         \/ /\ tick'.pc \in Places \ {"idle", "connect", "subscribe", "success", "registered"}
            /\ tick'.settings = tick.settings /\ tick'.generation = tick.generation
            /\ tick.pc # "idle"
         \/ /\ tick'.pc \in Places \ {"idle", "connect", "subscribe", "success", "registered"}
            /\ tick'.settings = settings /\ tick'.generation = generation,
         client' = client \/ (client' \in Clients /\ ~client'.alive),
         status'.connected => status.connected, subscribed' => subscribed
  PROVE  IInv'
<1>1. generation > 0 /\ generation \in Nat
  BY DEF IInv, Types
<1>2. Types' /\ LoopKnows'
  BY <1>1 DEF IInv, Types, LoopKnows, Current
<1>3. Registrations'
  BY DEF IInv, Registrations, Told, Registration, RuntimeBands, Usable
<1>4. Channel'
  BY DEF IInv, Channel, Alive
<1> QED BY <1>2, <1>3, <1>4 DEF IInv

LEMMA TickInactiveStep ==
  ASSUME IInv, TickInactive
  PROVE  IInv'
<1> USE DEF conn, mqtt, task, seen
<1>1. status \in Statuses /\ tick \in Ticks /\ tick.pc = "idle"
  BY DEF IInv, Types, TickInactive, At
<1>2. /\ status' \in Statuses /\ ~status'.connected /\ status'.registered = status.registered
      /\ client' \in Clients /\ ~client'.alive
  BY <1>1, NoClientIs DEF TickInactive, Disconnect, Statuses
<1>3. UNCHANGED <<settings, generation, subscribed, tick, told>>
  BY DEF TickInactive
<1>4. Types' /\ LoopKnows' /\ Registrations'
  BY <1>2, <1>3 DEF IInv, Types, LoopKnows, Registrations, Told, Registration, RuntimeBands,
     Usable, Current
<1>5. Channel'
  BY <1>1, <1>2, <1>3 DEF IInv, Channel, Alive
<1> QED BY <1>4, <1>5 DEF IInv

LEMMA TickBeginStep ==
  ASSUME IInv, TickBegin
  PROVE  IInv'
<1> USE DEF conn, mqtt, task, seen
<1>1. status \in Statuses /\ generation \in Nat /\ settings \in Configs
  BY DEF IInv, Types
<1>2. UNCHANGED <<settings, generation, client, told>>
  BY DEF TickBegin
<1>3. CASE Begin("ensure") /\ UNCHANGED <<subscribed, status>>
  <2>1. /\ tick' \in Ticks /\ tick'.pc = "ensure" /\ tick'.topic = 1
        /\ tick'.settings = settings /\ tick'.generation = generation
    BY <1>3, LoopGoes DEF Places
  <2> QED BY <1>1, <1>2, <1>3, <2>1, EasyStep DEF Places
<1>4. CASE Begin("connect") /\ ResetSubscriptions
           /\ status' = [status EXCEPT !.connected = FALSE, !.connecting = TRUE]
  <2>1. /\ tick' \in Ticks /\ tick'.pc = "connect" /\ tick'.topic = 1
        /\ tick'.settings = settings /\ tick'.generation = generation
    BY <1>4, LoopGoes DEF Places
  <2>2. status' \in Statuses /\ ~status'.connected /\ status'.registered = status.registered
    BY <1>1, <1>4 DEF Statuses
  <2>3. Types' /\ LoopKnows' /\ Registrations'
    BY <1>1, <1>2, <2>1, <2>2 DEF IInv, Types, LoopKnows, Registrations, Told, Registration,
       RuntimeBands, Usable
  <2>4. Channel'
    BY <1>4, <2>1, <2>2 DEF Channel, ResetSubscriptions
  <2> QED BY <2>3, <2>4 DEF IInv
<1> QED BY <1>3, <1>4 DEF TickBegin

\* GotoIfCurrent, to a place with no duties.
LEMMA GoesIfCurrent ==
  ASSUME IInv, tick.pc # "idle", NEW pc \in Places \ {"idle"}, GotoIfCurrent(pc)
  PROVE  /\ tick' \in Ticks
         /\ \/ tick'.pc = "idle" /\ tick'.generation = 0
            \/ /\ Current /\ tick'.pc = pc /\ tick'.topic = tick.topic
               /\ tick'.settings = tick.settings /\ tick'.generation = tick.generation
BY LoopGoes DEF GotoIfCurrent, Places

LEMMA FailureStatus ==
  ASSUME status \in Statuses, SetConnectFailure
  PROVE  /\ status' \in Statuses /\ status'.registered = status.registered
         /\ status'.connected => status.connected
BY DEF SetConnectFailure, SetState, Statuses

LEMMA TickConnectStep ==
  ASSUME IInv, TickConnect
  PROVE  IInv'
<1> USE DEF conn, mqtt, task, seen
<1>1. /\ status \in Statuses /\ client \in Clients /\ tick \in Ticks /\ tick.pc = "connect"
      /\ tick.settings \in Configs /\ tick.topic = 1 /\ ~subscribed /\ ~status.connected
  BY DEF IInv, Types, LoopKnows, Channel, TickConnect, At
<1>2. UNCHANGED <<settings, generation, subscribed, told>>
  BY DEF TickConnect
<1>3. CASE OpenClient(tick.settings) /\ GotoIfCurrent("ensure") /\ UNCHANGED <<status, retryLater>>
  <2>1. client' \in Clients
    BY <1>1, <1>3 DEF OpenClient, Clients
  <2>2. /\ tick' \in Ticks
        /\ \/ tick'.pc = "idle" /\ tick'.generation = 0
           \/ /\ tick'.pc = "ensure" /\ tick'.topic = 1
              /\ tick'.settings = tick.settings /\ tick'.generation = tick.generation
    BY <1>1, <1>3, GoesIfCurrent DEF Places
  <2>3. Types' /\ LoopKnows' /\ Registrations'
    BY <1>1, <1>2, <1>3, <2>1, <2>2 DEF IInv, Types, LoopKnows, Registrations, Told,
       Registration, RuntimeBands, Usable, Current
  <2>4. Channel'
    BY <1>1, <1>2, <1>3, <2>2 DEF Channel
  <2> QED BY <2>3, <2>4 DEF IInv
<1>4. CASE OpenFails /\ Return /\ SetConnectFailure
  <2>1. client' \in Clients /\ ~client'.alive
    BY <1>4, NoClientIs DEF OpenFails
  <2>2. tick' \in Ticks /\ tick'.pc = "idle" /\ tick'.generation = 0
    BY <1>4, IdleIs DEF Return
  <2> QED BY <1>1, <1>2, <1>4, <2>1, <2>2, FailureStatus, EasyStep
<1> QED BY <1>3, <1>4 DEF TickConnect

\* The loop opens the control channel.
LEMMA TickEnsureStep ==
  ASSUME IInv, TickEnsure
  PROVE  IInv'
<1> USE DEF conn, mqtt, task, seen
<1>1. tick.pc = "ensure" /\ UNCHANGED <<settings, generation, status, subscribed, client, told>>
  BY DEF TickEnsure, At
<1>2. PICK pc \in {"success", "subscribe"} :
        GotoIfCurrent(pc) /\ (pc = "success" => subscribed)
  BY DEF TickEnsure
<1>3. /\ tick' \in Ticks
      /\ \/ tick'.pc = "idle" /\ tick'.generation = 0
         \/ /\ Current /\ tick'.pc = pc /\ tick'.topic = tick.topic
            /\ tick'.settings = tick.settings /\ tick'.generation = tick.generation
  BY <1>1, <1>2, GoesIfCurrent DEF Places
<1>4. tick.topic = 1
  BY <1>1 DEF IInv, LoopKnows
<1>5. Types' /\ LoopKnows' /\ Registrations'
  BY <1>1, <1>3 DEF IInv, Types, LoopKnows, Registrations, Told, Registration, RuntimeBands,
     Usable, Current
<1>6. Channel'
  BY <1>1, <1>2, <1>3, <1>4 DEF IInv, Channel, Current, Alive
<1> QED BY <1>5, <1>6 DEF IInv

LEMMA TickSubscribeStep ==
  ASSUME IInv, TickSubscribe
  PROVE  IInv'
<1> USE DEF conn, mqtt, task, seen
<1>1. /\ tick \in Ticks /\ tick.pc = "subscribe" /\ tick.settings \in Configs
      /\ client \in Clients /\ status \in Statuses
      /\ UNCHANGED <<settings, generation, status, subscribed, told>>
  BY DEF TickSubscribe, At, IInv, Types, LoopKnows
<1>2. CASE /\ Alive
           /\ IF Current /\ tick.topic = 1 THEN tick' = [tick EXCEPT !.topic = 2]
                                           ELSE GotoIfCurrent("success")
           /\ client' = [client EXCEPT !.topics =
                           client.topics \cup {Topics(tick.settings)[tick.topic]}]
  <2>1. Topics(tick.settings)[tick.topic]
          = IF tick.topic = 1 THEN ControlTopic(tick.settings) ELSE LegacyTopic
    BY <1>1, TopicsAre DEF Ticks
  <2>2. Topics(tick.settings)[tick.topic] \in SomeTopics
    BY <1>1, <2>1 DEF SomeTopics
  <2>3. /\ client' \in Clients
        /\ client'.topics = client.topics \cup {Topics(tick.settings)[tick.topic]}
    BY <1>1, <1>2, <2>2 DEF Clients
  <2>4. CASE Current /\ tick.topic = 1 /\ tick' = [tick EXCEPT !.topic = 2]
    <3>1. /\ tick' \in Ticks /\ tick'.pc = "subscribe" /\ tick'.topic = 2
          /\ tick'.settings = tick.settings /\ tick'.generation = tick.generation
      BY <1>1, <2>4 DEF Ticks
    <3>2. Types' /\ LoopKnows' /\ Registrations'
      BY <1>1, <2>3, <3>1 DEF IInv, Types, LoopKnows, Registrations, Told, Registration,
         RuntimeBands, Usable, Current
    <3>3. ControlTopic(settings) \in client'.topics
      BY <1>1, <2>1, <2>3, <2>4 DEF IInv, LoopKnows
    <3>4. Channel'
      BY <1>1, <1>2, <2>3, <3>1, <3>3 DEF IInv, Channel, Alive
    <3> QED BY <3>2, <3>4 DEF IInv
  <2>5. CASE ~(Current /\ tick.topic = 1) /\ GotoIfCurrent("success")
    <3>1. /\ tick' \in Ticks
          /\ \/ tick'.pc = "idle" /\ tick'.generation = 0
             \/ /\ Current /\ tick'.pc = "success"
                /\ tick'.settings = tick.settings /\ tick'.generation = tick.generation
      BY <1>1, <2>5, GoesIfCurrent DEF Places
    <3>2. Types' /\ LoopKnows' /\ Registrations'
      BY <1>1, <2>3, <3>1 DEF IInv, Types, LoopKnows, Registrations, Told, Registration,
         RuntimeBands, Usable, Current
    <3>3. Current => tick.topic = 2 /\ Both(settings) \subseteq client'.topics
      <4>1. Current => tick.topic = 2
        BY <1>1, <2>5 DEF Ticks
      <4>2. Current => ControlTopic(settings) \in client.topics
        BY <1>1, <1>2, <4>1 DEF IInv, Channel
      <4> QED BY <2>1, <2>3, <4>1, <4>2 DEF Both
    <3>4. Channel'
      BY <1>1, <1>2, <2>3, <3>1, <3>3 DEF IInv, Channel, Alive
    <3> QED BY <3>2, <3>4 DEF IInv
  <2> QED BY <1>2, <2>4, <2>5
<1>3. CASE CallFails /\ GotoIfCurrent("refused") /\ UNCHANGED client
  <2>1. /\ tick' \in Ticks
        /\ \/ tick'.pc = "idle" /\ tick'.generation = 0
           \/ /\ tick'.pc = "refused"
              /\ tick'.settings = tick.settings /\ tick'.generation = tick.generation
    BY <1>1, <1>3, GoesIfCurrent DEF Places
  <2> QED BY <1>1, <1>3, <2>1, EasyStep DEF Places
<1> QED BY <1>2, <1>3 DEF TickSubscribe

LEMMA TickRefusedStep ==
  ASSUME IInv, TickRefused
  PROVE  IInv'
<1> USE DEF conn, mqtt, task, seen
<1>1. status \in Statuses /\ UNCHANGED <<settings, generation, subscribed, told>>
  BY DEF TickRefused, IInv, Types
<1>2. client' \in Clients /\ ~client'.alive
  BY NoClientIs DEF TickRefused, Disconnect
<1>3. tick' \in Ticks /\ tick'.pc = "idle" /\ tick'.generation = 0
  BY IdleIs DEF TickRefused, Return
<1>4. /\ status' \in Statuses /\ status'.registered = status.registered
      /\ status'.connected => status.connected
  BY <1>1, FailureStatus DEF TickRefused
<1> QED BY <1>1, <1>2, <1>3, <1>4, EasyStep

LEMMA TickSuccessStep ==
  ASSUME IInv, TickSuccess
  PROVE  IInv'
<1> USE DEF conn, mqtt, task, seen
<1>1. /\ tick \in Ticks /\ status \in Statuses /\ tick.pc = "success"
      /\ UNCHANGED <<settings, generation, client, told>>
  BY DEF TickSuccess, At, IInv, Types
<1>2. CASE Current
  <2>1. /\ tick' \in Ticks /\ tick'.pc = "read"
        /\ tick'.settings = tick.settings /\ tick'.generation = tick.generation
    BY <1>2, LoopGoes DEF TickSuccess, Places
  <2>2. status' \in Statuses /\ status'.registered = status.registered
    BY <1>1, <1>2 DEF TickSuccess, SetState, Statuses
  <2>3. Types' /\ LoopKnows' /\ Registrations'
    BY <1>1, <2>1, <2>2 DEF IInv, Types, LoopKnows, Registrations, Told, Registration,
       RuntimeBands, Usable, Current
  <2>4. Channel'
    BY <1>1, <1>2, <2>1 DEF IInv, Channel, Alive
  <2> QED BY <2>3, <2>4 DEF IInv
<1>3. CASE ~Current
  <2>1. Return /\ UNCHANGED <<subscribed, status>>
    BY <1>3 DEF TickSuccess
  <2>2. tick' \in Ticks /\ tick'.pc = "idle" /\ tick'.generation = 0
    BY <2>1, IdleIs DEF Return
  <2> QED BY <1>1, <2>1, <2>2, EasyStep
<1> QED BY <1>2, <1>3

\* The reports.
LEMMA ReportStep ==
  ASSUME IInv, TickRead \/ TickState \/ MarkStated
  PROVE  IInv'
<1> USE DEF conn, mqtt, task, seen
<1>1. /\ tick \in Ticks /\ status \in Statuses /\ tick.pc # "idle"
      /\ UNCHANGED <<settings, generation, subscribed, client, told>>
  BY DEF TickRead, TickState, MarkStated, At, IInv, Types
<1>2. /\ status' \in Statuses /\ status'.registered = status.registered
      /\ status'.connected = status.connected
  BY <1>1 DEF TickRead, TickState, MarkStated, Mark, Statuses, Times
<1>3. /\ tick' \in Ticks
      /\ \/ tick'.pc = "idle" /\ tick'.generation = 0
         \/ /\ tick'.pc \in {"register", "stated"}
            /\ tick'.settings = tick.settings /\ tick'.generation = tick.generation
  <2>1. CASE TickRead
    <3>1. Due(status.registered) \in BOOLEAN /\ Due(status.stated) \in BOOLEAN
      BY DEF Due
    <3> QED BY <1>1, <2>1, <3>1, WorkStateIs DEF TickRead, Ticks, Places
  <2>2. CASE TickState \/ MarkStated
    BY <2>2, LoopGoes DEF TickState, MarkStated, Places
  <2> QED BY <2>1, <2>2
<1> QED BY <1>1, <1>2, <1>3, EasyStep DEF Places

LEMMA TickRegisterStep ==
  ASSUME IInv, TickRegister
  PROVE  IInv'
<1> USE DEF conn, mqtt, task, seen
<1>1. /\ tick \in Ticks /\ status \in Statuses /\ tick.pc = "register"
      /\ UNCHANGED <<settings, generation, status, subscribed, client>>
  BY DEF TickRegister, At, IInv, Types
<1>2. CASE Goto("state") /\ told' = told
  <2>1. /\ tick' \in Ticks /\ tick'.pc = "state"
        /\ tick'.settings = tick.settings /\ tick'.generation = tick.generation
    BY <1>2, LoopGoes DEF Places
  <2> QED BY <1>1, <1>2, <2>1, EasyStep DEF Places
<1>3. CASE Goto("registered") /\ told' = told \cup {Registration(tick.settings, tick.work)}
  <2>1. /\ tick' \in Ticks /\ tick'.pc = "registered"
        /\ tick'.settings = tick.settings /\ tick'.generation = tick.generation
    BY <1>3, LoopGoes DEF Places
  <2>2. Types' /\ LoopKnows' /\ Channel'
    BY <1>1, <2>1 DEF IInv, Types, LoopKnows, Channel, Current, Alive
  <2>3. Registrations'
    BY <1>1, <1>3, <2>1 DEF IInv, Registrations, Told, Registration, RuntimeBands, Usable, Ticks
  <2> QED BY <2>2, <2>3 DEF IInv
<1> QED BY <1>2, <1>3 DEF TickRegister

LEMMA MarkRegisteredStep ==
  ASSUME IInv, MarkRegistered
  PROVE  IInv'
<1> USE DEF conn, mqtt, task, seen
<1>1. /\ tick \in Ticks /\ status \in Statuses /\ tick.pc = "registered"
      /\ UNCHANGED <<settings, generation, subscribed, client, told>>
  BY DEF MarkRegistered, At, IInv, Types
<1>2. /\ tick' \in Ticks /\ tick'.pc = "state"
      /\ tick'.settings = tick.settings /\ tick'.generation = tick.generation
  BY LoopGoes DEF MarkRegistered, Places
<1>3. /\ status' \in Statuses /\ status'.connected = status.connected
      /\ Current \/ status'.registered = status.registered
  BY <1>1 DEF MarkRegistered, Mark, Statuses, Times
<1>4. Types' /\ LoopKnows' /\ Channel'
  BY <1>1, <1>2, <1>3 DEF IInv, Types, LoopKnows, Channel, Current, Alive
<1>5. Registrations'
  BY <1>1, <1>2, <1>3 DEF IInv, LoopKnows, Registrations, Told, Registration, RuntimeBands, Usable
<1> QED BY <1>4, <1>5 DEF IInv

LEMMA IInvStep ==
  ASSUME IInv, [Next]_vars
  PROVE  IInv'
<1>1. CASE UNCHANGED vars
  BY <1>1, ElsewhereStep DEF vars, conn, mqtt, task, seen, IInv, Types
<1>2. CASE Loop
  BY <1>2, TickInactiveStep, TickBeginStep, TickConnectStep, TickEnsureStep, TickSubscribeStep,
     TickRefusedStep, TickSuccessStep, ReportStep, TickRegisterStep, MarkRegisteredStep DEF Loop
<1>3. CASE Handlers
  BY <1>3, HandlersStep
<1>4. CASE \/ ConnectionLost \/ BrokerDrops \/ CallerDisconnects \/ Deliveries
           \/ Control \/ Time \/ StrikeEnds
  BY <1>4, OtherStep
<1> QED BY <1>1, <1>2, <1>3, <1>4 DEF Next

LEMMA BothTopics == ASSUME NEW cfg PROVE {Topics(cfg)[i] : i \in 1..2} = Both(cfg)
<1>1. 1..2 = {1, 2}
  OBVIOUS
<1> QED BY <1>1, TopicsAre DEF Both
-----------------------------------------------------------------------------
\* A connector that says it is connected and has a session has both control topics
\* of the saved device subscribed on it, for any settings and number of events.
THEOREM ChannelIsOpen == ASSUME BoundsAssumption PROVE Spec => []ControlChannelOpen
<1>1. Init => IInv
  BY InitIInv
<1>2. IInv /\ [Next]_vars => IInv'
  BY IInvStep
<1>3. IInv => ControlChannelOpen
  BY BothTopics DEF IInv, Channel, ControlChannelOpen
<1> QED BY <1>1, <1>2, <1>3, PTL DEF Spec

\* A registration is booked only for settings that were registered.
THEOREM RegistrationIsTold == ASSUME BoundsAssumption PROVE Spec => []RegisteredMeansTold
<1>1. Init => IInv
  BY InitIInv
<1>2. IInv /\ [Next]_vars => IInv'
  BY IInvStep
<1>3. IInv => RegisteredMeansTold
  BY DEF IInv, Registrations, Told, RegisteredMeansTold
<1> QED BY <1>1, <1>2, <1>3, PTL DEF Spec
-----------------------------------------------------------------------------
\* The remembered answers.

Tasks == {r.task : r \in Requests}
Answers == {Response(r, code) : r \in Requests, code \in {0, 1}}
\* A task with a name.  The others are answered and not remembered.
Named(t) == t # ""
Between(a, i, j) == {a[k] : k \in i..j}

\* The handler, and what it is about to execute.
Handler ==
  /\ control = [pc |-> control.pc, settings |-> control.settings,
                answer |-> control.answer, fresh |-> control.fresh]
  /\ control.pc = "execute" => control.answer \in Requests /\ ~Remembered(control.answer.task)
  /\ \A m \in inbox : m[2] \in Requests

Caches(rs) ==
  /\ rs \in Seq(Answers)
  /\ \A p, q \in 1..Len(rs) : rs[p].task = rs[q].task => p = q

\* Since a task was answered last it is in the cache, and after it only what was
\* answered later; or as many others were answered as the cache has places.
Followed(rs, ds, i) ==
  \E p \in 1..Len(rs) :
    /\ rs[p].task = ds[i]
    /\ \A q \in (p + 1)..Len(rs) : rs[q].task \in Between(ds, i + 1, Len(ds))
Overtaken(ds, i) == Cardinality(Between(ds, i + 1, Len(ds))) >= MaxResponses
CacheFollows(rs, ds) ==
  \A i \in 1..Len(ds) : Named(ds[i]) => Followed(rs, ds, i) \/ Overtaken(ds, i)

TasksInv ==
  /\ Handler /\ Caches(responses) /\ Len(responses) <= MaxResponses
  /\ answered \in Seq(Tasks) /\ CacheFollows(responses, answered)
  /\ ExecutedOnce

LEMMA BetweenIsFinite ==
  ASSUME NEW a, NEW i \in Int, NEW j \in Int
  PROVE  IsFiniteSet(Between(a, i, j)) /\ Cardinality(Between(a, i, j)) \in Nat
<1> DEFINE f == [k \in i..j |-> a[k]]
<1>1. IsFiniteSet(i..j)
  BY FS_Interval
<1>2. f \in Surjection(i..j, Between(a, i, j))
  BY DEF Surjection, Between
<1>3. IsFiniteSet(Between(a, i, j))
  BY <1>1, <1>2, FS_Surjection
<1> QED BY <1>3, FS_CardinalityType

\* Distinct elements of a finite set are no more than it has.
LEMMA DistinctFit ==
  ASSUME NEW n \in Nat, NEW T, IsFiniteSet(T), NEW s,
         \A q \in 1..n : s[q] \in T,
         \A p, q \in 1..n : s[p] = s[q] => p = q
  PROVE  Cardinality(T) >= n
<1> DEFINE f == [q \in 1..n |-> s[q]]
<1>1. f \in Injection(1..n, T)
  BY DEF Injection, IsInjective
<1>2. Cardinality(1..n) <= Cardinality(T)
  BY <1>1, FS_Injection
<1>3. Cardinality(1..n) = n
  BY FS_Interval
<1>4. Cardinality(T) \in Nat
  BY FS_CardinalityType
<1> QED BY <1>2, <1>3, <1>4

LEMMA Appended ==
  ASSUME NEW S, NEW s \in Seq(S), NEW e \in S
  PROVE  /\ Append(s, e) \in Seq(S) /\ Len(s) \in Nat /\ Len(Append(s, e)) = Len(s) + 1
         /\ Append(s, e)[Len(s) + 1] = e
         /\ \A k \in 1..Len(s) : Append(s, e)[k] = s[k]
OBVIOUS

LEMMA Shortened ==
  ASSUME NEW S, NEW s \in Seq(S), NEW n \in Nat, Len(s) = n + 1
  PROVE  /\ Tail(s) \in Seq(S) /\ Len(Tail(s)) = n
         /\ \A k \in 1..n : Tail(s)[k] = s[k + 1]
OBVIOUS

LEMMA BetweenGrows ==
  ASSUME NEW a, NEW b, NEW i \in Nat, NEW n \in Nat, \A k \in i..n : b[k] = a[k]
  PROVE  Between(a, i, n) \subseteq Between(b, i, n + 1)
<1> SUFFICES ASSUME NEW x \in Between(a, i, n) PROVE x \in Between(b, i, n + 1)
  OBVIOUS
<1>1. PICK k \in i..n : x = a[k]
  BY DEF Between
<1>2. k \in i..(n + 1) /\ x = b[k]
  BY <1>1
<1> QED BY <1>2 DEF Between

\* An answer more does not bring a task back among the last ones.
LEMMA OvertakenStays ==
  ASSUME MaxResponses \in Nat, NEW ds \in Seq(Tasks), NEW t \in Tasks, NEW i \in 1..Len(ds),
         Overtaken(ds, i)
  PROVE  Overtaken(Append(ds, t), i)
<1> DEFINE B == Between(ds, i + 1, Len(ds))
           C == Between(Append(ds, t), i + 1, Len(Append(ds, t)))
<1>0. /\ Len(ds) \in Nat /\ Len(Append(ds, t)) = Len(ds) + 1
      /\ \A k \in 1..Len(ds) : Append(ds, t)[k] = ds[k]
  BY Appended
<1>1. B \subseteq C
  <2>1. i + 1 \in Nat /\ \A k \in (i + 1)..Len(ds) : Append(ds, t)[k] = ds[k]
    BY <1>0
  <2> QED BY <1>0, <2>1, BetweenGrows
<1>2. IsFiniteSet(B) /\ IsFiniteSet(C) /\ Cardinality(B) \in Nat /\ Cardinality(C) \in Nat
  <2>1. i + 1 \in Int /\ Len(ds) \in Int /\ Len(Append(ds, t)) \in Int
    BY <1>0
  <2>2. IsFiniteSet(B) /\ Cardinality(B) \in Nat
    BY <2>1, BetweenIsFinite
  <2>3. IsFiniteSet(C) /\ Cardinality(C) \in Nat
    BY <2>1, BetweenIsFinite
  <2> QED BY <2>2, <2>3
<1>3. Cardinality(B) <= Cardinality(C)
  BY <1>1, <1>2, FS_Subset
<1>4. Cardinality(B) >= MaxResponses
  BY DEF Overtaken
<1> HIDE DEF B, C
<1>5. Cardinality(C) >= MaxResponses
  BY <1>2, <1>3, <1>4
<1> QED BY <1>5 DEF Overtaken, C

\* What the cache holds before it makes room.
LEMMA Longer ==
  ASSUME MaxResponses \in Nat \ {0}, NEW rs, Caches(rs), NEW ds \in Seq(Tasks),
         CacheFollows(rs, ds), NEW r \in Answers, r.task \in Tasks,
         \A p \in 1..Len(rs) : rs[p].task # r.task
  PROVE  /\ Caches(Append(rs, r))
         /\ CacheFollows(Append(rs, r), Append(ds, r.task))
<1> DEFINE ls == Append(rs, r)  bs == Append(ds, r.task)
<1>0. /\ rs \in Seq(Answers) /\ ls \in Seq(Answers) /\ Len(ls) = Len(rs) + 1
      /\ Len(rs) \in Nat /\ ls[Len(rs) + 1] = r
      /\ \A p \in 1..Len(rs) : ls[p] = rs[p]
  BY Appended DEF Caches
<1>1. Caches(ls)
  BY <1>0 DEF Caches
<1>2. /\ bs \in Seq(Tasks) /\ Len(bs) = Len(ds) + 1 /\ Len(ds) \in Nat
      /\ bs[Len(ds) + 1] = r.task /\ \A k \in 1..Len(ds) : bs[k] = ds[k]
  BY Appended
<1> HIDE DEF ls, bs
<1>3. ASSUME NEW i \in 1..Len(bs), Named(bs[i])
      PROVE  Followed(ls, bs, i) \/ Overtaken(bs, i)
  <2>1. CASE i = Len(ds) + 1
    <3>1. Len(ls) \in 1..Len(ls) /\ ls[Len(ls)].task = bs[i]
      BY <1>0, <1>2, <2>1
    <3>2. (Len(ls) + 1)..Len(ls) = {}
      BY <1>0
    <3> QED BY <3>1, <3>2 DEF Followed
  <2>2. CASE i \in 1..Len(ds) /\ Overtaken(ds, i)
    BY <1>2, <2>2, OvertakenStays DEF bs
  <2>3. CASE i \in 1..Len(ds) /\ Followed(rs, ds, i)
    <3>1. PICK p \in 1..Len(rs) :
            /\ rs[p].task = ds[i]
            /\ \A q \in (p + 1)..Len(rs) : rs[q].task \in Between(ds, i + 1, Len(ds))
      BY <2>3 DEF Followed
    <3>2. p \in 1..Len(ls) /\ ls[p].task = bs[i]
      BY <1>0, <1>2, <2>3, <3>1
    <3>3. r.task \in Between(bs, i + 1, Len(bs))
      <4>1. Len(bs) \in (i + 1)..Len(bs)
        BY <1>2, <2>3
      <4> QED BY <1>2, <4>1 DEF Between
    <3>4. Between(ds, i + 1, Len(ds)) \subseteq Between(bs, i + 1, Len(bs))
      <4>1. i + 1 \in Nat /\ \A k \in (i + 1)..Len(ds) : bs[k] = ds[k]
        BY <1>2, <2>3
      <4> QED BY <1>2, <4>1, BetweenGrows
    <3>5. ASSUME NEW q \in (p + 1)..Len(ls)
          PROVE  ls[q].task \in Between(bs, i + 1, Len(bs))
      <4>1. CASE q = Len(ls)
        BY <1>0, <3>3, <4>1
      <4>2. CASE q # Len(ls)
        <5>1. q \in (p + 1)..Len(rs) /\ ls[q] = rs[q]
          BY <1>0, <4>2
        <5> QED BY <3>1, <3>4, <5>1
      <4> QED BY <4>1, <4>2
    <3> QED BY <3>2, <3>5 DEF Followed
  <2> QED BY <1>2, <1>3, <2>1, <2>2, <2>3 DEF CacheFollows
<1>4. CacheFollows(ls, bs)
  BY <1>3 DEF CacheFollows
<1> QED BY <1>1, <1>4 DEF ls, bs

\* The oldest answer makes room: as many others follow it as there are places.
LEMMA RoomIsMade ==
  ASSUME MaxResponses \in Nat \ {0}, NEW ls, Caches(ls), NEW bs \in Seq(Tasks),
         CacheFollows(ls, bs), Len(ls) = MaxResponses + 1
  PROVE  Caches(Tail(ls)) /\ CacheFollows(Tail(ls), bs)
<1>0. /\ ls \in Seq(Answers) /\ Tail(ls) \in Seq(Answers) /\ Len(Tail(ls)) = MaxResponses
      /\ \A p \in 1..MaxResponses : Tail(ls)[p] = ls[p + 1]
  <2>1. ls \in Seq(Answers) /\ MaxResponses \in Nat
    BY DEF Caches
  <2> QED BY <2>1, Shortened
<1>1. Caches(Tail(ls))
  <2>1. \A p, q \in 1..MaxResponses : Tail(ls)[p].task = Tail(ls)[q].task => p = q
    <3> SUFFICES ASSUME NEW p \in 1..MaxResponses, NEW q \in 1..MaxResponses,
                        Tail(ls)[p].task = Tail(ls)[q].task
                 PROVE  p = q
      OBVIOUS
    <3>1. ls[p + 1].task = ls[q + 1].task /\ p + 1 \in 1..Len(ls) /\ q + 1 \in 1..Len(ls)
      BY <1>0
    <3> QED BY <3>1 DEF Caches
  <2> QED BY <1>0, <2>1 DEF Caches
<1>2. ASSUME NEW i \in 1..Len(bs), Followed(ls, bs, i)
      PROVE  Followed(Tail(ls), bs, i) \/ Overtaken(bs, i)
  <2> DEFINE B == Between(bs, i + 1, Len(bs))
  <2>1. PICK p \in 1..Len(ls) :
          ls[p].task = bs[i] /\ \A q \in (p + 1)..Len(ls) : ls[q].task \in B
    BY <1>2 DEF Followed
  <2> HIDE DEF B
  <2>2. CASE p = 1
    <3> DEFINE s == [q \in 1..MaxResponses |-> ls[q + 1].task]
    <3>1. \A q \in 1..MaxResponses : s[q] \in B
      BY <2>1, <2>2
    <3>2. \A q, o \in 1..MaxResponses : s[q] = s[o] => q = o
      <4> SUFFICES ASSUME NEW q \in 1..MaxResponses, NEW o \in 1..MaxResponses, s[q] = s[o]
                   PROVE  q = o
        OBVIOUS
      <4>1. ls[q + 1].task = ls[o + 1].task /\ q + 1 \in 1..Len(ls) /\ o + 1 \in 1..Len(ls)
        OBVIOUS
      <4> QED BY <4>1 DEF Caches
    <3>3. IsFiniteSet(B)
      BY BetweenIsFinite DEF B
    <3> HIDE DEF s
    <3>4. Cardinality(B) >= MaxResponses
      BY <3>1, <3>2, <3>3, DistinctFit
    <3> QED BY <3>4 DEF Overtaken, B
  <2>3. CASE p # 1
    <3>1. p - 1 \in 1..Len(Tail(ls)) /\ Tail(ls)[p - 1].task = bs[i]
      BY <1>0, <2>1, <2>3
    <3>2. ASSUME NEW q \in ((p - 1) + 1)..Len(Tail(ls))
          PROVE  Tail(ls)[q].task \in B
      <4>1. q \in 1..MaxResponses /\ q + 1 \in (p + 1)..Len(ls)
        BY <1>0
      <4> QED BY <1>0, <2>1, <4>1
    <3> QED BY <3>1, <3>2 DEF Followed, B
  <2> QED BY <2>2, <2>3
<1> QED BY <1>1, <1>2 DEF CacheFollows


\* A task is answered that the cache does not hold.
LEMMA AnswerStep ==
  ASSUME BoundsAssumption, TasksInv, ExecuteControl
  PROVE  TasksInv'
<1> DEFINE req == control.answer
<1>0. /\ req \in Requests /\ ~Remembered(req.task) /\ control.pc = "execute"
      /\ Caches(responses) /\ Len(responses) <= MaxResponses /\ answered \in Seq(Tasks)
      /\ CacheFollows(responses, answered) /\ ExecutedOnce
  BY DEF TasksInv, Handler, ExecuteControl
<1>1. PICK code \in {0, 1} :
        /\ responses' = Remember(Response(req, code))
        /\ answered' = Append(answered, Response(req, code).task)
        /\ control' = [control EXCEPT !.pc = "answer", !.answer = Response(req, code)]
        /\ inbox' = inbox
  BY DEF ExecuteControl
<1> DEFINE r == Response(req, code)
<1>2. r \in Answers /\ r.task = req.task /\ r.task \in Tasks
  BY <1>0 DEF Answers, Tasks, Response
<1>3. MaxResponses \in Nat \ {0} /\ MaxResponses \in Nat
  BY DEF BoundsAssumption
<1>4. /\ Len(answered) \in Nat /\ answered' \in Seq(Tasks) /\ Len(answered') = Len(answered) + 1
      /\ answered'[Len(answered) + 1] = req.task
      /\ \A k \in 1..Len(answered) : answered'[k] = answered[k]
  BY <1>0, <1>1, <1>2, Appended
<1>5. Handler'
  <2>1. control'.pc = "answer"
        /\ control' = [pc |-> control'.pc, settings |-> control'.settings,
                       answer |-> control'.answer, fresh |-> control'.fresh]
    BY <1>1 DEF TasksInv, Handler
  <2> QED BY <1>1, <2>1 DEF TasksInv, Handler
<1>6. /\ responses \in Seq(Answers) /\ Len(responses) \in Nat
      /\ \A p \in 1..Len(responses) : responses[p].task # r.task
  BY <1>0, <1>2 DEF Caches, Remembered
<1>7. /\ Caches(responses') /\ Len(responses') <= MaxResponses
      /\ CacheFollows(responses', answered')
  <2>1. CASE ~Named(r.task)
    <3>1. responses' = responses
      BY <1>1, <2>1 DEF Remember, Named
    <3>2. ASSUME NEW i \in 1..Len(answered'), Named(answered'[i])
          PROVE  Followed(responses, answered', i) \/ Overtaken(answered', i)
      <4>1. i \in 1..Len(answered) /\ Named(answered[i])
        BY <1>2, <1>4, <2>1, <3>2
      <4>2. CASE Overtaken(answered, i)
        BY <1>0, <1>1, <1>2, <1>3, <4>1, <4>2, OvertakenStays
      <4>3. CASE Followed(responses, answered, i)
        <5>1. Between(answered, i + 1, Len(answered)) \subseteq Between(answered', i + 1, Len(answered'))
          BY <1>4, <4>1 DEF Between
        <5> QED BY <1>4, <4>1, <4>3, <5>1 DEF Followed
      <4> QED BY <1>0, <4>1, <4>2, <4>3 DEF CacheFollows
    <3> QED BY <1>0, <3>1, <3>2 DEF CacheFollows
  <2>2. CASE Named(r.task)
    <3> DEFINE ls == Append(responses, r)
    <3>1. Caches(ls) /\ CacheFollows(ls, answered')
      BY <1>0, <1>1, <1>2, <1>3, <1>6, Longer
    <3>2. Len(ls) = Len(responses) + 1
      BY <1>2, <1>6, Appended
    <3>3. responses' = IF Len(ls) > MaxResponses THEN Tail(ls) ELSE ls
      BY <1>6, <1>1, <2>2 DEF Remember, Remembered, Named
    <3>4. CASE Len(ls) > MaxResponses
      <4>1. Len(ls) = MaxResponses + 1
        BY <1>0, <1>3, <1>6, <3>2, <3>4
      <4>2. Caches(Tail(ls)) /\ CacheFollows(Tail(ls), answered')
        BY <1>3, <1>4, <3>1, <4>1, RoomIsMade
      <4>3. Len(Tail(ls)) = MaxResponses
        <5>1. ls \in Seq(Answers)
          BY <3>1 DEF Caches
        <5> HIDE DEF ls
        <5> QED BY <1>3, <4>1, <5>1, Shortened
      <4> QED BY <1>3, <3>3, <3>4, <4>2, <4>3
    <3>5. CASE ~(Len(ls) > MaxResponses)
      BY <1>3, <1>6, <3>1, <3>2, <3>3, <3>5
    <3> QED BY <3>4, <3>5
  <2> QED BY <2>1, <2>2
<1>8. ExecutedOnce'
  <2> SUFFICES ASSUME NEW i \in 1..Len(answered'), NEW j \in 1..Len(answered'),
                      i < j, answered'[i] = answered'[j], Named(answered'[i])
               PROVE  Cardinality(Between(answered', i + 1, j - 1)) >= MaxResponses
    BY DEF ExecutedOnce, Between, Named
  <2>1. i \in 1..Len(answered) /\ answered'[i] = answered[i]
    BY <1>4
  <2>2. Between(answered', i + 1, j - 1) = Between(answered, i + 1, j - 1)
    BY <1>4, <2>1 DEF Between
  <2>3. CASE j \in 1..Len(answered)
    <3>1. answered[i] = answered[j] /\ Named(answered[i])
      BY <1>4, <2>1, <2>3
    <3> QED BY <1>0, <2>1, <2>2, <2>3, <3>1 DEF ExecutedOnce, Between, Named
  <2>4. CASE j = Len(answered) + 1
    <3>1. answered[i] = req.task /\ Named(answered[i]) /\ j - 1 = Len(answered)
      <4>1. j - 1 = Len(answered)
        BY <1>4, <2>4
      <4> QED BY <1>4, <2>1, <2>4, <4>1
    <3>2. ~Followed(responses, answered, i)
      BY <1>0, <3>1 DEF Followed, Remembered
    <3>3. Overtaken(answered, i)
      BY <1>0, <2>1, <3>1, <3>2 DEF CacheFollows
    <3> QED BY <2>2, <3>1, <3>3 DEF Overtaken
  <2> QED BY <1>4, <2>3, <2>4
<1> QED BY <1>4, <1>5, <1>7, <1>8 DEF TasksInv

\* The other steps answer no task anew.
LEMMA NothingAnswered ==
  ASSUME TasksInv, UNCHANGED <<responses, answered>>, Handler'
  PROVE  TasksInv'
<1>1. ExecutedOnce /\ answered' = answered
  BY DEF TasksInv
<1>2. ExecutedOnce'
  <2> SUFFICES ASSUME NEW i \in 1..Len(answered'), NEW j \in 1..Len(answered'),
                      i < j, answered'[i] = answered'[j], Named(answered'[i])
               PROVE  Cardinality(Between(answered', i + 1, j - 1)) >= MaxResponses
    BY DEF ExecutedOnce, Between, Named
  <2>1. \A a, b \in 1..Len(answered) :
          a < b /\ answered[a] = answered[b] /\ Named(answered[a])
            => Cardinality(Between(answered, a + 1, b - 1)) >= MaxResponses
    BY <1>1 DEF ExecutedOnce, Between, Named
  <2> QED BY <1>1, <2>1
<1> QED BY <1>2 DEF TasksInv, CacheFollows, Followed, Overtaken

LEMMA TasksInvStep ==
  ASSUME BoundsAssumption, TasksInv, [Next]_vars
  PROVE  TasksInv'
<1> USE DEF conn, mqtt, task, seen
<1>0. Handler
  BY DEF TasksInv
<1>1. CASE HandleControl
  <2>1. UNCHANGED <<responses, answered>> /\ inbox' \subseteq inbox
    BY <1>1 DEF HandleControl
  <2>2. \/ control' = control
        \/ \E a : control' = [Free EXCEPT !.pc = "answer", !.answer = a]
        \/ \E m \in inbox :
             /\ control' = [Free EXCEPT !.pc = "execute", !.settings = settings,
                                        !.answer = m[2], !.fresh = TRUE]
             /\ ~Remembered(m[2].task)
    BY <1>1 DEF HandleControl
  <2>3. \A t : Remembered(t)' <=> Remembered(t)
    BY <2>1 DEF Remembered
  <2>4. Handler'
    BY <1>0, <2>1, <2>2, <2>3 DEF Handler, Free
  <2> QED BY <2>1, <2>4, NothingAnswered
<1>2. CASE ExecuteControl
  BY <1>2, AnswerStep
<1>3. CASE AnswerControl \/ ControlDone
  <2>1. UNCHANGED <<responses, answered, inbox>>
    BY <1>3 DEF AnswerControl, ControlDone
  <2>2. control' = Free \/ control' = [control EXCEPT !.pc = "mark"]
    BY <1>3 DEF AnswerControl, ControlDone
  <2>3. Handler'
    BY <1>0, <2>1, <2>2 DEF Handler, Free
  <2> QED BY <2>1, <2>3, NothingAnswered
<1>4. CASE Deliveries
  <2>1. UNCHANGED <<responses, answered, control>>
    BY <1>4 DEF Deliveries, Deliver
  <2>2. \E t, r : r \in Requests /\ inbox' = inbox \cup {<<t, r>>}
    BY <1>4 DEF Deliveries, Deliver
  <2>3. Handler'
    BY <1>0, <2>1, <2>2 DEF Handler, Remembered
  <2> QED BY <2>1, <2>3, NothingAnswered
<1>5. CASE UNCHANGED <<responses, answered, control, inbox>>
  BY <1>0, <1>5, NothingAnswered DEF Handler, Remembered
<1>6. [Next]_vars => \/ HandleControl \/ ExecuteControl \/ AnswerControl \/ ControlDone \/ Deliveries
                     \/ UNCHANGED <<responses, answered, control, inbox>>
  <2>1. Handlers \/ CallerDisconnects \/ ConnectionLost \/ BrokerDrops \/ StrikeEnds \/ Time
          => UNCHANGED <<responses, answered, control, inbox>>
    BY DEF Handlers, ApplySettings, Reconnect, CallerDisconnects, ConnectionLost, BrokerDrops,
       StrikeEnds, Time, RetryDue, ReportDue
  <2>2. Loop => UNCHANGED <<responses, answered, control, inbox>>
    BY DEF Loop, TickInactive, TickBegin, TickConnect, TickEnsure, TickSubscribe, TickRefused,
       TickSuccess, TickRead, TickRegister, MarkRegistered, TickState, MarkStated
  <2> QED BY <2>1, <2>2 DEF Next, Control, vars
<1> QED BY <1>1, <1>2, <1>3, <1>4, <1>5, <1>6

LEMMA InitTasks == BoundsAssumption /\ Init => TasksInv
BY DEF Init, TasksInv, Handler, Free, Caches, CacheFollows, ExecutedOnce, BoundsAssumption

\* A command delivered again is executed again only after as many other tasks as
\* the cache of answers holds (controlMu, rememberResponse).
THEOREM TaskIsExecutedOnce == ASSUME BoundsAssumption PROVE Spec => []ExecutedOnce
<1>1. Init => TasksInv
  BY InitTasks
<1>2. TasksInv /\ [Next]_vars => TasksInv'
  BY TasksInvStep
<1>3. TasksInv => ExecutedOnce
  BY DEF TasksInv
<1> QED BY <1>1, <1>2, <1>3, PTL DEF Spec
-----------------------------------------------------------------------------
\* The types of what decides nothing above.
Rest ==
  /\ {subscribed, retryLater, up, lost} \subseteq BOOLEAN
  /\ caller \in {"idle", "disconnect"}
  /\ strike \subseteq {c.id : c \in Usable}
  /\ \A r \in told : r.settings \in Configs

LEMMA LoopRest ==
  ASSUME IInv, Rest, Loop
  PROVE  Rest'
<1> USE DEF conn, mqtt, task, seen
<1>1. UNCHANGED <<caller, strike, lost>>
  BY DEF Loop, TickInactive, TickBegin, TickConnect, TickEnsure, TickSubscribe, TickRefused,
     TickSuccess, TickRead, TickRegister, MarkRegistered, TickState, MarkStated, Disconnect,
     OpenClient, OpenFails
<1>2. subscribed' \in {subscribed, TRUE, FALSE} /\ retryLater' \in {retryLater, TRUE, FALSE}
  BY DEF Loop, TickInactive, TickBegin, ResetSubscriptions, TickConnect, TickEnsure,
     TickSubscribe, TickRefused, TickSuccess, TickRead, TickRegister, MarkRegistered, TickState,
     MarkStated, SetConnectFailure
<1>3. up' \in {up, TRUE, FALSE}
  BY DEF Loop, TickInactive, TickBegin, TickConnect, TickEnsure, TickSubscribe, TickRefused,
     TickSuccess, TickRead, TickRegister, MarkRegistered, TickState, MarkStated, Disconnect,
     OpenClient, OpenFails
<1>4. told' = told \/ (TickRegister /\ told' = told \cup {Registration(tick.settings, tick.work)})
  BY DEF Loop, TickInactive, TickBegin, TickConnect, TickEnsure, TickSubscribe, TickRefused,
     TickSuccess, TickRead, TickRegister, MarkRegistered, TickState, MarkStated
<1>5. ASSUME TickRegister PROVE Registration(tick.settings, tick.work).settings \in Configs
  <2>1. tick.settings \in Configs
    BY <1>5 DEF TickRegister, At, IInv, LoopKnows
  <2> QED BY <2>1 DEF Registration
<1> QED BY <1>1, <1>2, <1>3, <1>4, <1>5 DEF Rest, Usable

LEMMA OtherRest ==
  ASSUME Rest,
         \/ Handlers \/ CallerDisconnects \/ Control \/ Time \/ Deliveries
         \/ ConnectionLost \/ BrokerDrops \/ StrikeEnds
  PROVE  Rest'
<1> USE DEF conn, mqtt, task, seen
<1>1. UNCHANGED told
  BY DEF Handlers, ApplySettings, Reconnect, CallerDisconnects, Control, HandleControl,
     ExecuteControl, AnswerControl, ControlDone, Time, RetryDue, ReportDue, Deliveries, Deliver,
     ConnectionLost, BrokerDrops, StrikeEnds
<1>2. /\ subscribed' \in {subscribed, FALSE} /\ retryLater' \in {retryLater, FALSE}
      /\ up' \in {up, FALSE} /\ lost' \in {lost, TRUE, FALSE}
      /\ caller' \in {caller, "idle", "disconnect"}
  BY DEF Handlers, ApplySettings, Reconnect, CallerDisconnects, Disconnect, Control, HandleControl,
     ExecuteControl, AnswerControl, ControlDone, Time, RetryDue, ReportDue, Deliveries, Deliver,
     ConnectionLost, BrokerDrops, StrikeEnds
<1>3. strike' = strike \/ strike' = {} \/ \E bands : strike' = ChannelIDs(bands)
  BY DEF Handlers, ApplySettings, Reconnect, CallerDisconnects, Control, HandleControl, Execute,
     ExecuteControl, AnswerControl, ControlDone, Time, RetryDue, ReportDue, Deliveries, Deliver,
     ConnectionLost, BrokerDrops, StrikeEnds
<1>4. \A bands : ChannelIDs(bands) \subseteq {c.id : c \in Usable}
  BY DEF ChannelIDs
<1> QED BY <1>1, <1>2, <1>3, <1>4 DEF Rest, Usable

LEMMA InitRest == Init => Rest
BY DEF Init, Rest

\* Whatever is saved, commanded and fails, the state keeps its types: the loop never
\* works for a generation to come or for settings nobody saved, the cache keeps its
\* size, and only channels that are not reserved are struck on (tick,
\* rememberResponse, channelIDs).
THEOREM TypeCorrect == ASSUME BoundsAssumption PROVE Spec => []TypeOK
<1>1. Init => IInv /\ TasksInv /\ Rest
  BY InitIInv, InitTasks, InitRest
<1>2. IInv /\ [Next]_vars => IInv'
  BY IInvStep
<1>3. TasksInv /\ [Next]_vars => TasksInv'
  BY TasksInvStep
<1>4. IInv /\ Rest /\ [Next]_vars => Rest'
  <2>1. CASE UNCHANGED vars
    BY <2>1 DEF vars, conn, mqtt, task, seen, Rest, Usable
  <2> QED BY <2>1, LoopRest, OtherRest DEF Next
<1>5. IInv /\ TasksInv /\ Rest => TypeOK
  <2> SUFFICES ASSUME IInv, TasksInv, Rest PROVE TypeOK
    OBVIOUS
  <2>1. tick.settings \in Configs \cup {None} /\ tick.generation \in 0..generation
    BY DEF IInv, Types, LoopKnows, Ticks
  <2>2. status \in [connected : BOOLEAN, connecting : BOOLEAN,
                    registered : {"never", "recent", "due"}, stated : {"never", "recent", "due"}]
        /\ client.cfg \in Configs \cup {None} /\ settings \in Configs /\ generation \in Nat
    BY DEF IInv, Types, Statuses, Times, Clients
  <2> QED BY <2>1, <2>2 DEF TypeOK, TasksInv, Rest
<1> QED BY <1>1, <1>2, <1>3, <1>4, <1>5, PTL DEF Spec
=============================================================================
