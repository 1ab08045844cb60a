--------------------------- MODULE ConnectorsProofs ---------------------------
(***************************************************************************)
(* Proofs about Connectors, for any settings, devices, targets, commands and *)
(* number of events.  The Lingyun connector is proved here, the other in      *)
(* CounterStrikeProofs, whose theorems are instantiated with the variables of *)
(* Connectors.                                                              *)
(***************************************************************************)
EXTENDS Connectors, Sequences, TLAPS

Stages ==
  {"idle", "connect", "subscribe", "refused", "seed", "seeded", "jobs"}
Connecting == lyTick.pc \in {"connect", "subscribe", "refused"}

SessionTypes ==
  /\ lySettings \in LYConfigs /\ lyGeneration \in Nat
  /\ lyTick \in [pc : Stages, settings : LYConfigs \cup {None}, generation : Nat]
  /\ lyTick.generation <= lyGeneration
  /\ lyClient = [cfg |-> lyClient.cfg, state |-> lyClient.state,
               topics |-> lyClient.topics, first |-> lyClient.first, late |-> lyClient.late]
  /\ lyClient.state = "reconnecting" => ~lyClient.first

\* The settings of a tick are the present ones as long as the generation is; one
\* that the generation has left behind finds nothing subscribed.
TickKnows ==
  /\ lyTick.pc # "idle" /\ LY!Current => lyTick.settings = lySettings
  /\ Connecting => ~lyConnected /\ (LY!Current \/ ~lySubscribed)

\* Who is connected has subscribed, and the session carries what was subscribed
\* unless a tick has replaced it and not asked for the topics yet.
Subscribed ==
  /\ lyConnected => lySubscribed
  /\ lySubscribed /\ LY!Open /\ lyClient.first /\ lyTick.pc \notin {"subscribe", "refused"}
       => LY!Topics(lySettings) \subseteq lyClient.topics

SessionInv == SessionTypes /\ TickKnows /\ Subscribed

LEMMA IdleIsTick == LY!Idle \in [pc : Stages, settings : LYConfigs \cup {None}, generation : Nat]
BY DEF LY!Idle, Stages

LEMMA NoClientIs ==
  /\ LY!NoClient = [cfg |-> LY!NoClient.cfg, state |-> LY!NoClient.state,
                 topics |-> LY!NoClient.topics, first |-> LY!NoClient.first, late |-> LY!NoClient.late]
  /\ LY!NoClient.state = "none"
BY DEF LY!NoClient

\* The session is unaffected, or closed.
LEMMA Quiet ==
  ASSUME SessionInv, UNCHANGED <<lySettings, lyGeneration, lyConnected, lySubscribed, lyTick>>,
         UNCHANGED lyClient \/ lyClient' = LY!NoClient
  PROVE  SessionInv'
BY NoClientIs DEF SessionInv, SessionTypes, TickKnows, Subscribed, Connecting, LY!Current, LY!Open

LEMMA OperatorStep ==
  ASSUME SessionInv, LY!Operator
  PROVE  SessionInv'
<1>1. CASE UNCHANGED <<lySettings, lyGeneration, lyConnected, lySubscribed>>
  BY <1>1, Quiet DEF LY!Operator, LY!ApplySettings, LY!Reconnect, LY!mqtt
<1>2. CASE /\ lySettings' \in LYConfigs /\ lyGeneration' = lyGeneration + 1
           /\ lyConnected' = FALSE /\ lySubscribed' = FALSE /\ UNCHANGED <<lyTick, lyClient>>
  BY <1>2 DEF SessionInv, SessionTypes, TickKnows, Subscribed, Connecting, LY!Current
<1>3. SessionInv => lySettings \in LYConfigs
  BY DEF SessionInv, SessionTypes
<1> QED BY <1>1, <1>2, <1>3 DEF LY!Operator, LY!ApplySettings, LY!Reconnect, LY!mqtt

LEMMA TickEndsStep ==
  ASSUME SessionInv, LY!TickInactive \/ LY!TickRefused
  PROVE  SessionInv'
<1>1. CASE LY!TickInactive
  BY <1>1, NoClientIs DEF LY!TickInactive, LY!Disconnect, LY!At, SessionInv, SessionTypes, TickKnows,
     Subscribed, Connecting, LY!Current, LY!Open
<1>2. CASE LY!TickRefused
  BY <1>2, NoClientIs, IdleIsTick DEF LY!TickRefused, LY!Disconnect, LY!At, LY!Return, LY!Idle, SessionInv,
     SessionTypes, TickKnows, Subscribed, Connecting, LY!Current, LY!Open
<1> QED BY <1>1, <1>2

LEMMA TickBeginStep ==
  ASSUME SessionInv, LY!TickBegin
  PROVE  SessionInv'
<1>1. /\ lyTick' = [pc |-> "connect", settings |-> lySettings, generation |-> lyGeneration]
      /\ lyConnected' = FALSE /\ lyTick.pc = "idle"
      /\ UNCHANGED <<lySettings, lyGeneration, lySubscribed, lyClient>>
  BY DEF LY!TickBegin, LY!mqtt, LY!At
<1>2. lyTick'.pc = "connect" /\ lyTick'.settings = lySettings /\ lyTick'.generation = lyGeneration
  BY <1>1
<1>3. SessionTypes'
  BY <1>1, <1>2 DEF SessionInv, SessionTypes, Stages
<1>4. TickKnows' /\ Subscribed'
  BY <1>1, <1>2 DEF SessionInv, TickKnows, Subscribed, Connecting, LY!Current, LY!Open
<1> QED BY <1>3, <1>4 DEF SessionInv

\* Where a tick goes, it goes with what it has read.
LEMMA Goes ==
  ASSUME SessionTypes, NEW pc \in Stages, LY!Goto(pc)
  PROVE  /\ lyTick' \in [pc : Stages, settings : LYConfigs \cup {None}, generation : Nat]
         /\ lyTick'.pc = pc /\ lyTick'.settings = lyTick.settings
         /\ lyTick'.generation = lyTick.generation
BY DEF SessionTypes, LY!Goto

LEMMA TickKeepStep ==
  ASSUME SessionInv, LY!TickKeep
  PROVE  SessionInv'
<1>1. LY!AfterConnect \in Stages /\ LY!AfterConnect \in {"jobs", "seed"}
  BY DEF LY!AfterConnect, Stages
<1>2. /\ lyTick'.pc \in {"jobs", "seed"} /\ lyTick'.settings = lyTick.settings
      /\ lyTick'.generation = lyTick.generation
      /\ lyTick' \in [pc : Stages, settings : LYConfigs \cup {None}, generation : Nat]
  BY <1>1, Goes DEF LY!TickKeep, SessionInv
<1>3. /\ lyTick.pc = "connect" /\ LY!Current /\ lySubscribed /\ lyConnected' = TRUE
      /\ UNCHANGED <<lySettings, lyGeneration, lySubscribed, lyClient>>
  BY DEF LY!TickKeep, LY!At, LY!mqtt
<1>4. SessionTypes'
  BY <1>2, <1>3 DEF SessionInv, SessionTypes
<1>5. TickKnows' /\ Subscribed'
  BY <1>2, <1>3 DEF SessionInv, TickKnows, Subscribed, Connecting, LY!Current, LY!Open
<1> QED BY <1>4, <1>5 DEF SessionInv

LEMMA TickConnectStep ==
  ASSUME SessionInv, LY!TickConnect
  PROVE  SessionInv'
<1>1. lyTick.pc = "connect" /\ UNCHANGED <<lySettings, lyGeneration, lyConnected, lySubscribed>>
  BY DEF LY!TickConnect, LY!At, LY!conn
<1>2. "subscribe" \in Stages /\ "refused" \in Stages
  BY DEF Stages
<1>3. CASE ~LY!Current /\ LY!Return /\ UNCHANGED <<LY!mqtt, lyEvents>>
  BY <1>1, <1>3, IdleIsTick DEF LY!mqtt, LY!Return, LY!Idle, SessionInv, SessionTypes, TickKnows,
     Subscribed, Connecting, LY!Current, LY!Open
<1>4. CASE LY!OpenClient(lyTick.settings) /\ LY!GotoIfCurrent("subscribe")
  <2>1. /\ lyClient' = [cfg |-> lyClient'.cfg, state |-> lyClient'.state,
                      topics |-> lyClient'.topics, first |-> lyClient'.first, late |-> lyClient'.late]
        /\ lyClient'.state = "reconnecting" => ~lyClient'.first
    BY <1>4 DEF LY!OpenClient, SessionInv, SessionTypes
  <2>2. CASE LY!Current /\ LY!Goto("subscribe")
    <3>1. /\ lyTick'.pc = "subscribe" /\ lyTick'.settings = lyTick.settings
          /\ lyTick'.generation = lyTick.generation
          /\ lyTick' \in [pc : Stages, settings : LYConfigs \cup {None}, generation : Nat]
      BY <1>2, <2>2, Goes DEF SessionInv
    <3> QED BY <1>1, <2>1, <2>2, <3>1 DEF SessionInv, SessionTypes, TickKnows, Subscribed,
            Connecting, LY!Current, LY!Open
  <2>3. CASE ~LY!Current /\ LY!Return
    BY <1>1, <2>1, <2>3, IdleIsTick DEF LY!Return, LY!Idle, SessionInv, SessionTypes, TickKnows,
       Subscribed, Connecting, LY!Current, LY!Open
  <2> QED BY <1>4, <2>2, <2>3 DEF LY!GotoIfCurrent
<1>5. CASE LY!OpenFails /\ LY!GotoIfCurrent("refused")
  <2>1. UNCHANGED lyClient
    BY <1>5 DEF LY!OpenFails
  <2>2. CASE LY!Current /\ LY!Goto("refused")
    <3>1. /\ lyTick'.pc = "refused" /\ lyTick'.settings = lyTick.settings
          /\ lyTick'.generation = lyTick.generation
          /\ lyTick' \in [pc : Stages, settings : LYConfigs \cup {None}, generation : Nat]
      BY <1>2, <2>2, Goes DEF SessionInv
    <3> QED BY <1>1, <2>1, <2>2, <3>1 DEF SessionInv, SessionTypes, TickKnows, Subscribed,
            Connecting, LY!Current, LY!Open
  <2>3. CASE ~LY!Current /\ LY!Return
    BY <1>1, <2>1, <2>3, IdleIsTick DEF LY!Return, LY!Idle, SessionInv, SessionTypes, TickKnows,
       Subscribed, Connecting, LY!Current, LY!Open
  <2> QED BY <1>5, <2>2, <2>3 DEF LY!GotoIfCurrent
<1> QED BY <1>3, <1>4, <1>5 DEF LY!TickConnect

LEMMA TickSubscribeStep ==
  ASSUME SessionInv, LY!TickSubscribe
  PROVE  SessionInv'
<1>1. lyTick.pc = "subscribe" /\ UNCHANGED <<lySettings, lyGeneration>>
  BY DEF LY!TickSubscribe, LY!At
<1>2. LY!AfterConnect \in Stages /\ LY!AfterConnect \in {"jobs", "seed"} /\ "refused" \in Stages
  BY DEF LY!AfterConnect, Stages
<1>3. CASE /\ LY!CallSucceeds /\ LY!GotoIfCurrent(LY!AfterConnect)
           /\ lyClient' = [lyClient EXCEPT !.topics = @ \cup LY!Topics(lyTick.settings)]
           /\ IF LY!Current
              THEN lySubscribed' = TRUE /\ lyConnected' = TRUE /\ lyRetryLater' = FALSE
              ELSE UNCHANGED <<lySubscribed, lyConnected, lyRetryLater>>
  <2>1. /\ lyClient' = [cfg |-> lyClient'.cfg, state |-> lyClient'.state,
                      topics |-> lyClient'.topics, first |-> lyClient'.first, late |-> lyClient'.late]
        /\ lyClient'.state = lyClient.state /\ lyClient'.first = lyClient.first
        /\ lyClient'.topics = lyClient.topics \cup LY!Topics(lyTick.settings)
    BY <1>3 DEF SessionInv, SessionTypes
  <2>2. CASE LY!Current
    <3>1. /\ lyTick'.pc \in {"jobs", "seed"} /\ lyTick'.settings = lyTick.settings
          /\ lyTick'.generation = lyTick.generation
          /\ lyTick' \in [pc : Stages, settings : LYConfigs \cup {None}, generation : Nat]
      BY <1>2, <1>3, <2>2, Goes DEF SessionInv, LY!GotoIfCurrent
    <3>2. lySubscribed' = TRUE /\ lyConnected' = TRUE /\ lyTick.settings = lySettings
      BY <1>1, <1>3, <2>2 DEF SessionInv, TickKnows
    <3> QED BY <1>1, <2>1, <2>2, <3>1, <3>2 DEF SessionInv, SessionTypes, TickKnows,
            Subscribed, Connecting, LY!Current, LY!Open
  <2>3. CASE ~LY!Current
    BY <1>1, <1>3, <2>1, <2>3, IdleIsTick DEF LY!GotoIfCurrent, LY!Return, LY!Idle, SessionInv,
       SessionTypes, TickKnows, Subscribed, Connecting, LY!Current, LY!Open
  <2> QED BY <2>2, <2>3
<1>4. CASE /\ LY!CallFails /\ LY!GotoIfCurrent("refused")
           /\ UNCHANGED <<lyClient, lySubscribed, lyConnected, lyRetryLater>>
  <2>1. CASE LY!Current /\ LY!Goto("refused")
    <3>1. /\ lyTick'.pc = "refused" /\ lyTick'.settings = lyTick.settings
          /\ lyTick'.generation = lyTick.generation
          /\ lyTick' \in [pc : Stages, settings : LYConfigs \cup {None}, generation : Nat]
      BY <1>2, <2>1, Goes DEF SessionInv
    <3> QED BY <1>1, <1>4, <2>1, <3>1 DEF SessionInv, SessionTypes, TickKnows, Subscribed,
            Connecting, LY!Current, LY!Open
  <2>2. CASE ~LY!Current /\ LY!Return
    BY <1>1, <1>4, <2>2, IdleIsTick DEF LY!Return, LY!Idle, SessionInv, SessionTypes, TickKnows,
       Subscribed, Connecting, LY!Current, LY!Open
  <2> QED BY <1>4, <2>1, <2>2 DEF LY!GotoIfCurrent
<1> QED BY <1>3, <1>4 DEF LY!TickSubscribe

\* A tick beyond the connection moves on or ends.
LEMMA MovesOn ==
  ASSUME SessionInv, lyTick.pc \in {"seed", "seeded", "jobs"}, NEW pc \in {"seeded", "jobs"},
         LY!Goto(pc) \/ LY!Return, UNCHANGED <<lySettings, lyGeneration, lyConnected, lySubscribed, lyClient>>
  PROVE  SessionInv'
<1>1. CASE LY!Goto(pc)
  <2>1. /\ lyTick'.pc = pc /\ lyTick'.settings = lyTick.settings
        /\ lyTick'.generation = lyTick.generation
        /\ lyTick' \in [pc : Stages, settings : LYConfigs \cup {None}, generation : Nat]
    BY <1>1, Goes DEF SessionInv, Stages
  <2> QED BY <2>1 DEF SessionInv, SessionTypes, TickKnows, Subscribed, Connecting, LY!Current, LY!Open
<1>2. CASE LY!Return
  BY <1>2, IdleIsTick DEF LY!Return, LY!Idle, SessionInv, SessionTypes, TickKnows, Subscribed,
     Connecting, LY!Current, LY!Open
<1> QED BY <1>1, <1>2

LEMMA LoopStep ==
  ASSUME SessionInv, LY!Loop
  PROVE  SessionInv'
<1>1. CASE LY!SeedCurrentTargets \/ LY!SetSeeded \/ LY!PublishDeviceJobs
  <2>1. /\ lyTick.pc \in {"seed", "seeded", "jobs"}
        /\ LY!Goto("seeded") \/ LY!Goto("jobs") \/ LY!Return
        /\ UNCHANGED <<lySettings, lyGeneration, lyConnected, lySubscribed, lyClient>>
    BY <1>1 DEF LY!SeedCurrentTargets, LY!SetSeeded, LY!PublishDeviceJobs, LY!At, LY!conn, LY!mqtt
  <2> QED BY <2>1, MovesOn
<1> QED BY <1>1, TickEndsStep, TickBeginStep, TickKeepStep, TickConnectStep, TickSubscribeStep
        DEF LY!Loop

\* The broker drops the session, and the library opens it again.
LEMMA LibraryStep ==
  ASSUME SessionInv, LY!BrokerDrops \/ LY!LibraryReconnects
  PROVE  SessionInv'
<1>1. UNCHANGED <<lySettings, lyGeneration, lyConnected, lySubscribed, lyTick>>
  BY DEF LY!BrokerDrops, LY!LibraryReconnects, LY!conn
<1>2. /\ lyClient' = [cfg |-> lyClient'.cfg, state |-> lyClient'.state,
                    topics |-> lyClient'.topics, first |-> lyClient'.first, late |-> lyClient'.late]
      /\ ~lyClient'.first
  <2>1. CASE LY!BrokerDrops
    BY <2>1 DEF LY!BrokerDrops, SessionInv, SessionTypes
  <2>2. CASE LY!LibraryReconnects
    BY <2>2 DEF LY!LibraryReconnects, SessionInv, SessionTypes
  <2> QED BY <2>1, <2>2
<1> QED BY <1>1, <1>2 DEF SessionInv, SessionTypes, TickKnows, Subscribed, Connecting, LY!Current, LY!Open

LEMMA SessionStep ==
  ASSUME SessionInv, [LY!Next]_(LY!vars)
  PROVE  SessionInv'
<1>1. CASE UNCHANGED LY!vars
  BY <1>1, Quiet DEF LY!vars, LY!conn, LY!mqtt
<1>2. CASE LY!Operator
  BY <1>2, OperatorStep
<1>3. CASE LY!CallerDisconnects
  BY <1>3, Quiet DEF LY!CallerDisconnects, LY!Disconnect, LY!conn
<1>4. CASE LY!Loop
  BY <1>4, LoopStep
<1>5. CASE LY!RunJob
  BY <1>5, Quiet DEF LY!RunJob, LY!Abandon, LY!PublishRegistration, LY!PublishStatus, LY!MarkStatus,
     LY!PopPending, LY!FlushDevice, LY!conn, LY!mqtt
<1>6. CASE LY!HandleEvent \/ LY!Time
  BY <1>6, Quiet DEF LY!HandleEvent, LY!Time, LY!RetryDue, LY!IntervalsPass, LY!conn, LY!mqtt
<1>7. CASE LY!Outside
  BY <1>7, Quiet, LibraryStep DEF LY!Outside, LY!TargetSeen, LY!StrikeChanges, LY!conn, LY!mqtt
<1>8. CASE LY!Library
  BY <1>8, Quiet, LibraryStep DEF LY!Library, LY!OnConnectionLost, LY!conn
<1>9. CASE LY!Controls \/ LY!PublishControlResponse
  BY <1>9, Quiet DEF LY!Controls, LY!HandleControlMessage, LY!PublishControlResponse, LY!conn, LY!mqtt
<1> QED BY <1>1, <1>2, <1>3, <1>4, <1>5, <1>6, <1>7, <1>8, <1>9 DEF LY!Next

LEMMA InitSession == LY!LimitAssumption /\ LY!Init => SessionInv
BY IdleIsTick, NoClientIs DEF LY!LimitAssumption, LY!Init, LY!Idle, SessionInv, SessionTypes, TickKnows,
   Subscribed, Connecting, LY!Current, LY!Open

\* Who is connected is past a tick's connecting, so the session has the topics.
LEMMA SessionSuffices == SessionInv => LY!ControlChannelOpen
BY DEF SessionInv, TickKnows, Subscribed, Connecting, LY!ControlChannelOpen
-----------------------------------------------------------------------------
\* A job whose status is sent and not marked yet holds no objects.
JobShape(j) ==
  j = [device |-> j.device, settings |-> j.settings, key |-> j.key, do |-> j.do,
       marks |-> j.marks, objects |-> j.objects]
Held == UNION {j.objects : j \in lyJobs}
JobsInv ==
  /\ \A j \in lyJobs : JobShape(j) /\ (j.marks => j.objects = {})
  /\ LY!NothingLost

LEMMA HeldIs == \A o : o \in Held <=> \E j \in lyJobs : o \in j.objects
BY DEF Held
LEMMA HeldIsPrime == \A o : o \in Held' <=> \E j \in lyJobs' : o \in j.objects
BY DEF Held
LEMMA LostIs == LY!NothingLost <=> lyOwed \subseteq lyPending \cup Held
BY DEF LY!NothingLost, Held
LEMMA LostIsPrime == LY!NothingLost' <=> lyOwed' \subseteq lyPending' \cup Held'
BY DEF LY!NothingLost, Held

\* A job without objects ends or becomes another: nothing it held is gone.
LEMMA JobEnds ==
  ASSUME JobsInv, NEW j \in lyJobs, j.objects = {}, lyJobs' = lyJobs \ {j},
         UNCHANGED <<lyPending, lyOwed>>
  PROVE  JobsInv'
BY HeldIs, HeldIsPrime, LostIs, LostIsPrime DEF JobsInv

LEMMA JobChanges ==
  ASSUME JobsInv, NEW j \in lyJobs, j.objects = {}, NEW k, lyJobs' = (lyJobs \ {j}) \cup {k},
         JobShape(k), k.marks => k.objects = {}, lyOwed' = lyOwed,
         lyPending \subseteq lyPending' \cup k.objects
  PROVE  JobsInv'
BY HeldIs, HeldIsPrime, LostIs, LostIsPrime DEF JobsInv

LEMMA Renewed ==
  ASSUME NEW j, JobShape(j), NEW r, NEW k,
         \/ k = [j EXCEPT !.do = @ \ {r}, !.marks = FALSE]
         \/ k = [j EXCEPT !.marks = TRUE]
  PROVE  JobShape(k) /\ k.objects = j.objects
<1>1. ASSUME NEW a, NEW b, NEW c, NEW d, NEW e, NEW f,
             j = [device |-> a, settings |-> b, key |-> c, do |-> d, marks |-> e, objects |-> f]
      PROVE  /\ k = [device |-> k.device, settings |-> k.settings, key |-> k.key,
                     do |-> k.do, marks |-> k.marks, objects |-> k.objects]
             /\ k.objects = f
  <2>1. CASE k = [j EXCEPT !.do = @ \ {r}, !.marks = FALSE]
    BY <1>1, <2>1
  <2>2. CASE k = [j EXCEPT !.marks = TRUE]
    BY <1>1, <2>2
  <2> QED BY <2>1, <2>2
<1> QED BY <1>1 DEF JobShape

LEMMA DoneStep ==
  ASSUME JobsInv, NEW j \in lyJobs, NEW r, j.objects = {}, LY!Done(j, r),
         UNCHANGED <<lyPending, lyOwed>>
  PROVE  JobsInv'
<1>1. CASE LY!Finish(j)
  BY <1>1, JobEnds DEF LY!Finish
<1>2. CASE LY!Change(j, [j EXCEPT !.do = @ \ {r}, !.marks = FALSE])
  <2> DEFINE k == [j EXCEPT !.do = @ \ {r}, !.marks = FALSE]
  <2>1. JobShape(k) /\ k.objects = {}
    BY Renewed DEF JobsInv
  <2>2. lyJobs' = (lyJobs \ {j}) \cup {k}
    BY <1>2 DEF LY!Change
  <2> HIDE DEF k
  <2> QED BY <2>1, <2>2, JobChanges
<1> QED BY <1>1, <1>2 DEF LY!Done

LEMMA PublishStep ==
  ASSUME JobsInv, NEW j \in lyJobs,
         LY!Abandon(j) \/ LY!PublishRegistration(j) \/ LY!PublishStatus(j) \/ LY!MarkStatus(j)
  PROVE  JobsInv'
<1>1. CASE LY!Abandon(j)
  BY <1>1, JobEnds DEF LY!Abandon, LY!Finish
<1>2. CASE LY!PublishRegistration(j)
  BY <1>2, DoneStep DEF LY!PublishRegistration, LY!Doing
<1>3. CASE LY!PublishStatus(j)
  <2>1. j.objects = {} /\ UNCHANGED <<lyPending, lyOwed>>
    BY <1>3 DEF LY!PublishStatus, LY!Doing
  <2>2. CASE LY!Change(j, [j EXCEPT !.marks = TRUE])
    <3> DEFINE k == [j EXCEPT !.marks = TRUE]
    <3>1. JobShape(k) /\ k.objects = {}
      BY <2>1, Renewed DEF JobsInv
    <3>2. lyJobs' = (lyJobs \ {j}) \cup {k}
      BY <2>2 DEF LY!Change
    <3> HIDE DEF k
    <3> QED BY <2>1, <3>1, <3>2, JobChanges
  <2> QED BY <1>3, <2>1, <2>2, DoneStep DEF LY!PublishStatus
<1>4. CASE LY!MarkStatus(j)
  BY <1>4, DoneStep DEF LY!MarkStatus, JobsInv
<1> QED BY <1>1, <1>2, <1>3, <1>4

\* The objects a device waits with become its job's, and go back if they cannot be
\* published.
LEMMA FlushStep ==
  ASSUME JobsInv, NEW j \in lyJobs, LY!PopPending(j) \/ LY!FlushDevice(j)
  PROVE  JobsInv'
<1>1. CASE LY!PopPending(j)
  <2>1. j.objects = {} /\ ~j.marks /\ UNCHANGED lyOwed /\ lyPending' = lyPending \ LY!PendingOf(j.device)
    BY <1>1 DEF LY!PopPending, LY!Doing
  <2>2. CASE LY!PendingOf(j.device) = {} /\ LY!Finish(j)
    BY <2>1, <2>2, JobEnds DEF LY!Finish
  <2>3. CASE LY!Change(j, [j EXCEPT !.objects = LY!PendingOf(j.device)])
    <3> DEFINE k == [j EXCEPT !.objects = LY!PendingOf(j.device)]
    <3>1. JobShape(k) /\ k.objects = LY!PendingOf(j.device) /\ k.marks = j.marks
      BY DEF JobsInv, JobShape
    <3>2. lyJobs' = (lyJobs \ {j}) \cup {k}
      BY <2>3 DEF LY!Change
    <3> HIDE DEF k
    <3> QED BY <2>1, <3>1, <3>2, JobChanges
  <2> QED BY <1>1, <2>2, <2>3 DEF LY!PopPending
<1>2. CASE LY!FlushDevice(j)
  <2>1. /\ lyJobs' = lyJobs \ {j}
        /\ \/ lyOwed' = lyOwed \ j.objects /\ UNCHANGED lyPending
           \/ lyPending' = lyPending \cup j.objects /\ UNCHANGED lyOwed
    BY <1>2 DEF LY!FlushDevice, LY!Finish, LY!RestorePending
  <2> QED BY <2>1, HeldIs, HeldIsPrime, LostIs, LostIsPrime DEF JobsInv
<1> QED BY <1>1, <1>2

\* Whatever else is taken in or dropped is so on both sides.
LEMMA TakenIn ==
  ASSUME JobsInv, lyJobs \subseteq lyJobs',
         \A j \in lyJobs' \ lyJobs : JobShape(j) /\ j.objects = {} /\ ~j.marks,
         lyOwed' \ lyOwed \subseteq lyPending', \A o \in lyOwed' : o \in lyPending => o \in lyPending'
  PROVE  JobsInv'
BY HeldIs, HeldIsPrime, LostIs, LostIsPrime DEF JobsInv

LEMMA LoopTakesIn ==
  ASSUME JobsInv, LY!Loop
  PROVE  JobsInv'
<1>1. CASE LY!TickInactive
  BY <1>1, TakenIn DEF LY!TickInactive
<1>2. CASE LY!TickBegin \/ LY!TickKeep \/ LY!TickConnect \/ LY!TickSubscribe \/ LY!TickRefused \/ LY!SetSeeded
  BY <1>2, TakenIn DEF LY!TickBegin, LY!TickKeep, LY!TickConnect, LY!TickSubscribe, LY!TickRefused, LY!SetSeeded,
     LY!device
<1>3. CASE LY!SeedCurrentTargets
  BY <1>3, TakenIn DEF LY!SeedCurrentTargets, LY!AddPending
<1>4. CASE LY!PublishDeviceJobs
  <2> DEFINE starting == {d \in lyTick.settings.devices : LY!TryStart(d)}
  <2>1. lyJobs' = lyJobs \cup {LY!Job(d) : d \in starting} /\ UNCHANGED <<lyPending, lyOwed>>
    BY <1>4 DEF LY!PublishDeviceJobs
  <2>2. \A d \in starting : JobShape(LY!Job(d)) /\ LY!Job(d).objects = {} /\ ~LY!Job(d).marks
    BY DEF LY!Job, JobShape
  <2> QED BY <2>1, <2>2, TakenIn
<1> QED BY <1>1, <1>2, <1>3, <1>4 DEF LY!Loop

LEMMA OutsideTakesIn ==
  ASSUME JobsInv,
         LY!Operator \/ LY!CallerDisconnects \/ LY!HandleEvent \/ LY!Time \/ LY!Outside \/ LY!Library
           \/ LY!Controls \/ LY!PublishControlResponse
  PROVE  JobsInv'
<1>1. CASE LY!Operator
  BY <1>1, TakenIn DEF LY!Operator, LY!ApplySettings, LY!Reconnect, LY!device
<1>2. CASE LY!HandleEvent
  BY <1>2, TakenIn DEF LY!HandleEvent, LY!AddPending
<1>3. CASE LY!CallerDisconnects \/ LY!Time \/ LY!Outside \/ LY!Library \/ LY!PublishControlResponse
  BY <1>3, TakenIn DEF LY!CallerDisconnects, LY!Time, LY!RetryDue, LY!IntervalsPass, LY!Outside, LY!TargetSeen,
     LY!StrikeChanges, LY!BrokerDrops, LY!Library, LY!OnConnectionLost, LY!LibraryReconnects,
     LY!PublishControlResponse, LY!device
<1>4. CASE LY!Controls
  <2>1. PICK d \in Devices, r \in ControlRequests : LY!HandleControlMessage(d, r)
    BY <1>4 DEF LY!Controls
  <2>2. UNCHANGED lyJobs
    BY <2>1 DEF LY!HandleControlMessage
  <2>3. \/ UNCHANGED <<lyPending, lyOwed>>
        \/ lyPending' = lyPending \ LY!PendingOf(d) /\ lyOwed' = {o \in lyOwed : o[1] # d}
    BY <2>1 DEF LY!HandleControlMessage, LY!SetReporting
  <2> QED BY <2>2, <2>3, TakenIn DEF LY!PendingOf
<1> QED BY <1>1, <1>2, <1>3, <1>4

LEMMA JobsStep ==
  ASSUME JobsInv, [LY!Next]_(LY!vars)
  PROVE  JobsInv'
<1>1. CASE UNCHANGED LY!vars
  BY <1>1, TakenIn DEF LY!vars, LY!device
<1> QED BY <1>1, PublishStep, FlushStep, LoopTakesIn, OutsideTakesIn DEF LY!Next, LY!RunJob

LEMMA InitJobs == LY!Init => JobsInv
BY HeldIs, LostIs DEF LY!Init, JobsInv

-----------------------------------------------------------------------------
(* The types of the Lingyun connector's state.                              *)

\* What the store announces: a target it knows, or that the strike changed.
Notes ==
  {n \in [kind : {"target", "strike"}, target : Targets \cup {None}] :
     n.kind = "target" => n.target \in Targets}
Objects == Devices \X Targets

FlagTypes == {lyConnected, lySubscribed, lySeeded, lyRetryLater, lyUp, lyLost} \subseteq BOOLEAN
DeviceTypes ==
  /\ lyDue \subseteq LY!Everything /\ lyReporting \subseteq Devices
  /\ lyPending \subseteq Objects /\ lyOwed \subseteq Objects
\* A job is of a device that is known, and publishes what that device may.
JobTypes ==
  /\ lyInFlight \in [Devices -> LYConfigs \cup {None}]
  /\ \A j \in lyJobs : /\ j.device \in Devices /\ j.settings \in LYConfigs /\ j.key \in LYConfigs
                       /\ j.objects \subseteq Objects
WorldTypes ==
  /\ lyTick.pc # "idle" => lyTick.settings \in LYConfigs
  /\ lyClient.cfg \in LYConfigs \cup {None}
  /\ lyQueue \in Seq(Notes) /\ Len(lyQueue) <= QueueLimit /\ lyLive \subseteq Targets
LingyunTypes == FlagTypes /\ DeviceTypes /\ JobTypes /\ WorldTypes

LEMMA FlagStep ==
  ASSUME FlagTypes, [LY!Next]_(LY!vars)
  PROVE  FlagTypes'
<1> USE DEF LY!conn, LY!device, LY!mqtt, LY!world
<1>1. CASE UNCHANGED LY!vars
  BY <1>1 DEF LY!vars, FlagTypes
<1>2. CASE LY!Operator
  BY <1>2 DEF LY!Operator, LY!ApplySettings, LY!Reconnect, FlagTypes
<1>3. CASE LY!CallerDisconnects \/ LY!TickInactive \/ LY!TickBegin \/ LY!TickKeep \/ LY!TickRefused
  BY <1>3 DEF LY!CallerDisconnects, LY!Disconnect, LY!TickInactive, LY!TickBegin, LY!TickKeep,
     LY!TickRefused, FlagTypes
<1>4. CASE LY!TickConnect \/ LY!TickSubscribe
  BY <1>4 DEF LY!TickConnect, LY!OpenClient, LY!OpenFails, LY!TickSubscribe, LY!CallSucceeds,
     LY!CallFails, FlagTypes
<1>5. CASE LY!SeedCurrentTargets \/ LY!SetSeeded \/ LY!PublishDeviceJobs
  BY <1>5 DEF LY!SeedCurrentTargets, LY!SetSeeded, LY!PublishDeviceJobs, FlagTypes
<1>6. CASE LY!RunJob
  BY <1>6 DEF LY!RunJob, LY!Abandon, LY!PublishRegistration, LY!PublishStatus, LY!MarkStatus,
     LY!PopPending, LY!FlushDevice, LY!CallSucceeds, LY!CallFails, FlagTypes
<1>7. CASE LY!HandleEvent \/ LY!Time
  BY <1>7 DEF LY!HandleEvent, LY!Time, LY!RetryDue, LY!IntervalsPass, FlagTypes
<1>8. CASE LY!Outside \/ LY!Library
  BY <1>8 DEF LY!Outside, LY!TargetSeen, LY!StrikeChanges, LY!BrokerDrops, LY!Library,
     LY!OnConnectionLost, LY!LibraryReconnects, FlagTypes
<1>9. CASE LY!Controls \/ LY!PublishControlResponse
  BY <1>9 DEF LY!Controls, LY!HandleControlMessage, LY!SetReporting, LY!PublishControlResponse,
     LY!CallSucceeds, LY!CallFails, FlagTypes
<1> QED BY <1>1, <1>2, <1>3, <1>4, <1>5, <1>6, <1>7, <1>8, <1>9 DEF LY!Next, LY!Loop

LEMMA ReportsAre ==
  ASSUME NEW d \in Devices
  PROVE  <<d, "status">> \in LY!Everything /\ {d} \X LY!Reports(d) \subseteq LY!Everything
BY DEF LY!Everything, LY!Reports

LEMMA ObjectsAre ==
  ASSUME DeviceTypes, NEW cfg, NEW ts, ts \subseteq Targets
  PROVE  LY!ObjectsFor(cfg, ts) \subseteq Objects
BY DEF DeviceTypes, LY!ObjectsFor, LY!Accepts, Objects

LEMMA DeviceStep ==
  ASSUME DeviceTypes, JobTypes, WorldTypes, [LY!Next]_(LY!vars)
  PROVE  DeviceTypes'
<1> USE DEF LY!conn, LY!device, LY!mqtt, LY!world
<1>1. CASE UNCHANGED <<lyDue, lyReporting, lyPending, lyOwed>>
  BY <1>1 DEF DeviceTypes, LY!Everything
<1>2. CASE LY!Operator \/ LY!TickInactive
  <2>1. /\ lyDue' = lyDue \/ lyDue' = LY!Everything
        /\ lyReporting' = lyReporting
        /\ lyPending' = lyPending \/ lyPending' = {}
        /\ lyOwed' = lyOwed \/ lyOwed' = {}
    BY <1>2 DEF LY!Operator, LY!ApplySettings, LY!Reconnect, LY!TickInactive
  <2> QED BY <2>1 DEF DeviceTypes, LY!Everything
<1>3. CASE LY!SeedCurrentTargets
  <2>1. LY!ObjectsFor(lyTick.settings, lyLive) \subseteq Objects
    BY ObjectsAre DEF WorldTypes
  <2> QED BY <1>3, <2>1 DEF LY!SeedCurrentTargets, LY!AddPending, DeviceTypes, LY!Everything
<1>4. CASE LY!RunJob
  <2>1. PICK j \in lyJobs :
          \/ LY!Abandon(j) \/ LY!PublishRegistration(j) \/ LY!PublishStatus(j) \/ LY!MarkStatus(j)
          \/ LY!PopPending(j) \/ LY!FlushDevice(j)
    BY <1>4 DEF LY!RunJob
  <2>2. lyDue' \subseteq lyDue /\ lyReporting' = lyReporting
    BY <2>1 DEF LY!Abandon, LY!PublishRegistration, LY!PublishStatus, LY!MarkStatus,
       LY!PopPending, LY!FlushDevice, LY!MarkPublished
  <2>3. lyPending' \subseteq lyPending \cup j.objects /\ lyOwed' \subseteq lyOwed
    BY <2>1 DEF LY!Abandon, LY!PublishRegistration, LY!PublishStatus, LY!MarkStatus,
       LY!PopPending, LY!FlushDevice, LY!RestorePending
  <2>4. j.objects \subseteq Objects
    BY DEF JobTypes
  <2> QED BY <2>2, <2>3, <2>4 DEF DeviceTypes, LY!Everything
<1>5. CASE LY!HandleEvent
  <2>1. lyQueue # <<>> /\ Head(lyQueue) \in Notes
    BY <1>5 DEF LY!HandleEvent, WorldTypes
  <2>2. lyReporting' = lyReporting
    BY <1>5 DEF LY!HandleEvent
  <2>3. CASE LY!AddPending(LY!ObjectsFor(lySettings, {Head(lyQueue).target})) /\ UNCHANGED lyDue
             /\ Head(lyQueue).kind = "target"
    <3>1. LY!ObjectsFor(lySettings, {Head(lyQueue).target}) \subseteq Objects
      BY <2>1, <2>3, ObjectsAre DEF Notes
    <3> QED BY <2>2, <2>3, <3>1 DEF LY!AddPending, DeviceTypes, LY!Everything
  <2>4. CASE LY!ForceStatusDue /\ UNCHANGED <<lyPending, lyOwed>>
    BY <2>2, <2>4, ReportsAre DEF LY!ForceStatusDue, DeviceTypes, LY!Everything
  <2> QED BY <1>1, <1>5, <2>2, <2>3, <2>4 DEF LY!HandleEvent
<1>6. CASE LY!Time
  <2>1. lyDue' = lyDue \/ \E d \in Devices : lyDue' = lyDue \cup ({d} \X LY!Reports(d))
    BY <1>6 DEF LY!Time, LY!RetryDue, LY!IntervalsPass
  <2>2. UNCHANGED <<lyReporting, lyPending, lyOwed>>
    BY <1>6 DEF LY!Time, LY!RetryDue, LY!IntervalsPass
  <2> QED BY <2>1, <2>2, ReportsAre DEF DeviceTypes, LY!Everything
<1>7. CASE LY!Controls
  <2>1. PICK d \in Devices, r \in ControlRequests : LY!HandleControlMessage(d, r)
    BY <1>7 DEF LY!Controls
  <2>2. /\ lyPending' \subseteq lyPending /\ lyOwed' \subseteq lyOwed
        /\ lyReporting' \subseteq lyReporting \cup {d}
    BY <2>1 DEF LY!HandleControlMessage, LY!SetReporting
  <2>3. lyDue' = lyDue \/ LY!ForceStatusDue
    BY <2>1 DEF LY!HandleControlMessage, LY!InterferenceControl
  <2> QED BY <2>2, <2>3, ReportsAre DEF LY!ForceStatusDue, DeviceTypes, LY!Everything
<1>8. CASE \/ LY!CallerDisconnects \/ LY!TickBegin \/ LY!TickKeep \/ LY!TickConnect
           \/ LY!TickSubscribe \/ LY!TickRefused \/ LY!SetSeeded \/ LY!PublishDeviceJobs
           \/ LY!Outside \/ LY!Library \/ LY!PublishControlResponse
  BY <1>1, <1>8 DEF LY!CallerDisconnects, LY!TickBegin, LY!TickKeep, LY!TickConnect,
     LY!TickSubscribe, LY!TickRefused, LY!SetSeeded, LY!PublishDeviceJobs, LY!Outside,
     LY!TargetSeen, LY!StrikeChanges, LY!BrokerDrops, LY!Library, LY!OnConnectionLost,
     LY!LibraryReconnects, LY!PublishControlResponse
<1>9. CASE UNCHANGED LY!vars
  BY <1>1, <1>9 DEF LY!vars
<1> QED BY <1>2, <1>3, <1>4, <1>5, <1>6, <1>7, <1>8, <1>9 DEF LY!Next, LY!Loop

\* A job changes only in what it has yet to do and in what it holds.
LEMMA JobSteps ==
  ASSUME JobsInv, JobTypes, DeviceTypes, LY!RunJob
  PROVE  JobTypes'
<1>1. PICK j \in lyJobs :
        \/ LY!Abandon(j) \/ LY!PublishRegistration(j) \/ LY!PublishStatus(j) \/ LY!MarkStatus(j)
        \/ LY!PopPending(j) \/ LY!FlushDevice(j)
  BY DEF LY!RunJob
<1> DEFINE Same(k) == /\ k.device = j.device /\ k.settings = j.settings /\ k.key = j.key
                      /\ k.objects \subseteq Objects
<1>2. JobShape(j) /\ j.device \in Devices /\ j.key \in LYConfigs /\ j.objects \subseteq Objects
  BY DEF JobsInv, JobTypes
<1>3. \A r : Same([j EXCEPT !.do = @ \ {r}, !.marks = FALSE])
  BY <1>2 DEF JobShape
<1>4. Same([j EXCEPT !.marks = TRUE])
  BY <1>2 DEF JobShape
<1>5. Same([j EXCEPT !.objects = LY!PendingOf(j.device)])
  <2>1. LY!PendingOf(j.device) \subseteq Objects
    BY DEF LY!PendingOf, DeviceTypes
  <2> QED BY <1>2, <2>1 DEF JobShape
<1> HIDE DEF Same
<1>6. LY!Finish(j) \/ \E k : LY!Change(j, k) /\ Same(k)
  <2>1. CASE LY!Abandon(j) \/ LY!FlushDevice(j)
    BY <2>1 DEF LY!Abandon, LY!FlushDevice
  <2>2. CASE \E r : LY!Done(j, r)
    BY <1>3, <2>2 DEF LY!Done
  <2>3. CASE LY!PublishRegistration(j) \/ LY!MarkStatus(j)
    BY <2>2, <2>3 DEF LY!PublishRegistration, LY!MarkStatus
  <2>4. CASE LY!PublishStatus(j)
    BY <1>4, <2>2, <2>4 DEF LY!PublishStatus
  <2>5. CASE LY!PopPending(j)
    BY <1>5, <2>5 DEF LY!PopPending
  <2> QED BY <1>1, <2>1, <2>3, <2>4, <2>5
<1>7. CASE LY!Finish(j)
  BY <1>2, <1>7 DEF LY!Finish, JobTypes, Objects
<1>8. ASSUME NEW k, LY!Change(j, k), Same(k) PROVE JobTypes'
  <2>1. lyJobs' = (lyJobs \ {j}) \cup {k} /\ lyInFlight' = lyInFlight
    BY <1>8 DEF LY!Change
  <2>2. /\ k.device \in Devices /\ k.settings \in LYConfigs /\ k.key \in LYConfigs
        /\ k.objects \subseteq Objects
    BY <1>2, <1>8 DEF Same, JobTypes
  <2> QED BY <2>1, <2>2 DEF JobTypes, Objects
<1> QED BY <1>6, <1>7, <1>8

LEMMA JobTypesStep ==
  ASSUME SessionInv, JobsInv, JobTypes, DeviceTypes, WorldTypes, [LY!Next]_(LY!vars)
  PROVE  JobTypes'
<1> USE DEF LY!conn, LY!device, LY!mqtt, LY!world
<1>1. CASE UNCHANGED <<lyJobs, lyInFlight>>
  BY <1>1 DEF JobTypes, Objects
<1>2. CASE LY!PublishDeviceJobs
  <2> DEFINE starting == {d \in lyTick.settings.devices : LY!TryStart(d)}
  <2>1. /\ lyJobs' = lyJobs \cup {LY!Job(d) : d \in starting}
        /\ lyInFlight' = [d \in Devices |-> IF d \in starting THEN lySettings ELSE lyInFlight[d]]
    BY <1>2 DEF LY!PublishDeviceJobs
  <2>2. lySettings \in LYConfigs /\ lyTick.settings \in LYConfigs
    BY <1>2 DEF LY!PublishDeviceJobs, LY!At, WorldTypes, SessionInv, SessionTypes
  <2>3. ASSUME NEW d \in starting
        PROVE  /\ LY!Job(d).device \in Devices /\ LY!Job(d).settings \in LYConfigs
               /\ LY!Job(d).key \in LYConfigs /\ LY!Job(d).objects \subseteq Objects
    <3>1. \E r : <<d, r>> \in lyDue
      BY DEF LY!TryStart, LY!Job
    <3>2. d \in Devices
      BY <3>1 DEF DeviceTypes, LY!Everything
    <3> QED BY <2>2, <3>2 DEF LY!Job
  <2>4. lyInFlight' \in [Devices -> LYConfigs \cup {None}]
    BY <2>1, <2>2 DEF JobTypes
  <2> HIDE DEF starting
  <2> QED BY <2>1, <2>3, <2>4 DEF JobTypes, Objects
<1>3. CASE \/ LY!Operator \/ LY!CallerDisconnects \/ LY!TickInactive \/ LY!TickBegin \/ LY!TickKeep
           \/ LY!TickConnect \/ LY!TickSubscribe \/ LY!TickRefused \/ LY!SeedCurrentTargets
           \/ LY!SetSeeded \/ LY!HandleEvent \/ LY!Time \/ LY!Outside \/ LY!Library
           \/ LY!Controls \/ LY!PublishControlResponse
  BY <1>1, <1>3 DEF LY!Operator, LY!ApplySettings, LY!Reconnect, LY!CallerDisconnects,
     LY!TickInactive, LY!TickBegin, LY!TickKeep, LY!TickConnect, LY!TickSubscribe,
     LY!TickRefused, LY!SeedCurrentTargets, LY!SetSeeded, LY!HandleEvent, LY!Time, LY!RetryDue,
     LY!IntervalsPass, LY!Outside, LY!TargetSeen, LY!StrikeChanges, LY!BrokerDrops, LY!Library,
     LY!OnConnectionLost, LY!LibraryReconnects, LY!Controls, LY!HandleControlMessage,
     LY!PublishControlResponse
<1>4. CASE UNCHANGED LY!vars
  BY <1>1, <1>4 DEF LY!vars
<1> QED BY <1>2, <1>3, <1>4, JobSteps DEF LY!Next, LY!Loop

\* What is announced to a full channel is dropped.
LEMMA AnnounceStep ==
  ASSUME LY!LimitAssumption, lyQueue \in Seq(Notes), Len(lyQueue) <= QueueLimit,
         NEW n \in Notes, LY!Announce(n)
  PROVE  lyQueue' \in Seq(Notes) /\ Len(lyQueue') <= QueueLimit
<1>1. QueueLimit \in Nat /\ Len(lyQueue) \in Nat
  BY DEF LY!LimitAssumption
<1>2. CASE Len(lyQueue) < QueueLimit
  <2>1. lyQueue' = Append(lyQueue, n)
    BY <1>2 DEF LY!Announce
  <2>2. Append(lyQueue, n) \in Seq(Notes) /\ Len(Append(lyQueue, n)) = Len(lyQueue) + 1
    OBVIOUS
  <2> QED BY <1>1, <1>2, <2>1, <2>2
<1>3. CASE ~(Len(lyQueue) < QueueLimit)
  BY <1>3 DEF LY!Announce
<1> QED BY <1>2, <1>3

LEMMA NotesAre ==
  /\ \A t \in Targets : [kind |-> "target", target |-> t] \in Notes
  /\ [kind |-> "strike", target |-> None] \in Notes
BY DEF Notes

LEMMA TickTypesStep ==
  ASSUME SessionInv, SessionInv', WorldTypes, LY!Loop
  PROVE  lyTick'.pc # "idle" => lyTick'.settings \in LYConfigs
<1>1. lyTick \in [pc : Stages, settings : LYConfigs \cup {None}, generation : Nat]
  BY DEF SessionInv, SessionTypes
<1>2. CASE LY!Return
  BY <1>2 DEF LY!Return, LY!Idle
<1>3. CASE lyTick' = lyTick
  BY <1>3 DEF WorldTypes
<1>4. ASSUME lyTick.pc # "idle", NEW pc, LY!Goto(pc) PROVE lyTick'.settings \in LYConfigs
  BY <1>1, <1>4 DEF LY!Goto, WorldTypes
<1>5. CASE LY!TickBegin
  BY <1>5 DEF LY!TickBegin, SessionInv, SessionTypes
<1>6. CASE LY!TickInactive
  BY <1>3, <1>6 DEF LY!TickInactive
<1>7. CASE \/ LY!TickKeep \/ LY!TickConnect \/ LY!TickSubscribe \/ LY!TickRefused
           \/ LY!SeedCurrentTargets \/ LY!SetSeeded \/ LY!PublishDeviceJobs
  BY <1>2, <1>4, <1>7 DEF LY!TickKeep, LY!TickConnect, LY!TickSubscribe, LY!TickRefused,
     LY!SeedCurrentTargets, LY!SetSeeded, LY!PublishDeviceJobs, LY!At, LY!GotoIfCurrent
<1> QED BY <1>5, <1>6, <1>7 DEF LY!Loop

LEMMA WorldStep ==
  ASSUME LY!LimitAssumption, SessionInv, SessionInv', WorldTypes, [LY!Next]_(LY!vars)
  PROVE  WorldTypes'
<1> USE DEF LY!conn, LY!device, LY!mqtt, LY!world
<1>0. /\ lyClient = [cfg |-> lyClient.cfg, state |-> lyClient.state,
                     topics |-> lyClient.topics, first |-> lyClient.first, late |-> lyClient.late]
      /\ lyClient.cfg \in LYConfigs \cup {None}
  BY DEF SessionInv, SessionTypes, WorldTypes
<1>1. lyTick'.pc # "idle" => lyTick'.settings \in LYConfigs
  <2>1. CASE lyTick' = lyTick
    BY <2>1 DEF WorldTypes
  <2>2. CASE ~LY!Loop
    <3>1. lyTick' = lyTick
      BY <2>2 DEF LY!Next, LY!vars, LY!Operator, LY!ApplySettings, LY!Reconnect, LY!CallerDisconnects,
         LY!HandleEvent, LY!RunJob, LY!Abandon, LY!PublishRegistration, LY!PublishStatus,
         LY!MarkStatus, LY!PopPending, LY!FlushDevice, LY!Time, LY!RetryDue, LY!IntervalsPass,
         LY!Outside, LY!TargetSeen, LY!StrikeChanges, LY!BrokerDrops, LY!Library,
         LY!OnConnectionLost, LY!LibraryReconnects, LY!Controls, LY!HandleControlMessage,
         LY!PublishControlResponse
    <3> QED BY <2>1, <3>1
  <2> QED BY <2>2, TickTypesStep
<1>2. lyClient'.cfg \in LYConfigs \cup {None}
  <2>1. CASE lyClient' = LY!NoClient
    BY <2>1 DEF LY!NoClient
  <2>2. ASSUME NEW cl, lyClient' = cl, cl.cfg = lyClient.cfg PROVE lyClient'.cfg \in LYConfigs \cup {None}
    BY <1>0, <2>2
  <2>3. CASE LY!TickConnect
    <3>1. lyTick.settings \in LYConfigs
      BY <2>3 DEF LY!TickConnect, LY!At, WorldTypes
    <3> QED BY <1>0, <2>3, <3>1 DEF LY!TickConnect, LY!OpenClient, LY!OpenFails
  <2>4. CASE LY!TickSubscribe \/ LY!BrokerDrops \/ LY!LibraryReconnects
    BY <1>0, <2>4 DEF LY!TickSubscribe, LY!BrokerDrops, LY!LibraryReconnects
  <2>5. CASE LY!CallerDisconnects \/ LY!TickInactive \/ LY!TickRefused
    BY <2>1, <2>5 DEF LY!CallerDisconnects, LY!TickInactive, LY!TickRefused, LY!Disconnect
  <2>6. CASE lyClient' = lyClient
    BY <1>0, <2>6
  <2>7. CASE \/ LY!Operator \/ LY!TickBegin \/ LY!TickKeep \/ LY!SeedCurrentTargets \/ LY!SetSeeded
             \/ LY!PublishDeviceJobs \/ LY!HandleEvent \/ LY!RunJob \/ LY!Time
             \/ (\E t \in Targets : LY!TargetSeen(t)) \/ LY!StrikeChanges \/ LY!OnConnectionLost
             \/ LY!Controls \/ LY!PublishControlResponse \/ UNCHANGED LY!vars
    BY <2>6, <2>7 DEF LY!vars, LY!Operator, LY!ApplySettings, LY!Reconnect, LY!TickBegin, LY!TickKeep,
       LY!SeedCurrentTargets, LY!SetSeeded, LY!PublishDeviceJobs, LY!HandleEvent, LY!RunJob,
       LY!Abandon, LY!PublishRegistration, LY!PublishStatus, LY!MarkStatus, LY!PopPending,
       LY!FlushDevice, LY!Time, LY!RetryDue, LY!IntervalsPass, LY!TargetSeen, LY!StrikeChanges,
       LY!OnConnectionLost, LY!Controls, LY!HandleControlMessage, LY!PublishControlResponse
  <2> QED BY <2>3, <2>4, <2>5, <2>7 DEF LY!Next, LY!Loop, LY!Outside, LY!Library
<1>3. lyQueue' \in Seq(Notes) /\ Len(lyQueue') <= QueueLimit /\ lyLive' \subseteq Targets
  <2>1. lyQueue \in Seq(Notes) /\ Len(lyQueue) <= QueueLimit /\ lyLive \subseteq Targets
    BY DEF WorldTypes
  <2>2. CASE UNCHANGED <<lyQueue, lyLive>>
    BY <2>1, <2>2
  <2>3. CASE \E t \in Targets : LY!TargetSeen(t)
    BY <2>1, <2>3, AnnounceStep, NotesAre DEF LY!TargetSeen
  <2>4. CASE LY!StrikeChanges
    BY <2>1, <2>4, AnnounceStep, NotesAre DEF LY!StrikeChanges
  <2>5. CASE LY!HandleEvent
    <3>1. lyQueue # <<>> /\ lyQueue' = Tail(lyQueue) /\ lyLive' = lyLive
      BY <2>5 DEF LY!HandleEvent
    <3>2. QueueLimit \in Nat
      BY DEF LY!LimitAssumption
    <3> QED BY ONLY <2>1, <3>1, <3>2
  <2>6. CASE \/ LY!Operator \/ LY!CallerDisconnects \/ LY!Loop \/ LY!RunJob \/ LY!Time
             \/ LY!BrokerDrops \/ LY!Library \/ LY!Controls \/ LY!PublishControlResponse
             \/ UNCHANGED LY!vars
    BY <2>2, <2>6 DEF LY!vars, LY!Operator, LY!ApplySettings, LY!Reconnect, LY!CallerDisconnects,
       LY!Loop, LY!TickInactive, LY!TickBegin, LY!TickKeep, LY!TickConnect, LY!TickSubscribe,
       LY!TickRefused, LY!SeedCurrentTargets, LY!SetSeeded, LY!PublishDeviceJobs, LY!RunJob,
       LY!Abandon, LY!PublishRegistration, LY!PublishStatus, LY!MarkStatus, LY!PopPending,
       LY!FlushDevice, LY!Time, LY!RetryDue, LY!IntervalsPass, LY!BrokerDrops, LY!Library,
       LY!OnConnectionLost, LY!LibraryReconnects, LY!Controls, LY!HandleControlMessage,
       LY!PublishControlResponse
  <2> QED BY <2>3, <2>4, <2>5, <2>6 DEF LY!Next, LY!Outside
<1> QED BY <1>1, <1>2, <1>3 DEF WorldTypes

LEMMA LingyunTypesStep ==
  ASSUME LY!LimitAssumption, SessionInv, SessionInv', JobsInv, LingyunTypes, [LY!Next]_(LY!vars)
  PROVE  LingyunTypes'
BY FlagStep, DeviceStep, JobTypesStep, WorldStep DEF LingyunTypes

LEMMA InitLingyun == LY!LimitAssumption /\ LY!Init => LingyunTypes
<1> SUFFICES ASSUME LY!LimitAssumption, LY!Init PROVE LingyunTypes
  OBVIOUS
<1>1. FlagTypes /\ DeviceTypes /\ JobTypes
  BY DEF LY!Init, FlagTypes, DeviceTypes, JobTypes
<1>2. WorldTypes
  BY DEF LY!LimitAssumption, LY!Init, LY!Idle, LY!NoClient, WorldTypes
<1> QED BY <1>1, <1>2 DEF LingyunTypes

LEMMA LingyunTyped == SessionInv /\ LingyunTypes => LY!TypeOK
BY DEF SessionInv, SessionTypes, LingyunTypes, FlagTypes, DeviceTypes, JobTypes, WorldTypes,
   Objects, LY!TypeOK
------------------------------------------------------------------------------
\* A behaviour of the two is one of each.
LEMMA StepsOfConnectors ==
  ASSUME [Next]_vars
  PROVE  [CS!Next]_(CS!vars) /\ [LY!Next]_(LY!vars)
BY DEF Next, vars, csVars, lyVars,
   CS!conn, CS!mqtt, CS!seen, CS!task, CS!vars, LY!conn, LY!device, LY!mqtt, LY!vars,
   LY!world

\* The counter-strike connector.  The two instances have the same definitions.
CP == INSTANCE CounterStrikeProofs WITH
  Configs <- CSConfigs, Saved <- CSSaved, MaxEvents <- CSMaxEvents,
  settings <- csSettings, generation <- csGeneration, status <- csStatus,
  subscribed <- csSubscribed, retryLater <- csRetryLater, tick <- csTick,
  caller <- csCaller, client <- csClient, up <- csUp, lost <- csLost,
  inbox <- csInbox, control <- csControl, responses <- csResponses,
  strike <- csStrike, events <- csEvents, told <- csTold,
  reported <- csReported, answered <- csAnswered

LEMMA CounterStrikeSame ==
  /\ CS!Init => CP!Init
  /\ [CS!Next]_(CS!vars) => [CP!Next]_(CP!vars)
BY DEF
   CS!Active, CP!Active, CS!Addressed, CP!Addressed, CS!Alive, CP!Alive,
   CS!Answer, CP!Answer, CS!AnswerControl, CP!AnswerControl,
   CS!ApplySettings, CP!ApplySettings, CS!At, CP!At, CS!Begin, CP!Begin,
   CS!BrokerDrops, CP!BrokerDrops, CS!CallFails, CP!CallFails,
   CS!CallerDisconnects, CP!CallerDisconnects, CS!ChannelIDs, CP!ChannelIDs,
   CS!Complete, CP!Complete, CS!ConnectionLost, CP!ConnectionLost,
   CS!Control, CP!Control, CS!ControlDone, CP!ControlDone,
   CS!ControlTopic, CP!ControlTopic, CS!Current, CP!Current, CS!Deliver, CP!Deliver,
   CS!Deliveries, CP!Deliveries, CS!Disconnect, CP!Disconnect, CS!Due, CP!Due,
   CS!Event, CP!Event, CS!Execute, CP!Execute, CS!ExecuteControl, CP!ExecuteControl,
   CS!Free, CP!Free, CS!Goto, CP!Goto, CS!GotoIfCurrent, CP!GotoIfCurrent,
   CS!HandleControl, CP!HandleControl, CS!Handlers, CP!Handlers, CS!Idle, CP!Idle,
   CS!Ignored, CP!Ignored, CS!Init, CP!Init, CS!LegacyTopic, CP!LegacyTopic,
   CS!Loop, CP!Loop, CS!Mark, CP!Mark, CS!MarkRegistered, CP!MarkRegistered,
   CS!MarkStated, CP!MarkStated, CS!MatchesBand, CP!MatchesBand, CS!Min, CP!Min,
   CS!Next, CP!Next, CS!NoClient, CP!NoClient, CS!NormalizeBand, CP!NormalizeBand,
   CS!OpenClient, CP!OpenClient, CS!OpenFails, CP!OpenFails, CS!Reconnect, CP!Reconnect,
   CS!Refused, CP!Refused, CS!Registration, CP!Registration, CS!Remember, CP!Remember,
   CS!Remembered, CP!Remembered, CS!ReportDue, CP!ReportDue,
   CS!ResetSubscriptions, CP!ResetSubscriptions, CS!Response, CP!Response,
   CS!RetryDue, CP!RetryDue, CS!Return, CP!Return, CS!RuntimeBands, CP!RuntimeBands,
   CS!SelectInSeq, CP!SelectInSeq, CS!SetConnectFailure, CP!SetConnectFailure,
   CS!SetState, CP!SetState, CS!StrikeEnds, CP!StrikeEnds, CS!TickBegin, CP!TickBegin,
   CS!TickConnect, CP!TickConnect, CS!TickEnsure, CP!TickEnsure,
   CS!TickInactive, CP!TickInactive, CS!TickRead, CP!TickRead,
   CS!TickRefused, CP!TickRefused, CS!TickRegister, CP!TickRegister,
   CS!TickState, CP!TickState, CS!TickSubscribe, CP!TickSubscribe,
   CS!TickSuccess, CP!TickSuccess, CS!Time, CP!Time, CS!Topics, CP!Topics,
   CS!Unknown, CP!Unknown, CS!Unmatched, CP!Unmatched, CS!Usable, CP!Usable,
   CS!WorkState, CP!WorkState, CS!conn, CP!conn, CS!mqtt, CP!mqtt, CS!seen, CP!seen,
   CS!task, CP!task, CS!vars, CP!vars

LEMMA CounterStrikeBounds == CP!BoundsAssumption
<1>1. CS!BoundsAssumption
  BY Bounds
<1> QED BY <1>1 DEF CS!BoundsAssumption, CP!BoundsAssumption

\* A connector that says it is connected has the control topics of its saved
\* settings subscribed on the session it has (tick and the generation checks of
\* both connectors), for any settings saved, reconnects and faults.
THEOREM ChannelsAreOpen == Spec => []ControlChannelOpen
<1>1. Init => CP!Init /\ SessionInv
  <2>1. LY!LimitAssumption
    BY Bounds
  <2> QED BY <2>1, CounterStrikeSame, InitSession DEF Init
<1>2. [Next]_vars => [CP!Next]_(CP!vars)
  BY StepsOfConnectors, CounterStrikeSame
<1>3. SessionInv /\ [Next]_vars => SessionInv'
  BY StepsOfConnectors, SessionStep
<1>4. CP!Spec => []CP!ControlChannelOpen
  BY CounterStrikeBounds, CP!ChannelIsOpen
<1>5. CP!ControlChannelOpen => CS!ControlChannelOpen
  BY DEF
   CS!Alive, CP!Alive, CS!ControlChannelOpen, CP!ControlChannelOpen,
   CS!ControlTopic, CP!ControlTopic, CS!LegacyTopic, CP!LegacyTopic,
   CS!Topics, CP!Topics
<1>6. SessionInv /\ CS!ControlChannelOpen => ControlChannelOpen
  BY SessionSuffices DEF ControlChannelOpen
<1> QED BY <1>1, <1>2, <1>3, <1>4, <1>5, <1>6, PTL DEF Spec, CP!Spec

\* The counter-strike connector keeps a registration time only for settings whose
\* registration went out (the generation check in tick's callbacks), for any
\* settings saved while an answer is on its way.
THEOREM RegistrationsAreTold == Spec => []RegisteredMeansTold
<1>1. Init => CP!Init
  BY CounterStrikeSame DEF Init
<1>2. [Next]_vars => [CP!Next]_(CP!vars)
  BY StepsOfConnectors, CounterStrikeSame
<1>3. CP!Spec => []CP!RegisteredMeansTold
  BY CounterStrikeBounds, CP!RegistrationIsTold
<1>4. CP!RegisteredMeansTold => RegisteredMeansTold
  BY DEF RegisteredMeansTold,
   CS!NormalizeBand, CP!NormalizeBand, CS!RegisteredMeansTold, CP!RegisteredMeansTold,
   CS!Registration, CP!Registration, CS!RuntimeBands, CP!RuntimeBands,
   CS!Usable, CP!Usable
<1> QED BY <1>1, <1>2, <1>3, <1>4, PTL DEF Spec, CP!Spec

\* A strike command that comes again is not executed again before as many other
\* tasks were answered as the cache remembers (controlMu, rememberResponse), for any
\* commands, devices and size of the cache.
THEOREM CommandsExecutedOnce == Spec => []ExecutedOnce
<1>1. Init => CP!Init
  BY CounterStrikeSame DEF Init
<1>2. [Next]_vars => [CP!Next]_(CP!vars)
  BY StepsOfConnectors, CounterStrikeSame
<1>3. CP!Spec => []CP!ExecutedOnce
  BY CounterStrikeBounds, CP!TaskIsExecutedOnce
<1>4. CP!ExecutedOnce => ExecutedOnce
  BY DEF ExecutedOnce,
   CS!Cardinality, CP!Cardinality, CS!ExecutedOnce, CP!ExecutedOnce
<1> QED BY <1>1, <1>2, <1>3, <1>4, PTL DEF Spec, CP!Spec

\* An object that Lingyun has taken in for reporting is waiting, or held by the job
\* that publishes it, until it was published (popPending, restorePending), for any
\* devices, targets and failing publications.
THEOREM NoObjectLost == Spec => []NothingLost
<1>1. Init => JobsInv
  BY InitJobs DEF Init
<1>2. JobsInv /\ [Next]_vars => JobsInv'
  BY StepsOfConnectors, JobsStep
<1>3. JobsInv => NothingLost
  BY DEF JobsInv, NothingLost
<1> QED BY <1>1, <1>2, <1>3, PTL DEF Spec

\* Both connectors keep the types of their state, for any settings, devices, targets
\* and commands: the loop of neither works for a generation to come or for settings
\* nobody saved, the cache of answers and the channel of events keep their sizes, and
\* jobs, waiting objects and reports due are of devices that are known.
THEOREM TypesAreKept == Spec => []TypeOK
<1>1. LY!LimitAssumption
  BY Bounds
<1>2. Init => CP!Init /\ SessionInv /\ JobsInv /\ LingyunTypes
  BY <1>1, CounterStrikeSame, InitSession, InitJobs, InitLingyun DEF Init
<1>3. [Next]_vars => [CP!Next]_(CP!vars)
  BY StepsOfConnectors, CounterStrikeSame
<1>4. SessionInv /\ [Next]_vars => SessionInv'
  BY StepsOfConnectors, SessionStep
<1>5. JobsInv /\ [Next]_vars => JobsInv'
  BY StepsOfConnectors, JobsStep
<1>6. SessionInv /\ SessionInv' /\ JobsInv /\ LingyunTypes /\ [Next]_vars => LingyunTypes'
  BY <1>1, StepsOfConnectors, LingyunTypesStep
<1>7. CP!Spec => []CP!TypeOK
  BY CounterStrikeBounds, CP!TypeCorrect
<1>8. SessionInv /\ LingyunTypes /\ CP!TypeOK => TypeOK
  <2>1. CP!TypeOK => CS!TypeOK
    BY DEF CS!TypeOK, CP!TypeOK, CS!Usable, CP!Usable
  <2> QED BY <2>1, LingyunTyped DEF TypeOK
<1> QED BY <1>2, <1>3, <1>4, <1>5, <1>6, <1>7, <1>8, PTL DEF Spec, CP!Spec
==============================================================================
