----------------------------- MODULE Connectors -----------------------------
(***************************************************************************)
(* The two protocol connectors of the station.  Each keeps its own MQTT      *)
(* session, settings and queues; they meet only in the interference service *)
(* both command, which each of their modules treats as answering anything.  *)
(* A behaviour follows one of them, so the states of the two add up.        *)
(***************************************************************************)
EXTENDS Integers

CONSTANTS
  None, Channels, Requests, CSConfigs, CSSaved, MaxResponses, CSMaxEvents,
  Devices, LYConfigs, LYSaved, Targets, ControlRequests, QueueLimit, LYMaxEvents

VARIABLES
  subject,   \* the connector the behaviour follows
  csSettings, csGeneration, csStatus, csSubscribed, csRetryLater, csTick,
  csCaller, csClient, csUp, csLost, csInbox, csControl, csResponses,
  csStrike, csEvents, csTold, csReported, csAnswered,
  lySettings, lyGeneration, lyConnected, lySubscribed, lySeeded,
  lyRetryLater, lyDue, lyReporting, lyPending, lyInFlight, lyJobs, lyTick,
  lyCaller, lyControl, lyClient, lyUp, lyLost, lyQueue, lyLive, lyStrike,
  lyEvents, lyOwed

csVars == <<csSettings, csGeneration, csStatus, csSubscribed, csRetryLater,
            csTick, csCaller, csClient, csUp, csLost, csInbox, csControl,
            csResponses, csStrike, csEvents, csTold, csReported, csAnswered>>
lyVars == <<lySettings, lyGeneration, lyConnected, lySubscribed, lySeeded,
            lyRetryLater, lyDue, lyReporting, lyPending, lyInFlight, lyJobs,
            lyTick, lyCaller, lyControl, lyClient, lyUp, lyLost, lyQueue,
            lyLive, lyStrike, lyEvents, lyOwed>>
vars == <<subject, csVars, lyVars>>

CS == INSTANCE CounterStrike WITH
  Configs <- CSConfigs, Saved <- CSSaved, MaxEvents <- CSMaxEvents,
  settings <- csSettings, generation <- csGeneration, status <- csStatus,
  subscribed <- csSubscribed, retryLater <- csRetryLater, tick <- csTick,
  caller <- csCaller, client <- csClient, up <- csUp, lost <- csLost,
  inbox <- csInbox, control <- csControl, responses <- csResponses,
  strike <- csStrike, events <- csEvents, told <- csTold,
  reported <- csReported, answered <- csAnswered

LY == INSTANCE Lingyun WITH
  Configs <- LYConfigs, Saved <- LYSaved, Requests <- ControlRequests,
  MaxEvents <- LYMaxEvents, settings <- lySettings,
  generation <- lyGeneration, connected <- lyConnected,
  subscribed <- lySubscribed, seeded <- lySeeded,
  retryLater <- lyRetryLater, due <- lyDue, reporting <- lyReporting,
  pending <- lyPending, inFlight <- lyInFlight, jobs <- lyJobs,
  tick <- lyTick, caller <- lyCaller, control <- lyControl,
  client <- lyClient, up <- lyUp, lost <- lyLost, queue <- lyQueue,
  live <- lyLive, strike <- lyStrike, events <- lyEvents, owed <- lyOwed
ASSUME Bounds == CS!BoundsAssumption /\ LY!LimitAssumption
------------------------------------------------------------------------------
Init == CS!Init /\ LY!Init /\ subject \in {"counterStrike", "lingyun"}

CSStep(A) == subject = "counterStrike" /\ A /\ UNCHANGED <<subject, lyVars>>
LYStep(A) == subject = "lingyun" /\ A /\ UNCHANGED <<subject, csVars>>

Next ==
  \/ subject = "counterStrike" /\ CS!Next /\ UNCHANGED <<subject, lyVars>>
  \/ subject = "lingyun" /\ LY!Next /\ UNCHANGED <<subject, csVars>>

\* What each connector owes, as CS!Fairness and LY!Fairness state it.  subject
\* never changes, so one condition can serve the same thread of both; and what
\* a bounded number of events starts can only be finished so often, so that
\* handlers and callbacks can share one.
Started ==
  \/ CSStep(CS!CallerDisconnects \/ CS!ConnectionLost \/ CS!Control)
  \/ LYStep(LY!CallerDisconnects \/ LY!OnConnectionLost)
Fairness ==
  /\ WF_vars(CSStep(CS!Loop) \/ LYStep(LY!Loop))
  /\ WF_vars(Started)
  /\ WF_vars(CSStep(CS!RetryDue) \/ LYStep(LY!RetryDue))
  /\ WF_vars(CSStep(CS!ReportDue("registered")))
  /\ WF_vars(CSStep(CS!ReportDue("stated")))

Spec == Init /\ [][Next]_vars
FairSpec == Spec /\ Fairness
------------------------------------------------------------------------------
\* The types of both connectors' state.
TypeOK == CS!TypeOK /\ LY!TypeOK

\* A connector that says it is connected has its control topics subscribed on
\* the session it has, after every reconnect and settings change.
ControlChannelOpen ==
  /\ subject = "counterStrike" => CS!ControlChannelOpen
  /\ subject = "lingyun" => LY!ControlChannelOpen

\* The counter-strike connector books a registration only for settings it has
\* registered (the generation check in tick's callbacks).
RegisteredMeansTold == CS!RegisteredMeansTold

\* A strike command delivered twice is executed once as long as its answer is
\* remembered.
ExecutedOnce == CS!ExecutedOnce

\* A Lingyun object is not lost by failing publications.
NothingLost == LY!NothingLost

\* Once settings, faults and commands have settled either connector recovers: it
\* has an open session, Lingyun with its controls subscribed, and the platform of
\* that session was last told the real work state.  The session is the one of the
\* saved settings, however often other settings were saved and whatever failed on
\* the way, but for a session opened with settings replaced while the loop was
\* about to connect: that one stays, see SessionMatchesSettings.
Recovers ==
  <>[](/\ subject = "counterStrike" => CS!Converged
       /\ subject = "lingyun" => LY!Recovered)

\* Saved settings take effect: the manual has a connector reconnect with the new
\* Client ID or device once it is saved (user-manual.md:470, 513).
SessionMatchesSettings ==
  /\ subject = "counterStrike" => CS!SessionMatchesSettings
  /\ subject = "lingyun" => LY!SessionMatchesSettings
==============================================================================
