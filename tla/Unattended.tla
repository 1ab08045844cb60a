----------------------------- MODULE Unattended -----------------------------
(***************************************************************************)
(* The unattended mode of internal/interference: a worker goroutine that    *)
(* strikes whenever a target is present, and the API requests that switch   *)
(* the mode.  Switching the mode cancels the worker and waits for it, and   *)
(* to wait it releases Service.mu in the middle of the request; saving the  *)
(* mode happens after mu is released.  Those two windows are the subject.   *)
(*                                                                          *)
(* Starting and stopping outputs under mu are single steps here: module     *)
(* Interference is about what happens inside them.                          *)
(***************************************************************************)
EXTENDS Integers

CONSTANTS Clients,      \* API requests that may be under way at the same time
          MaxWorkers,   \* bound: worker goroutines started in one behaviour
          MaxRequests,  \* bound: API requests in one behaviour
          MaxFaults     \* bound: failures of the relay, the link and the save

ASSUME UnattendedAssumption ==
  /\ MaxRequests \in Nat
  /\ MaxFaults \in Nat
  /\ MaxWorkers \in Nat /\ MaxWorkers > MaxRequests + MaxFaults

Workers == 1..MaxWorkers
NoWorker == 0

VARIABLES
  outputs,   \* who closed outputs of the relay: nobody, a manual or an unattended start
  online,    \* the relay can be reached (confirmedOffline says the opposite)
  active,    \* screenStrikeActive: what was last observed of the outputs
  report,    \* activeReport is not nil
  pending,   \* pendingStrikeStop
  target,    \* hasLiveTarget
  enabled,   \* unattended.Enabled
  phase,     \* unattended.Phase
  cancel,    \* the worker that unattendedCancel and unattendedDone belong to
  wpc,       \* per worker goroutine: where it is
  cancelled, \* the workers whose context is cancelled
  cpc, for,  \* per request: where it is, and the worker it waits for
  stop, save, failed,  \* requests that have a strike to stop, the mode to save, an error
  disk,      \* the mode saved in the user settings
  overlap,   \* history: two requests that switch the mode overlapped
  unsaved,   \* history: the mode could not be saved, or not be restored
  next, requests, faults  \* counters: workers started and the two bounds

strike == <<outputs, active, report, pending>>
mode == <<enabled, phase, cancel, next>>
worker == <<wpc, cancelled>>
client == <<cpc, for, stop, save, failed>>
history == <<overlap, unsaved>>
budget == <<requests, faults>>
vars == <<strike, online, target, mode, worker, client, disk, history, budget>>

WorkerPc == {"none", "next", "sleep", "look", "mark", "start", "watch", "poll", "rest", "done"}
ClientPc == {"idle", "wait.on", "wait.off", "save.on", "undo", "stop", "save.off", "answer"}
Finished == {"none", "done"}
Waiting == {"wait.on", "wait.off"}

StrikeTypes == /\ outputs \in {"open", "manual", "auto"}
               /\ active \in BOOLEAN /\ report \in BOOLEAN /\ pending \in BOOLEAN
ModeTypes == /\ enabled \in BOOLEAN
             /\ phase \in {"disabled", "watching", "striking", "resting"}
             /\ phase = "disabled" <=> ~enabled
             /\ cancel \in Workers \cup {NoWorker}
             /\ next \in 1..(MaxWorkers + 1)
WorkerTypes == wpc \in [Workers -> WorkerPc] /\ cancelled \subseteq Workers
ClientTypes == /\ cpc \in [Clients -> ClientPc]
               /\ for \in [Clients -> Workers \cup {NoWorker}]
               /\ stop \subseteq Clients /\ save \subseteq Clients /\ failed \subseteq Clients
WorldTypes == /\ online \in BOOLEAN /\ target \in BOOLEAN /\ disk \in BOOLEAN
              /\ overlap \in BOOLEAN /\ unsaved \in BOOLEAN
BudgetTypes == requests \in Nat /\ faults \in Nat

TypeOK == /\ StrikeTypes /\ ModeTypes /\ WorkerTypes /\ ClientTypes
          /\ WorldTypes /\ BudgetTypes

-----------------------------------------------------------------------------
Fault == faults < MaxFaults /\ faults' = faults + 1
NoFault == UNCHANGED faults
Request(c) == /\ cpc[c] = "idle"
              /\ requests < MaxRequests /\ requests' = requests + 1

\* A request that waits for a worker keeps nobody from taking mu: the worker
\* needs mu to come to its end (stopUnattendedLocked).
KeepsMuWaiting(c) == cpc[c] \in Waiting
KeepsMu(c) == FALSE
MuFree == \A c \in Clients : ~KeepsMu(c)

\* What the service learns of the outputs: a snapshot knows nothing of them while
\* the relay is offline; a refresh then keeps what was known, and it ends a report
\* whose outputs are open.
Snapshot == active' = (online /\ outputs # "open")
EndReport == report' = (report /\ (online => outputs # "open"))
Refresh == active' = (IF online THEN outputs # "open" ELSE active) /\ EndReport

\* What a start and a stop do to the outputs and to what is known of them.
Started(kind) == outputs' = kind /\ active' = TRUE /\ report' = TRUE
Stopped == outputs' = "open" /\ active' = FALSE /\ report' = FALSE

\* A stop either opens the outputs or, when the relay cannot be reached, leaves
\* them and becomes pending.  A command that fails ends the report all the same.
\* One that loses the relay before it has read what is closed, with no report to
\* go by, has nothing to open and succeeds.
StopOutputs ==
  \/ online /\ Stopped /\ pending' = FALSE /\ NoFault /\ UNCHANGED online
  \/ ~online /\ pending' = TRUE /\ NoFault /\ UNCHANGED <<outputs, active, report, online>>
  \/ online /\ Fault /\ pending' = TRUE /\ online' = FALSE
     /\ active' = FALSE /\ report' = FALSE /\ UNCHANGED outputs
  \/ online /\ ~report /\ Fault /\ pending' = FALSE /\ online' = FALSE
     /\ active' = FALSE /\ UNCHANGED <<outputs, report>>

-----------------------------------------------------------------------------
(* The relay, the link and the targets.                                     *)

TimerEnd ==
  /\ outputs # "open" /\ outputs' = "open"
  /\ UNCHANGED <<active, report, pending, online, target, mode, worker, client, disk, history, budget>>

LinkLost ==
  /\ online /\ online' = FALSE /\ Fault
  /\ UNCHANGED <<strike, target, mode, worker, client, disk, history, requests>>

LinkBack ==
  /\ ~online /\ online' = TRUE
  /\ UNCHANGED <<strike, target, mode, worker, client, disk, history, budget>>

TargetChange ==
  /\ target' = ~target
  /\ UNCHANGED <<strike, online, mode, worker, client, disk, history, budget>>

\* The monitor's frame or connection error reaches the service.
Observe ==
  /\ MuFree
  /\ Snapshot /\ EndReport
  /\ UNCHANGED <<outputs, pending, online, target, mode, worker, client, disk, history, budget>>

\* retryPendingStrikeStop, from the monitor or from a refresh.
RetryDueReported == pending /\ report
RetryDue == pending
Retry ==
  /\ MuFree /\ RetryDue /\ online
  /\ StopOutputs
  /\ UNCHANGED <<target, mode, worker, client, disk, history, requests>>

-----------------------------------------------------------------------------
(* runUnattended.                                                           *)

At(w, pc) == wpc[w] = pc
GoTo(w, pc) == wpc' = [wpc EXCEPT ![w] = pc] /\ UNCHANGED cancelled
SetPhaseAlways(p) == phase' = p
SetPhase(p) == phase' = IF enabled THEN p ELSE phase

\* updateUnattendedStatus: nothing once the mode is off.
UpdateStatus(p) ==
  /\ SetPhase(p)
  /\ IF enabled THEN Snapshot ELSE UNCHANGED active

NextCheck(w) ==
  /\ At(w, "next") /\ MuFree
  /\ GoTo(w, "sleep")
  /\ UNCHANGED <<strike, online, target, mode, client, disk, history, budget>>

\* The timer expires or the context is cancelled.
Wake(w) ==
  /\ At(w, "sleep")
  /\ GoTo(w, IF w \in cancelled THEN "done" ELSE "look")
  /\ UNCHANGED <<strike, online, target, mode, client, disk, history, budget>>

\* From here to the poll the context is not looked at again.
Look(w) ==
  /\ At(w, "look")
  /\ GoTo(w, IF target THEN "mark" ELSE "watch")
  /\ UNCHANGED <<strike, online, target, mode, client, disk, history, budget>>

Mark(w) ==
  /\ At(w, "mark") /\ MuFree
  /\ UpdateStatus("striking")
  /\ GoTo(w, "start")
  /\ UNCHANGED <<outputs, report, pending, online, target, enabled, cancel, next, client, disk, history, budget>>

AfterFailureEnd == "done"
AfterFailure == "watch"

\* The start is refused, succeeds, or fails on the way with outputs closed.
StrikeRefused(w) ==
  /\ At(w, "start") /\ MuFree
  /\ ~online \/ pending \/ outputs # "open"
  /\ IF online /\ ~pending THEN Snapshot ELSE UNCHANGED active
  /\ GoTo(w, AfterFailure)
  /\ UNCHANGED <<outputs, report, pending, online, target, mode, client, disk, history, budget>>

StrikeOk(w) ==
  /\ At(w, "start") /\ MuFree
  /\ online /\ ~pending /\ outputs = "open"
  /\ Started("auto")
  /\ GoTo(w, "poll")
  /\ UNCHANGED <<pending, online, target, mode, client, disk, history, budget>>

StrikeFails(w) ==
  /\ At(w, "start") /\ MuFree
  /\ online /\ ~pending /\ outputs = "open"
  /\ Fault /\ online' = FALSE
  /\ outputs' \in {"open", "auto"} /\ active' = FALSE /\ report' = FALSE
  /\ GoTo(w, AfterFailure)
  /\ UNCHANGED <<pending, target, mode, client, disk, history, requests>>

\* A poll reads the outputs, or the cached state while the relay is offline.
Poll(w) ==
  /\ At(w, "poll") /\ MuFree
  /\ IF w \in cancelled
       THEN GoTo(w, "done") /\ UNCHANGED <<active, report>>
       ELSE /\ Refresh
            /\ IF active' THEN UNCHANGED worker ELSE GoTo(w, "rest")
  /\ UNCHANGED <<outputs, pending, online, target, mode, client, disk, history, budget>>

\* After a strike, after a failed one and after none.
Turn(w) ==
  /\ wpc[w] \in {"watch", "rest"} /\ MuFree
  /\ UpdateStatus(IF At(w, "rest") THEN "resting" ELSE "watching")
  /\ GoTo(w, "next")
  /\ UNCHANGED <<outputs, report, pending, online, target, enabled, cancel, next, client, disk, history, budget>>

WorkerStep(w) == \/ NextCheck(w) \/ Wake(w) \/ Look(w) \/ Mark(w)
                 \/ StrikeRefused(w) \/ StrikeOk(w) \/ StrikeFails(w)
                 \/ Poll(w) \/ Turn(w)

-----------------------------------------------------------------------------
(* SetUnattended and the manual requests.                                   *)

\* Another request is in the middle of switching the mode.
Overlaps(c) == overlap' = (overlap \/ \E d \in Clients \ {c} : cpc[d] # "idle")

\* The mode is set and its worker started, in one critical section.
SwitchOn ==
  /\ next \in Workers
  /\ enabled' = TRUE /\ phase' = "watching"
  /\ cancel' = next /\ next' = next + 1

\* stopUnattendedLocked takes the worker out of the service, cancels it and lets
\* the request wait for it, which goes on at once when there is none.
TakeWorker == cancel' = NoWorker
CancelAndWait(c, pc) ==
  /\ cancelled' = cancelled \cup {cancel}
  /\ cpc' = [cpc EXCEPT ![c] = pc] /\ for' = [for EXCEPT ![c] = cancel]
NewWorker == wpc' = [wpc EXCEPT ![next] = "next"]
GoesOn(c, pc) == cpc' = [cpc EXCEPT ![c] = pc] /\ for' = [for EXCEPT ![c] = NoWorker]

Enable(c) ==
  /\ Request(c) /\ MuFree /\ Overlaps(c)
  /\ online /\ ~pending /\ outputs = "open"
  /\ Snapshot
  /\ \/ /\ cancel = NoWorker
        /\ SwitchOn /\ NewWorker
        /\ GoesOn(c, "save.on")
        /\ UNCHANGED cancelled
     \/ /\ cancel # NoWorker
        /\ TakeWorker /\ CancelAndWait(c, "wait.on")
        /\ UNCHANGED <<enabled, phase, next, wpc>>
  /\ save' = save \ {c} /\ failed' = failed \ {c}
  /\ UNCHANGED <<outputs, report, pending, online, target, stop, disk, unsaved, faults>>

WaitedForNobody(c) == TRUE
WaitedFor(c) == for[c] \in Workers => wpc[for[c]] \in Finished

EnableWaited(c) ==
  /\ cpc[c] = "wait.on" /\ WaitedFor(c)
  /\ SwitchOn
  /\ Snapshot
  /\ NewWorker
  /\ GoesOn(c, "save.on")
  /\ UNCHANGED <<outputs, report, pending, online, target, cancelled, stop, save, failed,
                 disk, history, budget>>

\* persistUnattendedConfig runs without mu; a failure switches the mode off again.
SaveOn(c) ==
  /\ cpc[c] = "save.on"
  /\ \/ /\ NoFault /\ disk' = TRUE /\ unsaved' = FALSE
        /\ GoesOn(c, "answer")
     \/ /\ Fault /\ UNCHANGED disk /\ unsaved' = TRUE
        /\ GoesOn(c, "undo")
  /\ UNCHANGED <<strike, online, target, mode, worker, stop, save, failed, overlap, requests>>

SwitchedOff == enabled' = FALSE /\ phase' = "disabled"
\* What is left of a disable once the mode is off: a failed stop is reported,
\* and the mode is saved all the same.
AfterStopDone(saves, err) == IF saves /\ ~err THEN "save.off" ELSE "answer"
AfterStop(saves, err) == IF saves THEN "save.off" ELSE "answer"
Rest(stops, saves) == IF stops THEN "stop" ELSE AfterStop(saves, FALSE)

\* A strike may be under way: to be stopped once the worker is gone.
NeedsStop == pending \/ (enabled /\ (phase = "striking" \/ active \/ report))

DisableFrom(c, saves) ==
  /\ MuFree /\ Overlaps(c)
  /\ TakeWorker
  /\ \/ /\ cancel = NoWorker
        /\ SwitchedOff
        /\ GoesOn(c, Rest(NeedsStop, saves))
        /\ UNCHANGED cancelled
     \/ /\ cancel # NoWorker
        /\ CancelAndWait(c, "wait.off")
        /\ UNCHANGED <<enabled, phase>>
  /\ stop' = IF NeedsStop THEN stop \cup {c} ELSE stop \ {c}
  /\ save' = IF saves THEN save \cup {c} ELSE save \ {c}
  /\ failed' = failed \ {c}
  /\ UNCHANGED <<strike, online, target, next, wpc, disk, unsaved, faults>>

Disable(c) == Request(c) /\ DisableFrom(c, TRUE)
UndoEnable(c) == cpc[c] = "undo" /\ DisableFrom(c, FALSE) /\ UNCHANGED requests

DisableWaited(c) ==
  /\ cpc[c] = "wait.off" /\ WaitedFor(c)
  /\ SwitchedOff
  /\ GoesOn(c, Rest(c \in stop, c \in save))
  /\ UNCHANGED <<strike, online, target, cancel, next, worker, stop, save, failed,
                 disk, history, budget>>

StopStrike(c) ==
  /\ cpc[c] = "stop" /\ MuFree
  /\ StopOutputs
  /\ GoesOn(c, AfterStop(c \in save, pending'))
  /\ stop' = stop \ {c}
  /\ failed' = IF pending' THEN failed \cup {c} ELSE failed \ {c}
  /\ UNCHANGED <<target, mode, worker, save, disk, history, requests>>

SaveOff(c) ==
  /\ cpc[c] = "save.off"
  /\ \/ NoFault /\ disk' = FALSE /\ unsaved' = FALSE /\ UNCHANGED failed
     \/ Fault /\ UNCHANGED disk /\ unsaved' = TRUE /\ failed' = failed \cup {c}
  /\ GoesOn(c, "answer")
  /\ UNCHANGED <<strike, online, target, mode, worker, stop, save, overlap, requests>>

\* Each answer carries the state of the outputs, read once more.
Answer(c) ==
  /\ cpc[c] = "answer" /\ MuFree
  /\ Refresh
  /\ GoesOn(c, "idle")
  /\ stop' = stop \ {c} /\ save' = save \ {c} /\ failed' = failed \ {c}
  /\ UNCHANGED <<outputs, pending, online, target, mode, worker, disk, history, budget>>

ManualAlways == TRUE
ManualAllowed == ~enabled

ManualStart(c) ==
  /\ Request(c) /\ MuFree
  /\ ManualAllowed
  /\ online /\ ~pending /\ outputs = "open"
  /\ Started("manual")
  /\ UNCHANGED <<pending, online, target, mode, worker, client, disk, history, faults>>

ManualStop(c) ==
  /\ Request(c) /\ MuFree
  /\ StopOutputs
  /\ UNCHANGED <<target, mode, worker, client, disk, history>>

ClientStep(c) == \/ EnableWaited(c) \/ SaveOn(c) \/ UndoEnable(c)
                 \/ DisableWaited(c) \/ StopStrike(c) \/ SaveOff(c) \/ Answer(c)

-----------------------------------------------------------------------------
(* The process ends, in order or not, and the next one restores the saved     *)
(* mode: not when the relay is out of reach or an output is still closed.     *)

Restored == disk /\ online' /\ outputs = "open"

NoRequest ==
  /\ cpc' = [c \in Clients |-> "idle"] /\ for' = [c \in Clients |-> NoWorker]
  /\ stop' = {} /\ save' = {} /\ failed' = {}
Ended == [w \in Workers |-> IF w < next THEN "done" ELSE wpc[w]]

Reboot ==
  /\ Fault
  /\ online' \in BOOLEAN
  /\ active' = FALSE /\ report' = FALSE /\ pending' = FALSE
  /\ NoRequest
  /\ IF Restored
       THEN SwitchOn /\ wpc' = [Ended EXCEPT ![next] = "next"]
       ELSE SwitchedOff /\ TakeWorker /\ wpc' = Ended /\ UNCHANGED next
  /\ cancelled' = {w \in Workers : w < next}
  /\ unsaved' = (disk /\ ~Restored)
  /\ overlap' = FALSE
  /\ UNCHANGED <<outputs, target, disk, requests>>

-----------------------------------------------------------------------------
\* A start of the program with the mode off, or saved as on and restored.
Init ==
  /\ outputs = "open" /\ online = TRUE /\ active = FALSE /\ report = FALSE /\ pending = FALSE
  /\ target \in BOOLEAN
  /\ cpc = [c \in Clients |-> "idle"] /\ for = [c \in Clients |-> NoWorker]
  /\ stop = {} /\ save = {} /\ failed = {} /\ cancelled = {}
  /\ overlap = FALSE /\ unsaved = FALSE /\ requests = 0 /\ faults = 0
  /\ disk \in BOOLEAN /\ enabled = disk
  /\ IF disk
       THEN phase = "watching" /\ cancel = 1 /\ next = 2
            /\ wpc = [w \in Workers |-> IF w = 1 THEN "next" ELSE "none"]
       ELSE phase = "disabled" /\ cancel = NoWorker /\ next = 1
            /\ wpc = [w \in Workers |-> "none"]

Environment == TimerEnd \/ LinkLost \/ LinkBack \/ TargetChange
Api == \E c \in Clients : Enable(c) \/ Disable(c) \/ ManualStart(c) \/ ManualStop(c)

Next == \/ Environment \/ Observe \/ Retry \/ Api \/ Reboot
        \/ \E w \in Workers : WorkerStep(w)
        \/ \E c \in Clients : ClientStep(c)

Spec == Init /\ [][Next]_vars

(* Goroutines run, waits for mu end, the relay's timer ends every strike and
   the monitor delivers frames: no request, target or fault is fair. *)
Fairness == /\ \A w \in Workers : WF_vars(WorkerStep(w))
            /\ \A c \in Clients : WF_vars(ClientStep(c))
            /\ WF_vars(TimerEnd) /\ WF_vars(Observe) /\ WF_vars(Retry)
FairSpec == Spec /\ Fairness

-----------------------------------------------------------------------------
(* Properties.                                                              *)

Unfinished == {w \in Workers : wpc[w] \notin Finished}

\* While the mode is on a worker serves it, or a request is replacing it: no
\* failure of a strike and no interleaving of requests leaves the mode on and dead.
EnabledHasWorker ==
  enabled => \/ cancel \in Unfinished
             \/ \E c \in Clients : cpc[c] \in Waiting

\* As long as requests do not overlap there is one worker at most, and the
\* service can cancel it or is waiting for it.
OneWorker ==
  ~overlap => \A v, w \in Unfinished :
                /\ v = w
                /\ cancel = w \/ \E c \in Clients : cpc[c] \in Waiting /\ for[c] = w

\* As long as requests do not overlap a manual strike never runs while the mode
\* is on, not even one that was started between two critical sections.
ManualExclusive == ~overlap => ~(enabled /\ outputs = "manual")

\* Between requests the saved mode is the mode, unless a save failed or the mode
\* could not be restored.
SavedAgrees ==
  (~overlap /\ ~unsaved /\ \A c \in Clients : cpc[c] = "idle") => disk = enabled

\* An unattended strike starts only while the mode is on, as long as requests that
\* switch the mode do not overlap (a worker nobody waits for may strike otherwise).
StrikesWhileEnabledAlone ==
  [][outputs # "auto" /\ outputs' = "auto" /\ ~overlap => enabled]_vars

\* A disable that returns without an error leaves no unattended strike behind.
DisableStops ==
  [][\A c \in Clients :
       (cpc[c] = "answer" /\ cpc'[c] = "idle" /\ c \in save \ failed /\ ~overlap)
         => outputs # "auto"]_vars

\* A request that waits for a worker is not kept waiting.
DisableReturns ==
  \A c \in Clients : cpc[c] \in Waiting ~> cpc[c] \notin Waiting

\* A target that stays is struck again and again while the mode stays on and the
\* relay can be reached, whatever failed or was pending before.
TargetIsStruck ==
  <>[](enabled /\ target /\ online) => []<>(outputs = "auto")
=============================================================================
