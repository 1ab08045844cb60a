-------------------------- MODULE UnattendedProofs --------------------------
(***************************************************************************)
(* Proofs about Unattended, for every number of clients, workers, requests  *)
(* and faults.                                                              *)
(***************************************************************************)
EXTENDS Unattended, TLAPS

AllIdle == \A c \in Clients : cpc[c] = "idle"

\* Workers that were not started yet, those cancelled, and the one the service can
\* cancel: it is running, and nobody has cancelled it.
WorkersInv ==
  /\ \A w \in Workers : w >= next => wpc[w] = "none"
  /\ \A w \in cancelled : w < next
  /\ cancel # NoWorker => /\ cancel < next
                          /\ wpc[cancel] \notin Finished
                          /\ cancel \notin cancelled

\* The mode without a worker to cancel: some request is replacing it.
Served == enabled /\ cancel = NoWorker => \E c \in Clients : cpc[c] \in Waiting

\* No request is under way: the service knows every worker, the saved mode is the mode.
Quiet ==
  /\ AllIdle
  /\ \A w \in Unfinished : cancel = w
  /\ unsaved \/ disk = enabled

\* Only c is under way: the service or c knows every worker, and what c has left to
\* do will make the saved mode the mode.
SaveKnown(c) ==
  /\ cpc[c] = "save.on" => enabled
  /\ cpc[c] = "undo" => unsaved
  /\ cpc[c] = "wait.off" => c \in save \/ unsaved
  /\ cpc[c] = "stop" => ~enabled /\ (c \in save \/ unsaved)
  /\ cpc[c] = "save.off" => ~enabled
  /\ cpc[c] = "answer" => unsaved \/ disk = enabled
Busy(c) ==
  /\ cpc[c] # "idle"
  /\ \A d \in Clients \ {c} : cpc[d] = "idle"
  /\ \A w \in Unfinished : cancel = w \/ (cpc[c] \in Waiting /\ for[c] = w)
  /\ cpc[c] \in Waiting => enabled /\ cancel = NoWorker
  /\ SaveKnown(c)

\* The mode is on while it has a worker, and no manual strike runs meanwhile.
ModeKnown == (cancel # NoWorker => enabled) /\ ~(enabled /\ outputs = "manual")

\* As long as requests do not overlap, one of them at most is under way.
AloneInv == ~overlap => ModeKnown /\ (Quiet \/ \E c \in Clients : Busy(c))

IInv == TypeOK /\ WorkersInv /\ Served /\ AloneInv

-----------------------------------------------------------------------------
LEMMA WorkersAreNumbers == Workers \subseteq Nat \ {0} /\ NoWorker \notin Workers
BY UnattendedAssumption DEF Workers, NoWorker

LEMMA InitIInv == Init => IInv
<1> SUFFICES ASSUME Init PROVE IInv
  OBVIOUS
<1> USE UnattendedAssumption DEF Init, Workers, NoWorker
<1>1. StrikeTypes /\ WorldTypes /\ BudgetTypes
  BY DEF StrikeTypes, WorldTypes, BudgetTypes
<1>2. ModeTypes
  BY DEF ModeTypes
<1>3. WorkerTypes
  BY DEF WorkerTypes, WorkerPc
<1>4. ClientTypes
  BY DEF ClientTypes, ClientPc
<1>5. WorkersInv /\ Served
  BY DEF WorkersInv, Served, Finished, Waiting
<1>6. AloneInv
  BY DEF AloneInv, ModeKnown, Quiet, AllIdle, Unfinished, Finished
<1> QED BY <1>1, <1>2, <1>3, <1>4, <1>5, <1>6 DEF IInv, TypeOK

-----------------------------------------------------------------------------
(* Types.                                                                   *)

\* A step that leaves a group of variables alone leaves its types alone.
LEMMA Frames ==
  ASSUME TypeOK
  PROVE  /\ UNCHANGED strike => StrikeTypes'
         /\ UNCHANGED mode => ModeTypes'
         /\ UNCHANGED worker => WorkerTypes'
         /\ UNCHANGED client => ClientTypes'
         /\ UNCHANGED <<online, target, disk, history>> => WorldTypes'
         /\ UNCHANGED budget => BudgetTypes'
<1> USE DEF TypeOK
<1>1. UNCHANGED strike => StrikeTypes'
  BY DEF strike, StrikeTypes
<1>2. UNCHANGED mode => ModeTypes'
  BY DEF mode, ModeTypes
<1>3. UNCHANGED worker => WorkerTypes'
  BY DEF worker, WorkerTypes
<1>4. UNCHANGED client => ClientTypes'
  BY DEF client, ClientTypes
<1>5. UNCHANGED <<online, target, disk, history>> => WorldTypes'
  BY DEF history, WorldTypes
<1>6. UNCHANGED budget => BudgetTypes'
  BY DEF budget, BudgetTypes
<1> QED BY <1>1, <1>2, <1>3, <1>4, <1>5, <1>6

LEMMA FaultType ==
  ASSUME TypeOK, Fault \/ NoFault, UNCHANGED requests
  PROVE  BudgetTypes'
BY DEF TypeOK, BudgetTypes, Fault, NoFault

LEMMA StopOutputsType ==
  ASSUME TypeOK, StopOutputs
  PROVE  StrikeTypes' /\ online' \in BOOLEAN /\ (Fault \/ NoFault)
<1>1. StrikeTypes'
  BY DEF TypeOK, StopOutputs, Stopped, StrikeTypes
<1>2. online' \in BOOLEAN /\ (Fault \/ NoFault)
  BY DEF TypeOK, StopOutputs, WorldTypes
<1> QED BY <1>1, <1>2

LEMMA EnvironmentType == ASSUME TypeOK, Environment \/ Observe \/ Retry PROVE TypeOK'
<1> USE Frames
<1>1. CASE TimerEnd
  <2>1. StrikeTypes'
    BY <1>1 DEF TimerEnd, StrikeTypes, TypeOK
  <2> QED BY <1>1, <2>1 DEF TimerEnd, TypeOK
<1>2. CASE LinkLost
  <2>1. WorldTypes' /\ BudgetTypes'
    BY <1>2, FaultType DEF LinkLost, WorldTypes, history, TypeOK
  <2> QED BY <1>2, <2>1 DEF LinkLost, TypeOK
<1>3. CASE LinkBack
  <2>1. WorldTypes'
    BY <1>3 DEF LinkBack, WorldTypes, history, TypeOK
  <2> QED BY <1>3, <2>1 DEF LinkBack, TypeOK
<1>4. CASE TargetChange
  <2>1. WorldTypes'
    BY <1>4 DEF TargetChange, WorldTypes, history, TypeOK
  <2> QED BY <1>4, <2>1 DEF TargetChange, TypeOK
<1>5. CASE Observe
  <2>1. StrikeTypes'
    BY <1>5 DEF Observe, Snapshot, EndReport, StrikeTypes, TypeOK
  <2> QED BY <1>5, <2>1 DEF Observe, TypeOK
<1>6. CASE Retry
  <2>1. StrikeTypes' /\ BudgetTypes' /\ online' \in BOOLEAN
    BY <1>6, StopOutputsType, FaultType DEF Retry
  <2>2. WorldTypes'
    BY <1>6, <2>1 DEF Retry, WorldTypes, history, TypeOK
  <2> QED BY <1>6, <2>1, <2>2 DEF Retry, TypeOK
<1> QED BY <1>1, <1>2, <1>3, <1>4, <1>5, <1>6 DEF Environment

\* A worker goes to a known place, and a phase of the mode that is on is not "disabled".
LEMMA GoToType ==
  ASSUME TypeOK, NEW w \in Workers, NEW pc \in WorkerPc, GoTo(w, pc)
  PROVE  WorkerTypes'
BY DEF TypeOK, GoTo, WorkerTypes

LEMMA UpdateType ==
  ASSUME TypeOK, NEW p \in {"watching", "striking", "resting"}, UpdateStatus(p),
         UNCHANGED <<enabled, cancel, next>>, UNCHANGED <<outputs, report, pending>>
  PROVE  ModeTypes' /\ StrikeTypes'
<1>1. ModeTypes'
  BY DEF TypeOK, UpdateStatus, SetPhase, ModeTypes
<1>2. StrikeTypes'
  BY DEF TypeOK, UpdateStatus, Snapshot, StrikeTypes
<1> QED BY <1>1, <1>2

LEMMA WorkerType == ASSUME TypeOK, NEW w \in Workers, WorkerStep(w) PROVE TypeOK'
<1> USE Frames
<1>1. CASE NextCheck(w) \/ Wake(w) \/ Look(w)
  <2>1. WorkerTypes'
    BY <1>1, GoToType DEF NextCheck, Wake, Look, WorkerPc
  <2> QED BY <1>1, <2>1 DEF NextCheck, Wake, Look, TypeOK
<1>2. CASE Mark(w)
  <2>1. WorkerTypes' /\ ModeTypes' /\ StrikeTypes'
    BY <1>2, GoToType, UpdateType DEF Mark, WorkerPc
  <2> QED BY <1>2, <2>1 DEF Mark, TypeOK
<1>3. CASE StrikeRefused(w)
  <2>1. StrikeTypes'
    BY <1>3 DEF StrikeRefused, Snapshot, StrikeTypes, TypeOK
  <2>2. WorkerTypes'
    BY <1>3, GoToType DEF StrikeRefused, AfterFailure, WorkerPc
  <2> QED BY <1>3, <2>1, <2>2 DEF StrikeRefused, TypeOK
<1>4. CASE StrikeOk(w)
  <2>1. StrikeTypes'
    BY <1>4 DEF StrikeOk, Started, StrikeTypes, TypeOK
  <2>2. WorkerTypes'
    BY <1>4, GoToType DEF StrikeOk, WorkerPc
  <2> QED BY <1>4, <2>1, <2>2 DEF StrikeOk, TypeOK
<1>5. CASE StrikeFails(w)
  <2>1. StrikeTypes'
    BY <1>5 DEF StrikeFails, StrikeTypes, TypeOK
  <2>2. WorkerTypes'
    BY <1>5, GoToType DEF StrikeFails, AfterFailure, WorkerPc
  <2>3. BudgetTypes'
    BY <1>5, FaultType DEF StrikeFails
  <2>4. WorldTypes'
    BY <1>5 DEF StrikeFails, WorldTypes, history, TypeOK
  <2> QED BY <1>5, <2>1, <2>2, <2>3, <2>4 DEF StrikeFails, TypeOK
<1>6. CASE Poll(w)
  <2>1. StrikeTypes'
    BY <1>6 DEF Poll, Refresh, EndReport, StrikeTypes, TypeOK
  <2>2. WorkerTypes'
    BY <1>6, GoToType DEF Poll, WorkerPc
  <2> QED BY <1>6, <2>1, <2>2 DEF Poll, TypeOK
<1>7. CASE Turn(w)
  <2>1. WorkerTypes' /\ ModeTypes' /\ StrikeTypes'
    BY <1>7, GoToType, UpdateType DEF Turn, WorkerPc
  <2> QED BY <1>7, <2>1 DEF Turn, TypeOK
<1> QED BY <1>1, <1>2, <1>3, <1>4, <1>5, <1>6, <1>7 DEF WorkerStep

LEMMA SwitchOnType == ASSUME TypeOK, SwitchOn PROVE ModeTypes'
BY UnattendedAssumption DEF TypeOK, SwitchOn, ModeTypes, Workers

LEMMA GoesOnType ==
  ASSUME TypeOK, NEW c \in Clients, NEW pc \in ClientPc, GoesOn(c, pc),
         stop' \subseteq Clients, save' \subseteq Clients, failed' \subseteq Clients
  PROVE  ClientTypes'
BY DEF TypeOK, GoesOn, ClientTypes

LEMMA WaitType ==
  ASSUME TypeOK, NEW c \in Clients, NEW pc \in ClientPc, CancelAndWait(c, pc), cancel # NoWorker,
         UNCHANGED wpc,
         stop' \subseteq Clients, save' \subseteq Clients, failed' \subseteq Clients
  PROVE  ClientTypes' /\ WorkerTypes'
<1>1. cancel \in Workers
  BY DEF TypeOK, ModeTypes
<1>2. ClientTypes'
  BY <1>1 DEF TypeOK, CancelAndWait, ClientTypes
<1>3. WorkerTypes'
  BY <1>1 DEF TypeOK, CancelAndWait, WorkerTypes
<1> QED BY <1>2, <1>3

LEMMA SetsType ==
  ASSUME TypeOK PROVE stop \subseteq Clients /\ save \subseteq Clients /\ failed \subseteq Clients
BY DEF TypeOK, ClientTypes

LEMMA OverlapType ==
  ASSUME TypeOK, NEW c \in Clients, Overlaps(c), UNCHANGED <<online, target, disk, unsaved>>
  PROVE  WorldTypes'
BY DEF TypeOK, Overlaps, WorldTypes

LEMMA DisableFromType ==
  ASSUME TypeOK, NEW c \in Clients, NEW saves \in BOOLEAN, DisableFrom(c, saves), requests' \in Nat
  PROVE  TypeOK'
<1> USE Frames, SetsType
<1>1. StrikeTypes'
  BY DEF DisableFrom
<1>2. WorldTypes'
  BY OverlapType DEF DisableFrom
<1>3. BudgetTypes'
  BY DEF DisableFrom, TypeOK, BudgetTypes
<1>4. ModeTypes'
  <2>1. TakeWorker /\ UNCHANGED next /\ (SwitchedOff \/ UNCHANGED <<enabled, phase>>)
    BY DEF DisableFrom
  <2>2. ModeTypes
    BY DEF TypeOK
  <2>3. CASE SwitchedOff
    BY <2>1, <2>2, <2>3 DEF TakeWorker, SwitchedOff, ModeTypes
  <2>4. CASE UNCHANGED <<enabled, phase>>
    BY <2>1, <2>2, <2>4 DEF TakeWorker, ModeTypes
  <2> QED BY <2>1, <2>3, <2>4
<1>5. stop' \subseteq Clients /\ save' \subseteq Clients /\ failed' \subseteq Clients
  BY DEF DisableFrom
<1>6. Rest(NeedsStop, saves) \in ClientPc /\ "wait.off" \in ClientPc
  BY DEF Rest, AfterStop, ClientPc
<1>7. ClientTypes' /\ WorkerTypes'
  <2>1. CASE cancel = NoWorker
    <3>1. GoesOn(c, Rest(NeedsStop, saves)) /\ UNCHANGED worker
      BY <2>1 DEF DisableFrom, worker
    <3> QED BY <3>1, <1>5, <1>6, GoesOnType
  <2>2. CASE cancel # NoWorker
    <3>1. CancelAndWait(c, "wait.off") /\ UNCHANGED wpc
      BY <2>2 DEF DisableFrom
    <3> QED BY <2>2, <3>1, <1>5, <1>6, WaitType
  <2> QED BY <2>1, <2>2
<1> QED BY <1>1, <1>2, <1>3, <1>4, <1>7 DEF TypeOK

LEMMA ClientType == ASSUME TypeOK, NEW c \in Clients, ClientStep(c) PROVE TypeOK'
<1> USE Frames, SetsType
<1>1. CASE EnableWaited(c)
  <2>1. StrikeTypes'
    BY <1>1 DEF EnableWaited, Snapshot, StrikeTypes, TypeOK
  <2>2. ModeTypes'
    BY <1>1, SwitchOnType DEF EnableWaited
  <2>3. WorkerTypes'
    BY <1>1 DEF EnableWaited, NewWorker, WorkerTypes, WorkerPc, TypeOK
  <2>4. ClientTypes'
    BY <1>1, GoesOnType DEF EnableWaited, ClientPc
  <2> QED BY <1>1, <2>1, <2>2, <2>3, <2>4 DEF EnableWaited, TypeOK
<1>2. CASE SaveOn(c)
  <2>1. ClientTypes'
    BY <1>2, GoesOnType DEF SaveOn, ClientPc
  <2>2. BudgetTypes'
    BY <1>2, FaultType DEF SaveOn
  <2>3. WorldTypes'
    BY <1>2 DEF SaveOn, WorldTypes, TypeOK
  <2> QED BY <1>2, <2>1, <2>2, <2>3 DEF SaveOn, TypeOK
<1>3. CASE UndoEnable(c)
  <2>1. requests' \in Nat
    BY <1>3 DEF UndoEnable, TypeOK, BudgetTypes
  <2> QED BY <1>3, <2>1, DisableFromType DEF UndoEnable
<1>4. CASE DisableWaited(c)
  <2>1. ModeTypes'
    BY <1>4 DEF DisableWaited, SwitchedOff, ModeTypes, TypeOK
  <2>2. Rest(c \in stop, c \in save) \in ClientPc
    BY DEF Rest, AfterStop, ClientPc
  <2>3. ClientTypes'
    BY <1>4, <2>2, GoesOnType DEF DisableWaited
  <2> QED BY <1>4, <2>1, <2>3 DEF DisableWaited, TypeOK
<1>5. CASE StopStrike(c)
  <2>1. StrikeTypes' /\ BudgetTypes' /\ online' \in BOOLEAN
    BY <1>5, StopOutputsType, FaultType DEF StopStrike
  <2>2. WorldTypes'
    BY <1>5, <2>1 DEF StopStrike, WorldTypes, history, TypeOK
  <2>3. AfterStop(c \in save, pending') \in ClientPc
    BY DEF AfterStop, ClientPc
  <2>4. ClientTypes'
    BY <1>5, <2>3, GoesOnType DEF StopStrike
  <2> QED BY <1>5, <2>1, <2>2, <2>4 DEF StopStrike, TypeOK
<1>6. CASE SaveOff(c)
  <2>1. ClientTypes'
    BY <1>6, GoesOnType DEF SaveOff, ClientPc
  <2>2. BudgetTypes'
    BY <1>6, FaultType DEF SaveOff
  <2>3. WorldTypes'
    BY <1>6 DEF SaveOff, WorldTypes, TypeOK
  <2> QED BY <1>6, <2>1, <2>2, <2>3 DEF SaveOff, TypeOK
<1>7. CASE Answer(c)
  <2>1. StrikeTypes'
    BY <1>7 DEF Answer, Refresh, EndReport, StrikeTypes, TypeOK
  <2>2. ClientTypes'
    BY <1>7, GoesOnType DEF Answer, ClientPc
  <2> QED BY <1>7, <2>1, <2>2 DEF Answer, TypeOK
<1> QED BY <1>1, <1>2, <1>3, <1>4, <1>5, <1>6, <1>7 DEF ClientStep

LEMMA EnableType == ASSUME TypeOK, NEW c \in Clients, Enable(c) PROVE TypeOK'
<1> USE Frames, SetsType
<1>1. StrikeTypes'
  BY DEF Enable, Snapshot, StrikeTypes, TypeOK
<1>2. WorldTypes'
  BY OverlapType DEF Enable
<1>3. BudgetTypes'
  BY DEF Enable, Request, TypeOK, BudgetTypes
<1>4. stop' \subseteq Clients /\ save' \subseteq Clients /\ failed' \subseteq Clients
  BY DEF Enable
<1>5. ModeTypes' /\ ClientTypes' /\ WorkerTypes'
  <2>1. CASE cancel = NoWorker
    <3>1. SwitchOn /\ NewWorker /\ GoesOn(c, "save.on") /\ UNCHANGED cancelled
      BY <2>1 DEF Enable
    <3>2. ModeTypes'
      BY <3>1, SwitchOnType
    <3>3. WorkerTypes'
      BY <3>1 DEF NewWorker, WorkerTypes, WorkerPc, TypeOK
    <3>4. ClientTypes'
      BY <3>1, <1>4, GoesOnType DEF ClientPc
    <3> QED BY <3>2, <3>3, <3>4
  <2>2. CASE cancel # NoWorker
    <3>1. TakeWorker /\ CancelAndWait(c, "wait.on") /\ UNCHANGED <<enabled, phase, next, wpc>>
      BY <2>2 DEF Enable
    <3>2. ModeTypes'
      BY <3>1 DEF TakeWorker, ModeTypes, TypeOK
    <3> QED BY <2>2, <3>1, <3>2, <1>4, WaitType DEF ClientPc
  <2> QED BY <2>1, <2>2
<1> QED BY <1>1, <1>2, <1>3, <1>5 DEF TypeOK

LEMMA ApiType == ASSUME TypeOK, Api PROVE TypeOK'
<1> USE Frames
<1> PICK c \in Clients : Enable(c) \/ Disable(c) \/ ManualStart(c) \/ ManualStop(c)
  BY DEF Api
<1>1. CASE Enable(c)
  BY <1>1, EnableType
<1>2. CASE Disable(c)
  <2>1. requests' \in Nat
    BY <1>2 DEF Disable, Request, TypeOK, BudgetTypes
  <2> QED BY <1>2, <2>1, DisableFromType DEF Disable
<1>3. CASE ManualStart(c)
  <2>1. StrikeTypes'
    BY <1>3 DEF ManualStart, Started, StrikeTypes, TypeOK
  <2>2. BudgetTypes'
    BY <1>3 DEF ManualStart, Request, TypeOK, BudgetTypes
  <2> QED BY <1>3, <2>1, <2>2 DEF ManualStart, TypeOK
<1>4. CASE ManualStop(c)
  <2>1. StrikeTypes' /\ online' \in BOOLEAN /\ (Fault \/ NoFault)
    BY <1>4, StopOutputsType DEF ManualStop
  <2>2. BudgetTypes'
    BY <1>4, <2>1 DEF ManualStop, Request, Fault, NoFault, TypeOK, BudgetTypes
  <2>3. WorldTypes'
    BY <1>4, <2>1 DEF ManualStop, WorldTypes, history, TypeOK
  <2> QED BY <1>4, <2>1, <2>2, <2>3 DEF ManualStop, TypeOK
<1> QED BY <1>1, <1>2, <1>3, <1>4

LEMMA RebootType == ASSUME TypeOK, Reboot PROVE TypeOK'
<1>1. StrikeTypes'
  BY DEF Reboot, StrikeTypes, TypeOK
<1>2. ClientTypes'
  BY DEF Reboot, NoRequest, ClientTypes, ClientPc
<1>3. WorldTypes'
  BY DEF Reboot, WorldTypes, TypeOK
<1>4. BudgetTypes'
  BY DEF Reboot, Fault, BudgetTypes, TypeOK
<1>5. ModeTypes'
  <2>1. CASE SwitchOn
    BY <2>1, SwitchOnType
  <2>2. CASE SwitchedOff /\ TakeWorker /\ UNCHANGED next
    BY <2>2 DEF SwitchedOff, TakeWorker, ModeTypes, TypeOK
  <2> QED BY <2>1, <2>2 DEF Reboot
<1>6. WorkerTypes'
  <2>1. Ended \in [Workers -> WorkerPc]
    BY DEF Ended, WorkerPc, WorkerTypes, TypeOK
  <2>2. wpc' = Ended \/ wpc' = [Ended EXCEPT ![next] = "next"]
    BY DEF Reboot
  <2> QED BY <2>1, <2>2 DEF Reboot, WorkerTypes, WorkerPc
<1> QED BY <1>1, <1>2, <1>3, <1>4, <1>5, <1>6 DEF TypeOK

LEMMA TypeStep == TypeOK /\ [Next]_vars => TypeOK'
<1> SUFFICES ASSUME TypeOK, [Next]_vars PROVE TypeOK'
  OBVIOUS
<1>1. CASE UNCHANGED vars
  BY <1>1, Frames DEF TypeOK, vars
<1> QED BY <1>1, EnvironmentType, WorkerType, ClientType, ApiType, RebootType DEF Next

-----------------------------------------------------------------------------
(* Workers: what every step keeps, whether requests overlap or not.         *)

LEMMA WorkersFrame ==
  ASSUME WorkersInv, UNCHANGED worker, UNCHANGED <<cancel, next>>
  PROVE  WorkersInv'
BY DEF WorkersInv, worker, Finished

\* A worker that moves stays unfinished unless it was cancelled.
LEMMA WorkersMove ==
  ASSUME TypeOK, WorkersInv, NEW w \in Workers, NEW pc \in WorkerPc \ {"none"}, GoTo(w, pc),
         wpc[w] # "none", pc = "done" => w \in cancelled, UNCHANGED <<cancel, next>>
  PROVE  WorkersInv'
<1>1. wpc \in [Workers -> WorkerPc] /\ cancel \in Workers \cup {NoWorker}
  BY DEF TypeOK, WorkerTypes, ModeTypes
<1>2. \A v \in Workers : wpc'[v] = IF v = w THEN pc ELSE wpc[v]
  BY <1>1 DEF GoTo
<1>3. UNCHANGED cancelled
  BY DEF GoTo
<1> QED BY <1>1, <1>2, <1>3 DEF WorkersInv, Finished

LEMMA WorkersOfWorker ==
  ASSUME TypeOK, WorkersInv, NEW w \in Workers, WorkerStep(w)
  PROVE  WorkersInv'
<1> USE WorkersMove DEF At, WorkerPc
<1>1. CASE NextCheck(w)
  BY <1>1 DEF NextCheck, mode
<1>2. CASE Wake(w)
  BY <1>2 DEF Wake, mode
<1>3. CASE Look(w)
  BY <1>3 DEF Look, mode
<1>4. CASE Mark(w)
  BY <1>4 DEF Mark
<1>5. CASE StrikeRefused(w)
  BY <1>5 DEF StrikeRefused, AfterFailure, mode
<1>6. CASE StrikeOk(w)
  BY <1>6 DEF StrikeOk, mode
<1>7. CASE StrikeFails(w)
  BY <1>7 DEF StrikeFails, AfterFailure, mode
<1>8. CASE Poll(w)
  <2>1. CASE UNCHANGED worker
    BY <1>8, <2>1, WorkersFrame DEF Poll, mode
  <2>2. CASE w \in cancelled /\ GoTo(w, "done")
    BY <1>8, <2>2 DEF Poll, mode
  <2>3. CASE GoTo(w, "rest")
    BY <1>8, <2>3 DEF Poll, mode
  <2> QED BY <1>8, <2>1, <2>2, <2>3 DEF Poll
<1>9. CASE Turn(w)
  BY <1>9 DEF Turn
<1> QED BY <1>1, <1>2, <1>3, <1>4, <1>5, <1>6, <1>7, <1>8, <1>9 DEF WorkerStep

LEMMA WorkersSwitchOn ==
  ASSUME TypeOK, WorkersInv, SwitchOn, NewWorker, UNCHANGED cancelled
  PROVE  WorkersInv' /\ cancel' # NoWorker
<1>1. next \in Workers /\ wpc \in [Workers -> WorkerPc] /\ cancelled \subseteq Workers
  BY DEF TypeOK, WorkerTypes, SwitchOn
<1>2. cancel' = next /\ next' = next + 1 /\ next \in Nat \ {0} /\ Workers \subseteq Nat
  BY <1>1, WorkersAreNumbers DEF SwitchOn
<1>3. \A v \in Workers : wpc'[v] = IF v = next THEN "next" ELSE wpc[v]
  BY <1>1 DEF NewWorker
<1>4. \A w \in Workers : w >= next' => wpc'[w] = "none"
  BY <1>1, <1>2, <1>3 DEF WorkersInv
<1>5. \A w \in cancelled' : w < next'
  BY <1>1, <1>2 DEF WorkersInv
<1>6. cancel' < next' /\ wpc'[cancel'] \notin Finished /\ cancel' \notin cancelled' /\ cancel' # NoWorker
  BY <1>1, <1>2, <1>3 DEF WorkersInv, Finished, NoWorker
<1> QED BY <1>4, <1>5, <1>6 DEF WorkersInv

LEMMA WorkersTaken ==
  ASSUME TypeOK, WorkersInv, TakeWorker, UNCHANGED <<next, wpc>>,
         \/ UNCHANGED cancelled
         \/ cancel # NoWorker /\ cancelled' = cancelled \cup {cancel}
  PROVE  WorkersInv'
BY DEF WorkersInv, TakeWorker

LEMMA WorkersOfDisable ==
  ASSUME TypeOK, WorkersInv, NEW c \in Clients, NEW saves \in BOOLEAN, DisableFrom(c, saves)
  PROVE  WorkersInv'
<1>1. TakeWorker /\ UNCHANGED <<next, wpc>>
  BY DEF DisableFrom
<1>2. CASE cancel = NoWorker
  BY <1>1, <1>2, WorkersTaken DEF DisableFrom
<1>3. CASE cancel # NoWorker
  BY <1>1, <1>3, WorkersTaken DEF DisableFrom, CancelAndWait
<1> QED BY <1>2, <1>3

LEMMA WorkersOfEnable ==
  ASSUME TypeOK, WorkersInv, NEW c \in Clients, Enable(c)
  PROVE  WorkersInv'
<1>1. CASE cancel = NoWorker
  BY <1>1, WorkersSwitchOn DEF Enable
<1>2. CASE cancel # NoWorker
  BY <1>2, WorkersTaken DEF Enable, CancelAndWait
<1> QED BY <1>1, <1>2

LEMMA WorkersOfReboot ==
  ASSUME TypeOK, WorkersInv, Reboot
  PROVE  WorkersInv'
<1>1. wpc \in [Workers -> WorkerPc] /\ next \in Nat \ {0} /\ Workers \subseteq Nat
  BY WorkersAreNumbers, UnattendedAssumption DEF TypeOK, WorkerTypes, ModeTypes
<1>2. /\ Ended \in [Workers -> WorkerPc \cup {"done"}]
      /\ \A w \in Workers : w >= next => Ended[w] = "none"
  BY <1>1 DEF Ended, WorkersInv
<1>3. cancelled' = {w \in Workers : w < next}
  BY DEF Reboot
<1>4. CASE Restored
  <2>1. next \in Workers /\ cancel' = next /\ next' = next + 1 /\ wpc' = [Ended EXCEPT ![next] = "next"]
    BY <1>4 DEF Reboot, SwitchOn
  <2>2. \A v \in Workers : wpc'[v] = IF v = next THEN "next" ELSE Ended[v]
    BY <1>2, <2>1
  <2> QED BY <1>1, <1>2, <1>3, <2>1, <2>2 DEF WorkersInv, Finished
<1>5. CASE ~Restored
  <2>1. cancel' = NoWorker /\ next' = next /\ wpc' = Ended
    BY <1>5 DEF Reboot, TakeWorker
  <2> QED BY <1>1, <1>2, <1>3, <2>1 DEF WorkersInv, Finished
<1> QED BY <1>4, <1>5

LEMMA WorkersStep == ASSUME TypeOK, WorkersInv, [Next]_vars PROVE WorkersInv'
<1> USE WorkersFrame
<1>1. CASE UNCHANGED vars
  BY <1>1 DEF vars, mode
<1>2. CASE Environment \/ Observe \/ Retry
  BY <1>2 DEF Environment, TimerEnd, LinkLost, LinkBack, TargetChange, Observe, Retry, mode
<1>3. ASSUME NEW w \in Workers, WorkerStep(w) PROVE WorkersInv'
  BY <1>3, WorkersOfWorker
<1>4. ASSUME NEW c \in Clients, EnableWaited(c) PROVE WorkersInv'
  BY <1>4, WorkersSwitchOn DEF EnableWaited
<1>5. ASSUME NEW c \in Clients, UndoEnable(c) \/ Disable(c) PROVE WorkersInv'
  BY <1>5, WorkersOfDisable DEF UndoEnable, Disable
<1>6. ASSUME NEW c \in Clients,
             SaveOn(c) \/ DisableWaited(c) \/ StopStrike(c) \/ SaveOff(c) \/ Answer(c)
                \/ ManualStart(c) \/ ManualStop(c)
      PROVE  WorkersInv'
  BY <1>6 DEF SaveOn, DisableWaited, StopStrike, SaveOff, Answer, ManualStart, ManualStop, mode
<1>7. ASSUME NEW c \in Clients, Enable(c) PROVE WorkersInv'
  BY <1>7, WorkersOfEnable
<1> QED BY <1>1, <1>2, <1>3, <1>4, <1>5, <1>6, <1>7, WorkersOfReboot DEF Next, ClientStep, Api

-----------------------------------------------------------------------------
(* The mode is served: it has a worker, or a request is replacing it.       *)

LEMMA ServedGoesOn ==
  ASSUME TypeOK, Served, NEW c \in Clients, NEW pc \in ClientPc, GoesOn(c, pc),
         cpc[c] \notin Waiting, UNCHANGED <<enabled, cancel>>
  PROVE  Served'
<1> SUFFICES ASSUME enabled, cancel = NoWorker
             PROVE  \E d \in Clients : cpc'[d] \in Waiting
  BY DEF Served
<1>1. PICK d \in Clients : cpc[d] \in Waiting
  BY DEF Served
<1>2. d # c /\ cpc'[d] = cpc[d]
  BY <1>1 DEF TypeOK, ClientTypes, GoesOn
<1> QED BY <1>1, <1>2

LEMMA ServedTaken ==
  ASSUME TypeOK, NEW c \in Clients, NEW pc \in Waiting, CancelAndWait(c, pc)
  PROVE  Served'
<1>1. cpc'[c] = pc
  BY DEF TypeOK, ClientTypes, CancelAndWait
<1> QED BY <1>1 DEF Served

LEMMA ServedDisable ==
  ASSUME TypeOK, NEW c \in Clients, NEW saves \in BOOLEAN, DisableFrom(c, saves)
  PROVE  Served'
<1>1. CASE cancel = NoWorker
  BY <1>1 DEF DisableFrom, SwitchedOff, Served
<1>2. CASE cancel # NoWorker
  BY <1>2, ServedTaken DEF DisableFrom, Waiting
<1> QED BY <1>1, <1>2

LEMMA ServedStep == ASSUME TypeOK, WorkersInv, Served, [Next]_vars PROVE Served'
<1> USE WorkersAreNumbers
<1>1. CASE UNCHANGED <<enabled, cancel, cpc>>
  BY <1>1 DEF Served
<1>2. CASE Environment \/ Observe \/ Retry \/ UNCHANGED vars
  <2>1. UNCHANGED <<enabled, cancel, cpc>>
    BY <1>2 DEF Environment, TimerEnd, LinkLost, LinkBack, TargetChange, Observe, Retry,
                mode, client, vars
  <2> QED BY <1>1, <2>1
<1>3. ASSUME NEW w \in Workers, WorkerStep(w) PROVE Served'
  <2>1. UNCHANGED <<enabled, cancel, cpc>>
    BY <1>3 DEF WorkerStep, NextCheck, Wake, Look, Mark, StrikeRefused, StrikeOk, StrikeFails,
                Poll, Turn, mode, client
  <2> QED BY <1>1, <2>1
<1>4. ASSUME NEW c \in Clients, EnableWaited(c) PROVE Served'
  BY <1>4, WorkersSwitchOn DEF EnableWaited, Served
<1>5. ASSUME NEW c \in Clients, UndoEnable(c) \/ Disable(c) PROVE Served'
  BY <1>5, ServedDisable DEF UndoEnable, Disable
<1>6. ASSUME NEW c \in Clients, DisableWaited(c) PROVE Served'
  BY <1>6 DEF DisableWaited, SwitchedOff, Served
<1>7. ASSUME NEW c \in Clients, SaveOn(c) PROVE Served'
  BY <1>7, ServedGoesOn DEF SaveOn, mode, ClientPc, Waiting
<1>8. ASSUME NEW c \in Clients, StopStrike(c) PROVE Served'
  <2>1. AfterStop(c \in save, pending') \in ClientPc
    BY DEF AfterStop, ClientPc
  <2> QED BY <1>8, <2>1, ServedGoesOn DEF StopStrike, mode, Waiting
<1>9. ASSUME NEW c \in Clients, SaveOff(c) \/ Answer(c) PROVE Served'
  BY <1>9, ServedGoesOn DEF SaveOff, Answer, mode, ClientPc, Waiting
<1>10. ASSUME NEW c \in Clients, ManualStart(c) \/ ManualStop(c) PROVE Served'
  <2>1. UNCHANGED <<enabled, cancel, cpc>>
    BY <1>10 DEF ManualStart, ManualStop, mode, client
  <2> QED BY <1>1, <2>1
<1>11. ASSUME NEW c \in Clients, Enable(c) PROVE Served'
  <2>1. CASE cancel = NoWorker
    BY <1>11, <2>1, WorkersSwitchOn DEF Enable, Served
  <2>2. CASE cancel # NoWorker
    BY <1>11, <2>2, ServedTaken DEF Enable, Waiting
  <2> QED BY <2>1, <2>2
<1>12. CASE Reboot
  BY <1>12 DEF Reboot, SwitchOn, SwitchedOff, Served
<1> QED BY <1>2, <1>3, <1>4, <1>5, <1>6, <1>7, <1>8, <1>9, <1>10, <1>11, <1>12
        DEF Next, ClientStep, Api

-----------------------------------------------------------------------------
(* One request at a time.                                                   *)

LEMMA BusyIs ==
  ASSUME AloneInv, ~overlap, NEW c \in Clients, cpc[c] # "idle"
  PROVE  ModeKnown /\ Busy(c)
BY DEF AloneInv, Quiet, AllIdle, Busy

LEMMA QuietIs == ASSUME AloneInv, ~overlap, AllIdle PROVE ModeKnown /\ Quiet
BY DEF AloneInv, AllIdle, Busy

\* A request that waits for a worker that has ended waited for the last one.
LEMMA NobodyLeft ==
  ASSUME NEW c \in Clients, Busy(c), cpc[c] \in Waiting, WaitedFor(c)
  PROVE  Unfinished = {}
BY WorkersAreNumbers DEF Busy, WaitedFor, Unfinished

\* Steps of the relay, the monitor and the workers.
LEMMA AloneFrame ==
  ASSUME AloneInv, UNCHANGED <<enabled, cancel, client, disk, history>>,
         Unfinished' \subseteq Unfinished, outputs' = "manual" => outputs = "manual"
  PROVE  AloneInv'
<1> USE DEF client, history
<1>1. ModeKnown => ModeKnown'
  BY DEF ModeKnown
<1>2. Quiet => Quiet'
  BY DEF Quiet, AllIdle
<1>3. ASSUME NEW c \in Clients, Busy(c) PROVE Busy(c)'
  BY <1>3 DEF Busy, SaveKnown
<1> QED BY <1>1, <1>2, <1>3 DEF AloneInv

LEMMA UnfinishedFrame == UNCHANGED wpc => Unfinished' = Unfinished
BY DEF Unfinished

LEMMA UnfinishedMove ==
  ASSUME TypeOK, NEW w \in Workers, NEW pc, GoTo(w, pc), wpc[w] \notin Finished
  PROVE  Unfinished' \subseteq Unfinished
BY DEF TypeOK, WorkerTypes, GoTo, Unfinished

LEMMA StopOutputsOpen == StopOutputs => (outputs' = "manual" => outputs = "manual")
BY DEF StopOutputs, Stopped

LEMMA AloneOfWorker ==
  ASSUME TypeOK, AloneInv, NEW w \in Workers, WorkerStep(w)
  PROVE  AloneInv'
<1>1. UNCHANGED <<enabled, cancel, client, disk, history>>
  BY DEF WorkerStep, NextCheck, Wake, Look, Mark, StrikeRefused, StrikeOk, StrikeFails,
         Poll, Turn, mode
<1>2. outputs' = "manual" => outputs = "manual"
  BY DEF WorkerStep, NextCheck, Wake, Look, Mark, StrikeRefused, StrikeOk, Started, StrikeFails,
         Poll, Turn, strike
<1>3. wpc[w] \notin Finished /\ (UNCHANGED worker \/ \E pc : GoTo(w, pc))
  BY DEF WorkerStep, NextCheck, Wake, Look, Mark, StrikeRefused, StrikeOk, StrikeFails,
         Poll, Turn, At, Finished
<1>4. Unfinished' \subseteq Unfinished
  BY <1>3, UnfinishedMove, UnfinishedFrame DEF worker
<1> QED BY <1>1, <1>2, <1>4, AloneFrame

\* The request c goes on, and knows all there is to know.
LEMMA AloneGoesOn ==
  ASSUME TypeOK, NEW c \in Clients, NEW pc \in ClientPc \ (Waiting \cup {"idle"}), GoesOn(c, pc),
         \A d \in Clients \ {c} : cpc[d] = "idle",
         \A w \in Unfinished' : cancel' = w,
         ModeKnown', SaveKnown(c)'
  PROVE  AloneInv'
<1>1. cpc'[c] = pc /\ \A d \in Clients \ {c} : cpc'[d] = "idle"
  BY DEF TypeOK, ClientTypes, GoesOn
<1>2. Busy(c)'
  BY <1>1 DEF Busy, Waiting
<1> QED BY <1>2 DEF AloneInv

\* The mode is switched on when no worker is left.
LEMMA AloneSwitchOn ==
  ASSUME TypeOK, WorkersInv, NEW c \in Clients, SwitchOn, NewWorker, GoesOn(c, "save.on"),
         Unfinished = {}, \A d \in Clients \ {c} : cpc[d] = "idle", outputs' # "manual"
  PROVE  AloneInv'
<1>1. cpc'[c] = "save.on" /\ enabled'
  BY DEF TypeOK, ClientTypes, GoesOn, SwitchOn
<1>2. SaveKnown(c)'
  BY <1>1 DEF SaveKnown
<1>3. ModeKnown'
  BY <1>1 DEF ModeKnown
<1>4. \A w \in Unfinished' : cancel' = w
  BY DEF TypeOK, WorkerTypes, NewWorker, SwitchOn, Unfinished
<1> QED BY <1>2, <1>3, <1>4, AloneGoesOn DEF ClientPc, Waiting

\* The worker is taken from a mode that is on, and cancelled.
LEMMA AloneTaken ==
  ASSUME TypeOK, NEW c \in Clients, NEW pc \in Waiting, TakeWorker, CancelAndWait(c, pc),
         UNCHANGED <<enabled, wpc, outputs>>, enabled, ModeKnown,
         \A d \in Clients \ {c} : cpc[d] = "idle",
         \A w \in Unfinished : cancel = w,
         pc = "wait.off" => c \in save' \/ unsaved'
  PROVE  AloneInv'
<1>1. /\ cpc'[c] = pc /\ \A d \in Clients \ {c} : cpc'[d] = "idle"
      /\ for'[c] = cancel /\ cancel' = NoWorker
  BY DEF TypeOK, ClientTypes, CancelAndWait, TakeWorker
<1>2. \A w \in Unfinished' : cpc'[c] \in Waiting /\ for'[c] = w
  BY <1>1, UnfinishedFrame
<1>3. Busy(c)'
  BY <1>1, <1>2 DEF Busy, SaveKnown, Waiting
<1>4. ModeKnown'
  BY <1>1 DEF ModeKnown
<1> QED BY <1>3, <1>4 DEF AloneInv

\* A disable, from a client or from a failed save, when no other request is under way.
LEMMA AloneDisable ==
  ASSUME TypeOK, NEW c \in Clients, NEW saves \in BOOLEAN, DisableFrom(c, saves), ModeKnown,
         \A d \in Clients \ {c} : cpc[d] = "idle",
         \A w \in Unfinished : cancel = w,
         saves \/ unsaved
  PROVE  AloneInv'
<1>1. UNCHANGED <<wpc, outputs, unsaved, strike>> /\ TakeWorker
  BY DEF DisableFrom, strike
<1>2. c \in save' \/ unsaved'
  BY DEF DisableFrom
<1>3. CASE cancel = NoWorker
  <2>1. SwitchedOff /\ GoesOn(c, Rest(NeedsStop, saves))
    BY <1>3 DEF DisableFrom
  <2>2. Rest(NeedsStop, saves) \in ClientPc \ (Waiting \cup {"idle"})
    BY DEF Rest, AfterStop, ClientPc, Waiting
  <2>3. ModeKnown'
    BY <1>1, <2>1 DEF ModeKnown, SwitchedOff, TakeWorker
  <2>4. cpc'[c] = Rest(NeedsStop, saves)
    BY <2>1 DEF TypeOK, ClientTypes, GoesOn
  <2>5. SaveKnown(c)'
    BY <1>1, <1>2, <2>1, <2>4 DEF SaveKnown, SwitchedOff, Rest, AfterStop
  <2>6. \A w \in Unfinished' : cancel' = w
    BY <1>1, <1>3, UnfinishedFrame DEF TakeWorker
  <2> QED BY <2>1, <2>2, <2>3, <2>5, <2>6, AloneGoesOn
<1>4. CASE cancel # NoWorker
  <2>1. CancelAndWait(c, "wait.off") /\ UNCHANGED enabled /\ enabled
    BY <1>4 DEF DisableFrom, ModeKnown
  <2> QED BY <1>1, <1>2, <2>1, AloneTaken DEF Waiting
<1> QED BY <1>3, <1>4

LEMMA AloneEnable ==
  ASSUME TypeOK, WorkersInv, NEW c \in Clients, Enable(c), ModeKnown,
         \A d \in Clients \ {c} : cpc[d] = "idle",
         \A w \in Unfinished : cancel = w
  PROVE  AloneInv'
<1>1. outputs' = "open" /\ UNCHANGED outputs
  BY DEF Enable
<1>2. CASE cancel = NoWorker
  <2>1. Unfinished = {}
    BY <1>2, WorkersAreNumbers DEF Unfinished
  <2>2. SwitchOn /\ NewWorker /\ GoesOn(c, "save.on")
    BY <1>2 DEF Enable
  <2> QED BY <1>1, <2>1, <2>2, AloneSwitchOn
<1>3. CASE cancel # NoWorker
  <2>1. TakeWorker /\ CancelAndWait(c, "wait.on") /\ UNCHANGED <<enabled, wpc>> /\ enabled
    BY <1>3 DEF Enable, ModeKnown
  <2> QED BY <1>1, <2>1, AloneTaken DEF Waiting
<1> QED BY <1>2, <1>3

LEMMA AloneOfClient ==
  ASSUME TypeOK, WorkersInv, AloneInv, NEW c \in Clients, ClientStep(c), ~overlap'
  PROVE  AloneInv'
<1>1. ~overlap /\ cpc[c] # "idle"
  <2>1. cpc[c] # "idle"
    BY DEF ClientStep, EnableWaited, SaveOn, UndoEnable, DisableWaited, StopStrike, SaveOff, Answer
  <2>2. CASE UndoEnable(c)
    BY <2>1, <2>2 DEF UndoEnable, DisableFrom, Overlaps
  <2>3. CASE ~UndoEnable(c)
    BY <2>1, <2>3 DEF ClientStep, EnableWaited, SaveOn, DisableWaited, StopStrike, SaveOff, Answer,
                      history
  <2> QED BY <2>2, <2>3
<1>2. ModeKnown /\ Busy(c)
  BY <1>1, BusyIs
<1>3. \A d \in Clients \ {c} : cpc[d] = "idle"
  BY <1>2 DEF Busy
<1>4. CASE EnableWaited(c)
  <2>1. Unfinished = {} /\ outputs # "manual"
    BY <1>2, <1>4, NobodyLeft DEF EnableWaited, Waiting, Busy, ModeKnown
  <2> QED BY <1>3, <1>4, <2>1, AloneSwitchOn DEF EnableWaited
<1>5. CASE UndoEnable(c)
  <2>1. unsaved /\ \A w \in Unfinished : cancel = w
    BY <1>2, <1>5 DEF UndoEnable, Busy, SaveKnown, Waiting
  <2> QED BY <1>2, <1>3, <1>5, <2>1, AloneDisable DEF UndoEnable
<1>6. CASE DisableWaited(c)
  <2>1. Unfinished' = {}
    BY <1>2, <1>6, NobodyLeft, UnfinishedFrame DEF DisableWaited, Waiting, worker
  <2>2. cancel' = NoWorker /\ ~enabled' /\ UNCHANGED <<save, unsaved>> /\ (c \in save \/ unsaved)
    BY <1>2, <1>6 DEF DisableWaited, SwitchedOff, Busy, SaveKnown, Waiting, history
  <2>3. Rest(c \in stop, c \in save) \in ClientPc \ (Waiting \cup {"idle"})
    BY DEF Rest, AfterStop, ClientPc, Waiting
  <2>4. GoesOn(c, Rest(c \in stop, c \in save))
    BY <1>6 DEF DisableWaited
  <2>5. cpc'[c] = Rest(c \in stop, c \in save)
    BY <2>4 DEF TypeOK, ClientTypes, GoesOn
  <2>6. SaveKnown(c)' /\ ModeKnown'
    BY <2>2, <2>5 DEF SaveKnown, ModeKnown, Rest, AfterStop
  <2> QED BY <1>3, <2>1, <2>3, <2>4, <2>6, AloneGoesOn
<1>7. CASE SaveOn(c) \/ StopStrike(c) \/ SaveOff(c)
  <2>1. UNCHANGED <<enabled, cancel, wpc>> /\ \A w \in Unfinished' : cancel' = w
    BY <1>2, <1>7, UnfinishedFrame
       DEF SaveOn, StopStrike, SaveOff, mode, worker, Busy, Waiting
  <2>2. ModeKnown'
    BY <1>2, <1>7, <2>1, StopOutputsOpen DEF SaveOn, StopStrike, SaveOff, ModeKnown, strike
  <2>3. CASE SaveOn(c)
    <3>1. PICK pc \in {"answer", "undo"} :
            /\ GoesOn(c, pc) /\ enabled
            /\ IF pc = "answer" THEN disk' = TRUE ELSE unsaved'
      BY <1>2, <2>3 DEF SaveOn, Busy, SaveKnown
    <3>2. cpc'[c] = pc
      BY <3>1 DEF TypeOK, ClientTypes, GoesOn
    <3>3. SaveKnown(c)'
      BY <2>1, <3>1, <3>2 DEF SaveKnown, TypeOK, ModeTypes
    <3> QED BY <1>3, <2>1, <2>2, <3>1, <3>3, AloneGoesOn DEF ClientPc, Waiting
  <2>4. CASE StopStrike(c)
    <3>1. /\ GoesOn(c, AfterStop(c \in save, pending'))
          /\ ~enabled /\ (c \in save \/ unsaved) /\ UNCHANGED unsaved
      BY <1>2, <2>4 DEF StopStrike, Busy, SaveKnown, history
    <3>2. AfterStop(c \in save, pending') \in ClientPc \ (Waiting \cup {"idle"})
      BY DEF AfterStop, ClientPc, Waiting
    <3>3. cpc'[c] = AfterStop(c \in save, pending')
      BY <3>1 DEF TypeOK, ClientTypes, GoesOn
    <3>4. SaveKnown(c)'
      BY <2>1, <3>1, <3>3 DEF SaveKnown, AfterStop
    <3> QED BY <1>3, <2>1, <2>2, <3>1, <3>2, <3>4, AloneGoesOn
  <2>5. CASE SaveOff(c)
    <3>1. GoesOn(c, "answer") /\ ~enabled /\ (unsaved' \/ disk' = FALSE)
      BY <1>2, <2>5 DEF SaveOff, Busy, SaveKnown
    <3>2. cpc'[c] = "answer"
      BY <3>1 DEF TypeOK, ClientTypes, GoesOn
    <3>3. SaveKnown(c)'
      BY <2>1, <3>1, <3>2 DEF SaveKnown, TypeOK, ModeTypes
    <3> QED BY <1>3, <2>1, <2>2, <3>1, <3>3, AloneGoesOn DEF ClientPc, Waiting
  <2> QED BY <1>7, <2>3, <2>4, <2>5
<1>8. CASE Answer(c)
  <2>1. UNCHANGED <<enabled, cancel, wpc, disk, unsaved, outputs>> /\ GoesOn(c, "idle")
    BY <1>8 DEF Answer, mode, worker, history
  <2>2. \A d \in Clients : cpc'[d] = "idle"
    BY <1>3, <2>1 DEF TypeOK, ClientTypes, GoesOn
  <2>3. (unsaved \/ disk = enabled) /\ \A w \in Unfinished : cancel = w
    BY <1>2, <1>8 DEF Answer, Busy, SaveKnown, Waiting
  <2>4. Quiet' /\ ModeKnown'
    BY <1>2, <2>1, <2>2, <2>3, UnfinishedFrame DEF Quiet, AllIdle, ModeKnown
  <2> QED BY <2>4 DEF AloneInv
<1> QED BY <1>4, <1>5, <1>6, <1>7, <1>8 DEF ClientStep

LEMMA AloneOfApi ==
  ASSUME TypeOK, WorkersInv, AloneInv, Api
  PROVE  AloneInv'
<1> SUFFICES ASSUME ~overlap' PROVE AloneInv'
  BY DEF AloneInv
<1> PICK c \in Clients : Enable(c) \/ Disable(c) \/ ManualStart(c) \/ ManualStop(c)
  BY DEF Api
<1>1. CASE Enable(c) \/ Disable(c)
  <2>1. ~overlap /\ cpc[c] = "idle" /\ \A d \in Clients \ {c} : cpc[d] = "idle"
    BY <1>1 DEF Enable, Disable, DisableFrom, Request, Overlaps
  <2>2. ModeKnown /\ Quiet
    BY <2>1, QuietIs DEF AllIdle
  <2>3. \A w \in Unfinished : cancel = w
    BY <2>2 DEF Quiet
  <2>4. CASE Enable(c)
    BY <2>1, <2>2, <2>3, <2>4, AloneEnable
  <2>5. CASE Disable(c)
    BY <2>1, <2>2, <2>3, <2>5, AloneDisable DEF Disable
  <2> QED BY <1>1, <2>4, <2>5
<1>2. CASE ManualStop(c)
  <2>1. UNCHANGED <<enabled, cancel, client, disk, history>>
    BY <1>2 DEF ManualStop, mode
  <2>2. Unfinished' \subseteq Unfinished /\ (outputs' = "manual" => outputs = "manual")
    BY <1>2, UnfinishedFrame, StopOutputsOpen DEF ManualStop, worker
  <2> QED BY <2>1, <2>2, AloneFrame
<1>3. CASE ManualStart(c)
  <2>1. ~enabled /\ ~overlap /\ UNCHANGED <<mode, worker, client, disk, history>>
    BY <1>3 DEF ManualStart, ManualAllowed, history
  <2>2. Unfinished' = Unfinished
    BY <2>1, UnfinishedFrame DEF worker
  <2>3. ModeKnown'
    BY <2>1 DEF AloneInv, ModeKnown, mode
  <2>4. Quiet => Quiet'
    BY <2>1, <2>2 DEF Quiet, AllIdle, mode, client, history
  <2>5. ASSUME NEW d \in Clients, Busy(d) PROVE Busy(d)'
    BY <2>1, <2>2, <2>5 DEF Busy, SaveKnown, mode, client, history
  <2> QED BY <2>1, <2>3, <2>4, <2>5 DEF AloneInv
<1> QED BY <1>1, <1>2, <1>3

\* A restart leaves no request, and no worker but the one it may start.
LEMMA AloneOfReboot ==
  ASSUME TypeOK, WorkersInv, Reboot
  PROVE  AloneInv'
<1>1. AllIdle'
  BY DEF Reboot, NoRequest, AllIdle
<1>2. \A w \in Workers : Ended[w] \in Finished
  BY UnattendedAssumption DEF Ended, WorkersInv, TypeOK, ModeTypes, Workers, Finished
<1>3. UNCHANGED <<outputs, disk>> /\ unsaved' = (disk /\ ~Restored) /\ disk \in BOOLEAN
  BY DEF Reboot, TypeOK, WorldTypes
<1>4. CASE Restored
  <2>1. enabled' = TRUE /\ cancel' = next /\ wpc' = [Ended EXCEPT ![next] = "next"] /\ disk
        /\ outputs = "open"
    BY <1>4 DEF Reboot, SwitchOn, Restored
  <2>2. \A w \in Unfinished' : cancel' = w
    BY <1>2, <2>1 DEF Unfinished, Ended
  <2> QED BY <1>1, <1>3, <2>1, <2>2 DEF AloneInv, ModeKnown, Quiet
<1>5. CASE ~Restored
  <2>1. enabled' = FALSE /\ cancel' = NoWorker /\ wpc' = Ended
    BY <1>5 DEF Reboot, SwitchedOff, TakeWorker
  <2>2. Unfinished' = {}
    BY <1>2, <2>1 DEF Unfinished
  <2> QED BY <1>1, <1>3, <1>5, <2>1, <2>2 DEF AloneInv, ModeKnown, Quiet
<1> QED BY <1>4, <1>5

LEMMA AloneStep == ASSUME TypeOK, WorkersInv, AloneInv, [Next]_vars PROVE AloneInv'
<1>1. CASE UNCHANGED vars \/ Environment \/ Observe \/ Retry
  <2>1. UNCHANGED <<enabled, cancel, client, disk, history, wpc>>
    BY <1>1 DEF vars, Environment, TimerEnd, LinkLost, LinkBack, TargetChange, Observe, Retry,
                mode, worker
  <2>2. outputs' = "manual" => outputs = "manual"
    BY <1>1, StopOutputsOpen
       DEF vars, strike, Environment, TimerEnd, LinkLost, LinkBack, TargetChange, Observe, Retry
  <2> QED BY <2>1, <2>2, UnfinishedFrame, AloneFrame
<1>2. ASSUME NEW c \in Clients, ClientStep(c) PROVE AloneInv'
  <2>1. CASE overlap'
    BY <2>1 DEF AloneInv
  <2> QED BY <1>2, <2>1, AloneOfClient
<1> QED BY <1>1, <1>2, AloneOfWorker, AloneOfApi, AloneOfReboot DEF Next

-----------------------------------------------------------------------------
LEMMA IInvStep == IInv /\ [Next]_vars => IInv'
BY TypeStep, WorkersStep, ServedStep, AloneStep DEF IInv

LEMMA IInvHolds == Spec => []IInv
BY InitIInv, IInvStep, PTL DEF Spec

\* Every variable keeps its type, and the phase says "disabled" exactly while the mode
\* is off, whatever a worker that outlives its mode reports (updateUnattendedStatus).
THEOREM TypeCorrect == Spec => []TypeOK
<1>1. IInv => TypeOK
  BY DEF IInv
<1> QED BY <1>1, IInvHolds, PTL

\* While the mode is on it has a worker, or a request is replacing it
\* (setUnattended, disableUnattended and the worker's paths after a failure).
THEOREM EnabledIsServed == Spec => []EnabledHasWorker
<1>1. IInv => EnabledHasWorker
  BY DEF IInv, TypeOK, ModeTypes, WorkersInv, Served, EnabledHasWorker, Unfinished
<1> QED BY <1>1, IInvHolds, PTL

\* While requests do not overlap there is one worker at most, and the service can
\* cancel it or waits for it (stopUnattendedLocked, startUnattendedLocked).
THEOREM WorkerIsUnique == Spec => []OneWorker
<1>1. IInv => OneWorker
  <2> SUFFICES ASSUME IInv, ~overlap, NEW v \in Unfinished, NEW w \in Unfinished
               PROVE  /\ v = w
                      /\ cancel = w \/ \E c \in Clients : cpc[c] \in Waiting /\ for[c] = w
    BY DEF OneWorker
  <2>1. v \in Workers /\ w \in Workers
    BY DEF Unfinished
  <2>2. Quiet \/ \E c \in Clients : Busy(c)
    BY DEF IInv, AloneInv
  <2>3. CASE Quiet
    BY <2>3 DEF Quiet
  <2>4. ASSUME NEW c \in Clients, Busy(c) PROVE v = w /\ (cancel = w \/ (cpc[c] \in Waiting /\ for[c] = w))
    BY <2>1, <2>4, WorkersAreNumbers DEF Busy
  <2> QED BY <2>2, <2>3, <2>4
<1> QED BY <1>1, IInvHolds, PTL

\* While requests do not overlap no manual strike runs with the mode on, although
\* switching the mode and checking the outputs are two critical sections.
THEOREM ManualIsExclusive == Spec => []ManualExclusive
<1>1. IInv => ManualExclusive
  BY DEF IInv, AloneInv, ModeKnown, ManualExclusive
<1> QED BY <1>1, IInvHolds, PTL

\* Between requests the saved mode is the mode, unless a save or a restore failed.
THEOREM ModeIsSaved == Spec => []SavedAgrees
<1>1. IInv => SavedAgrees
  <2> SUFFICES ASSUME IInv, ~overlap, ~unsaved, AllIdle PROVE disk = enabled
    BY DEF SavedAgrees, AllIdle
  <2>1. Quiet
    BY QuietIs DEF IInv
  <2> QED BY <2>1 DEF Quiet
<1> QED BY <1>1, IInvHolds, PTL

\* While requests do not overlap a worker starts a strike only with the mode on.
THEOREM StrikesOnlyWhileEnabled == Spec => StrikesWhileEnabledAlone
<1> DEFINE A == outputs # "auto" /\ outputs' = "auto" /\ ~overlap => enabled
<1>1. IInv /\ [Next]_vars => [A]_vars
  <2> SUFFICES ASSUME IInv, Next, outputs # "auto", outputs' = "auto", ~overlap PROVE enabled
    BY DEF vars
  <2>1. PICK w \in Workers : StrikeOk(w) \/ StrikeFails(w)
    <3>1. ~(Environment \/ Observe \/ Retry)
      BY DEF Environment, TimerEnd, LinkLost, LinkBack, TargetChange, Observe, Retry, StopOutputs,
             Stopped, strike
    <3>2. ~Api /\ ~Reboot
      BY DEF Api, Enable, Disable, DisableFrom, ManualStart, Started, ManualStop, StopOutputs, Stopped,
             Reboot, strike
    <3>3. ~ \E c \in Clients : ClientStep(c)
      BY DEF ClientStep, EnableWaited, SaveOn, UndoEnable, DisableFrom, DisableWaited, StopStrike,
             StopOutputs, Stopped, SaveOff, Answer, strike
    <3>4. PICK w \in Workers : WorkerStep(w)
      BY <3>1, <3>2, <3>3 DEF Next
    <3> QED BY <3>4 DEF WorkerStep, NextCheck, Wake, Look, Mark, StrikeRefused, Poll, Turn, strike
  <2>2. w \in Unfinished
    BY <2>1 DEF StrikeOk, StrikeFails, At, Unfinished, Finished
  <2>3. ModeKnown /\ (Quiet \/ \E c \in Clients : Busy(c))
    BY DEF IInv, AloneInv
  <2> QED BY <2>2, <2>3, WorkersAreNumbers DEF ModeKnown, Quiet, Busy, Unfinished
<1> QED BY <1>1, IInvHolds, PTL DEF Spec, StrikesWhileEnabledAlone
=============================================================================
