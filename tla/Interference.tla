---------------------------- MODULE Interference ----------------------------
(***************************************************************************)
(* The strike lifecycle of internal/interference: one service goroutine    *)
(* mutex (Service.mu), a network relay that anybody may switch, a monitor  *)
(* connection that delivers snapshots of the outputs late, and the report  *)
(* table that must tell the truth about what the outputs did.              *)
(*                                                                         *)
(* An operation of the service holds mu from its first relay command to    *)
(* its last, but every relay command is a TCP exchange: outputs, the       *)
(* connection status and the monitor queue change between two of them.     *)
(* The operation that holds mu is therefore a small program counter `op',  *)
(* and each relay exchange (with the offline check in front of it) is one  *)
(* step.  Wall-clock time is abstracted to order: see `fresh' below.       *)
(***************************************************************************)
EXTENDS Integers, Sequences, FiniteSets

CONSTANTS N,            \* the strike channels are 1..N, in the service's order
          RowIds,       \* tells apart rows of one kind on the same channels
          Faults,       \* the faults the environment may inject
          MaxFaults,    \* bound: faults injected in one behaviour
          MaxRequests,  \* bound: API requests in one behaviour
          MaxQueue      \* the capacity of the monitor's update channel

FaultKinds == {"read",  \* a state read fails
               "set",   \* a switching command fails and has no effect
               "lost",  \* a switching command takes effect, its reply is lost
               "link",  \* the monitor connection breaks
               "push",  \* the relay reports its outputs without being asked
               "db",    \* a write of a report row fails
               "crash"} \* the process dies

ASSUME NAssumption == N \in Nat \ {0}
ASSUME FaultsAssumption == Faults \subseteq FaultKinds
ASSUME BoundsAssumption == /\ RowIds \subseteq Nat
                           /\ MaxFaults \in Nat
                           /\ MaxRequests \in Nat
                           /\ MaxQueue \in Nat \ {0}

Channels == 1..N

VARIABLES
  relay,     \* per output: open, or closed by the platform or by somebody else
  status,    \* RelayController: nothing known yet, connected, or not
  wire,      \* an output frame that the relay sent and the monitor has not received
  queue,     \* updates the monitor received and the service has not observed
  callback,  \* where the monitor callback is: Run, external.go
  level,     \* channelState.actualLevel (enabled is level = "high")
  sw,        \* channelState.softwareControlled
  db,        \* the rows of interference_reports whose status is running
  active,    \* Service.activeReport
  ext,       \* Service.externalReports
  pending,   \* Service.pendingStrikeStop
  refresh,   \* where the asynchronous refresh goroutine is (strikeRefreshBusy)
  op,        \* the operation that holds Service.mu
  alive,     \* the process runs
  unclosed,  \* history: rows dropped from memory by a close that failed
  misled,    \* history: a frame nobody asked for outlived a switching command
  requests, faults \* counters of the two bounds

device  == <<relay, status>>
monitor == <<wire, queue, callback, misled>>
channel == <<level, sw>>
reports == <<db, active, ext, unclosed>>
control == <<pending, refresh, alive>>
budget  == <<requests, faults>>
vars == <<device, monitor, channel, reports, control, op, budget>>

-----------------------------------------------------------------------------
NoRow == [kind |-> "none", chs |-> {}, n |-> 0]
Row == [kind : {"strike", "external"}, chs : (SUBSET Channels) \ {{}}, n : RowIds]

\* The stages of an operation.  In a Reading stage the operation takes a
\* snapshot, channel by channel; in the others it switches outputs.
Reading == {"stop.first", "stop.last", "start.check", "start.fail",
            "start.done", "refresh", "poll", "look", "set.read"}
Switching == {"stop.low", "start.high", "start.undo", "set.low"}
Starting == {"start.check", "start.high", "start.undo", "start.fail", "start.done"}
Origins == {"api", "monitor", "refresh"}

Idle == [pc |-> "idle", todo |-> {}, full |-> TRUE, probe |-> FALSE,
         sel |-> {}, err |-> FALSE, origin |-> "api", seenAll |-> FALSE]
OpRecord == [pc : Reading \cup Switching \cup {"idle"}, todo : SUBSET Channels,
             full : BOOLEAN, probe : BOOLEAN, sel : SUBSET Channels,
             err : BOOLEAN, origin : Origins, seenAll : BOOLEAN]
\* A start has at least one channel (validateScreenStrikeChannelsLocked).
Op == {o \in OpRecord : o.pc \in Starting => o.sel # {}}

Outputs == [Channels -> {"open", "platform", "field"}]

\* A frame on its way to the monitor has the outputs of the moment it was sent.
\* The answer to a query is dropped when a switching command runs meanwhile; a
\* frame nobody asked for carries no version to compare.  `overtaken' is history:
\* the outputs the platform had closed that a read on a connection of its own has
\* seen open since.
Sending == [values : Outputs, asked : BOOLEAN, overtaken : SUBSET Channels]
NoFrame == [values |-> <<>>, asked |-> FALSE, overtaken |-> {}]

\* A snapshot frame or a connection error.  `fresh' is the set of channels on
\* which no read and no command finished since the update was received: the
\* timestamp tests of ObserveRelayState accept the update for these only.
Update == [error : BOOLEAN, values : Outputs, fresh : SUBSET Channels,
           overtaken : SUBSET Channels]

TypeOK ==
  /\ relay \in Outputs
  /\ status \in {"unknown", "up", "down"}
  /\ wire \in Sending \cup {NoFrame}
  /\ queue \in Seq(Update)
  /\ callback \in {"idle", "check", "lock"}
  /\ level \in [Channels -> {"unknown", "low", "high"}]
  /\ sw \in [Channels -> BOOLEAN]
  /\ db \subseteq Row
  /\ active \in Row \cup {NoRow}
  /\ ext \in [Channels -> Row \cup {NoRow}]
  /\ unclosed \subseteq Row
  /\ pending \in BOOLEAN
  /\ misled \in BOOLEAN
  /\ refresh \in {"idle", "read", "check", "lock", "stopping"}
  /\ alive \in BOOLEAN
  /\ op \in Op
  /\ requests \in Nat
  /\ faults \in Nat

-----------------------------------------------------------------------------
Free == alive /\ op.pc = "idle"          \* nobody holds mu
offline == status = "down"               \* confirmedOffline
High == {c \in Channels : level[c] = "high"}

Strike(f) == f \in Faults /\ faults < MaxFaults /\ faults' = faults + 1
NoFault == UNCHANGED faults
Request == requests < MaxRequests /\ requests' = requests + 1

\* RefreshScreenStrikeStateAsync: at most one refresh is under way.
RefreshAsync == refresh' = IF refresh = "idle" THEN "read" ELSE refresh

\* A finished read or command on c is newer than every update in the queue.
Supersede(c) ==
  queue' = [i \in DOMAIN queue |-> [queue[i] EXCEPT !.fresh = @ \ {c}]]

\* A switching command moves controlVersion: the answer to a query written
\* before it is dropped with its connection, a frame nobody asked for is not.
AnswerKept ==
  /\ UNCHANGED wire
  /\ misled' = (misled \/ (wire # NoFrame /\ ~wire.asked))
NewVersion ==
  /\ wire' = IF wire.asked THEN NoFrame ELSE wire
  /\ misled' = (misled \/ (wire # NoFrame /\ ~wire.asked))

\* A read on a connection of its own moves no version: it only overtakes.
Overtake(c) ==
  wire' = IF wire # NoFrame /\ relay[c] = "open" /\ wire.values[c] = "platform"
            THEN [wire EXCEPT !.overtaken = @ \cup {c}] ELSE wire

\* A database write succeeds, or is the fault of this step.
Writes(ok) == \/ ok /\ NoFault
              \/ ~ok /\ Strike("db")

\* CreateRunning inserts a row of its own: its identity is new.
RowOf(kind, chs, n) == [kind |-> kind, chs |-> chs, n |-> n]
NewId(kind, chs, n) ==
  /\ RowOf(kind, chs, n) \notin db
  /\ \A m \in RowIds : m < n => RowOf(kind, chs, m) \in db

\* finishExternalReportLocked for the channels of C: a row whose update fails
\* stays in memory, so a later observation closes it.
FinishExternal(C, ok) ==
  IF ok THEN /\ ext' = [c \in Channels |-> IF c \in C THEN NoRow ELSE ext[c]]
             /\ db' = db \ {ext[c] : c \in C}
        ELSE UNCHANGED <<ext, db>>

\* finishActiveReportLocked ignores the error of the update and forgets the row.
FinishActive(ok) ==
  /\ active' = NoRow
  /\ db' = IF ok THEN db \ {active} ELSE db
  /\ unclosed' = IF ok \/ active = NoRow THEN unclosed ELSE unclosed \cup {active}

\* finishCompletedReportIfInactiveLocked, its condition on a snapshot.
InactiveUnseen(full, lev) == active # NoRow /\ \A c \in active.chs : lev[c] # "high"
InactiveOnEdge(full, lev) ==
  /\ active # NoRow /\ full
  /\ \A c \in active.chs : level[c] = "high" /\ lev[c] = "low"
Inactive(full, lev) ==
  /\ active # NoRow
  /\ full
  /\ \A c \in active.chs : lev[c] = "low"

FinishCompleted ==
  IF Inactive(op.full, level)
    THEN \E ok \in BOOLEAN : Writes(ok) /\ FinishActive(ok)
    ELSE NoFault /\ UNCHANGED <<active, db, unclosed>>

-----------------------------------------------------------------------------
(* The relay and the monitor connection.                                   *)

\* A field input, another client: an output closes without the platform.
FieldClose(c) ==
  /\ relay[c] = "open"
  /\ relay' = [relay EXCEPT ![c] = "field"]
  /\ UNCHANGED <<status, monitor, channel, reports, control, op, budget>>

\* The relay's own timer or somebody in the field opens an output.
RelayOpen(c) ==
  /\ relay[c] # "open"
  /\ relay' = [relay EXCEPT ![c] = "open"]
  /\ UNCHANGED <<status, monitor, channel, reports, control, op, budget>>

\* The relay answers the monitor's query, or reports its outputs by itself.
Sent(asked) ==
  /\ alive /\ wire = NoFrame /\ Len(queue) < MaxQueue
  /\ IF asked THEN NoFault ELSE Strike("push")
  /\ wire' = [values |-> relay, asked |-> asked, overtaken |-> {}]
  /\ UNCHANGED <<device, queue, callback, misled, channel, reports, control, op, requests>>

\* monitorConnection receives the frame and stamps it.  A full channel blocks it.
Received == [error |-> FALSE, values |-> wire.values,
             fresh |-> Channels, overtaken |-> wire.overtaken]
Frame ==
  /\ alive /\ wire # NoFrame /\ Len(queue) < MaxQueue
  /\ status' = "up"
  /\ queue' = Append(queue, Received)
  /\ wire' = NoFrame
  /\ UNCHANGED <<relay, callback, misled, channel, reports, control, op, budget>>

\* monitorConnection fails: Monitor records the error and reports it; what was
\* on the connection is gone.
LinkLost ==
  /\ alive /\ Len(queue) < MaxQueue
  /\ Strike("link")
  /\ status' = "down"
  /\ queue' = Append(queue, [error |-> TRUE, values |-> [c \in Channels |-> "open"],
                             fresh |-> Channels, overtaken |-> {}])
  /\ wire' = NoFrame
  /\ UNCHANGED <<relay, callback, misled, channel, reports, control, op, requests>>

-----------------------------------------------------------------------------
(* ObserveRelayState, one update under mu.                                  *)

ObserveError ==
  /\ Free /\ callback = "idle" /\ queue # <<>>
  /\ LET u == Head(queue) IN
       /\ u.error
       /\ level' = [c \in Channels |-> IF c \in u.fresh THEN "unknown" ELSE level[c]]
  /\ queue' = Tail(queue)
  /\ UNCHANGED <<device, wire, callback, misled, sw, reports, control, op, budget>>

\* The outputs of the frame that the observation accepts as open and as closed.
SeenLow(u) == {c \in u.fresh : u.values[c] = "open"}
SeenHigh(u) == u.fresh \ SeenLow(u)

\* startExternalReportLocked: closed, not switched by the platform, not yet
\* recorded, and not owned by the strike report that is running.
ToRecord(u) ==
  {c \in SeenHigh(u) : /\ ~sw[c]
                       /\ ext[c] = NoRow
                       /\ active = NoRow \/ c \notin active.chs}

ObserveFrame ==
  /\ Free /\ callback = "idle" /\ queue # <<>>
  /\ ~Head(queue).error
  /\ \E ok \in BOOLEAN :
       LET u == Head(queue)
           lev == [c \in Channels |-> IF c \in SeenLow(u) THEN "low"
                                      ELSE IF c \in SeenHigh(u) THEN "high"
                                      ELSE level[c]]
           closed == {c \in SeenLow(u) : ext[c] # NoRow}
           ends == Inactive(u.fresh = Channels, lev)
       IN /\ Writes(ok)
          /\ ~ok => closed # {} \/ ToRecord(u) # {} \/ ends
          /\ level' = lev
          /\ sw' = [c \in Channels |-> sw[c] /\ c \notin SeenLow(u)]
          /\ \E id \in [ToRecord(u) -> RowIds] :
               /\ \A c \in ToRecord(u) : NewId("external", {c}, id[c])
               /\ ext' = [c \in Channels |->
                            IF ok /\ c \in closed THEN NoRow
                            ELSE IF ok /\ c \in ToRecord(u)
                              THEN RowOf("external", {c}, id[c])
                            ELSE ext[c]]
               /\ db' = IF ok THEN (db \ ({ext[c] : c \in closed}
                                          \cup (IF ends THEN {active} ELSE {})))
                                   \cup {RowOf("external", {c}, id[c]) : c \in ToRecord(u)}
                              ELSE db
          /\ active' = IF ends THEN NoRow ELSE active
          /\ unclosed' = IF ends /\ ~ok THEN unclosed \cup {active} ELSE unclosed
  /\ queue' = Tail(queue)
  /\ callback' = "check"
  /\ UNCHANGED <<device, wire, misled, control, op, requests>>

-----------------------------------------------------------------------------
(* Operations begin: they take mu.                                          *)

Begin(pc, todo, sel, origin) ==
  op' = [Idle EXCEPT !.pc = pc, !.todo = todo, !.sel = sel, !.origin = origin]
Snapshot(pc) == Begin(pc, Channels, {}, "api")

\* retryPendingStrikeStop has something to do.
RetryDueWithReport == pending /\ active # NoRow
RetryDue == pending

\* After a frame the monitor callback retries a stop that is pending.  It looks
\* at the status before it waits for mu.
MonitorCheck ==
  /\ alive /\ callback = "check"
  /\ callback' = IF offline THEN "idle" ELSE "lock"
  /\ UNCHANGED <<device, wire, queue, misled, channel, reports, control, op, budget>>

MonitorRetry ==
  /\ Free /\ callback = "lock"
  /\ callback' = "idle"
  /\ IF RetryDue THEN Begin("stop.first", Channels, {}, "monitor") ELSE UNCHANGED op
  /\ UNCHANGED <<device, wire, queue, misled, channel, reports, control, budget>>

\* The refresh goroutine: a snapshot with one offline probe, then the retry.
RefreshBegin ==
  /\ Free /\ refresh = "read"
  /\ op' = [Idle EXCEPT !.pc = "refresh", !.todo = Channels, !.probe = TRUE,
                        !.origin = "refresh"]
  /\ UNCHANGED <<device, monitor, channel, reports, control, budget>>

RefreshCheck ==
  /\ alive /\ refresh = "check"
  /\ refresh' = IF offline THEN "idle" ELSE "lock"
  /\ UNCHANGED <<device, monitor, channel, reports, pending, alive, op, budget>>

RefreshRetry ==
  /\ Free /\ refresh = "lock"
  /\ IF RetryDue THEN /\ refresh' = "stopping"
                      /\ Begin("stop.first", Channels, {}, "refresh")
                 ELSE refresh' = "idle" /\ UNCHANGED op
  /\ UNCHANGED <<device, monitor, channel, reports, pending, alive, budget>>

\* API requests.  Each checks the status before it waits for mu, so it may find
\* the relay offline once it has it.  A request that the validation refuses
\* only takes a snapshot: it is a Look.
Stop ==
  /\ Free /\ Request
  /\ Begin("stop.first", Channels, {}, "api")
  /\ UNCHANGED <<device, monitor, channel, reports, control, faults>>

StopOffline ==
  /\ Free /\ Request /\ offline
  /\ pending' = TRUE
  /\ RefreshAsync
  /\ UNCHANGED <<device, monitor, channel, reports, alive, op, faults>>

AnySelection(sel) == TRUE
ValidSelection(sel) == sel # {}
AlwaysPermitted == TRUE
StartPermitted == ~pending

Start(sel) ==
  /\ Free /\ Request
  /\ StartPermitted
  /\ ValidSelection(sel)
  /\ Begin("start.check", Channels, sel, "api")
  /\ UNCHANGED <<device, monitor, channel, reports, control, faults>>

SetLow(c) ==
  /\ Free /\ Request
  /\ Begin("set.low", {c}, {c}, "api")
  /\ UNCHANGED <<device, monitor, channel, reports, control, faults>>

Poll ==
  /\ Free /\ Request
  /\ Snapshot("poll")
  /\ UNCHANGED <<device, monitor, channel, reports, control, faults>>

Look ==
  /\ Free /\ Request
  /\ Snapshot("look")
  /\ UNCHANGED <<device, monitor, channel, reports, control, faults>>

\* Any request that finds the relay offline only asks for a refresh.
RefusedOffline ==
  /\ alive /\ Request /\ offline
  /\ RefreshAsync
  /\ UNCHANGED <<device, monitor, channel, reports, pending, alive, op, faults>>

-----------------------------------------------------------------------------
(* A snapshot reads one channel per step.                                   *)

Next1(c) == c \in op.todo /\ \A d \in op.todo : c <= d
Unknown(c) == level' = [level EXCEPT ![c] = "unknown"]

ReadOffline(c) ==
  /\ op.pc \in Reading /\ Next1(c)
  /\ offline /\ ~op.probe
  /\ Unknown(c)
  /\ op' = [op EXCEPT !.todo = @ \ {c}, !.full = FALSE]
  /\ UNCHANGED <<device, monitor, sw, reports, control, budget>>

\* An open output ends the platform's control of it and its field report.
ReadOk(c) ==
  /\ op.pc \in Reading /\ Next1(c)
  /\ offline => op.probe
  /\ status' = "up"
  /\ level' = [level EXCEPT ![c] = IF relay[c] = "open" THEN "low" ELSE "high"]
  /\ sw' = [sw EXCEPT ![c] = @ /\ relay[c] # "open"]
  /\ IF relay[c] = "open" /\ ext[c] # NoRow
       THEN \E ok \in BOOLEAN : Writes(ok) /\ FinishExternal({c}, ok)
       ELSE NoFault /\ UNCHANGED <<ext, db>>
  /\ Supersede(c) /\ Overtake(c)
  /\ op' = [op EXCEPT !.todo = @ \ {c}, !.probe = FALSE]
  /\ UNCHANGED <<relay, callback, misled, active, unclosed, control, requests>>

ReadFail(c) ==
  /\ op.pc \in Reading /\ Next1(c)
  /\ offline => op.probe
  /\ Strike("read")
  /\ status' = "down"
  /\ Unknown(c)
  /\ Supersede(c)
  /\ op' = [op EXCEPT !.todo = @ \ {c}, !.full = FALSE, !.probe = FALSE]
  /\ UNCHANGED <<relay, wire, callback, misled, sw, reports, control, requests>>

-----------------------------------------------------------------------------
(* Switching outputs, one relay command and the re-read after it per step.  *)

\* The loops that start and stop channels give up when the relay is offline.
SwitchOffline ==
  /\ op.pc \in {"stop.low", "start.undo", "start.high"}
  /\ offline
  /\ op.todo # {} \/ op.pc = "start.high"
  /\ RefreshAsync
  /\ op' = IF op.pc = "start.high"
             THEN [op EXCEPT !.pc = "start.fail", !.todo = Channels, !.full = TRUE]
             ELSE [op EXCEPT !.todo = {}, !.err = TRUE]
  /\ UNCHANGED <<device, monitor, channel, reports, pending, alive, budget>>

CanSwitch(c) == Next1(c) /\ (op.pc # "set.low" => ~offline)

\* The state read that ends a successful command (dtoWithActual) may fail.
ReRead(c, lev) ==
  \/ /\ status' = "up"
     /\ level' = [level EXCEPT ![c] = lev]
     /\ NoFault
  \/ /\ status' = "down"
     /\ Unknown(c)
     /\ Strike("read")

\* setStateLocked(id, false) succeeds.
LowOk(c) ==
  /\ op.pc \in {"stop.low", "start.undo", "set.low"} /\ CanSwitch(c)
  /\ relay' = [relay EXCEPT ![c] = "open"]
  /\ sw' = [sw EXCEPT ![c] = FALSE]
  /\ Supersede(c) /\ NewVersion
  /\ \/ ReRead(c, "low") /\ FinishExternal({c}, TRUE)
     \/ /\ ext[c] # NoRow /\ Strike("db")
        /\ status' = "up"
        /\ level' = [level EXCEPT ![c] = "low"]
        /\ UNCHANGED <<ext, db>>
  /\ op' = IF op.pc = "set.low"
             THEN [op EXCEPT !.pc = "set.read", !.todo = Channels]
             ELSE [op EXCEPT !.todo = @ \ {c}]
  /\ UNCHANGED <<callback, active, unclosed, control, requests>>

\* setStateLocked(id, false) fails: with no effect, or with the reply lost.
LowFail(c) ==
  /\ op.pc \in {"stop.low", "start.undo", "set.low"} /\ CanSwitch(c)
  /\ status' = "down"
  /\ \/ Strike("set") /\ UNCHANGED relay
     \/ Strike("lost") /\ relay' = [relay EXCEPT ![c] = "open"]
  /\ op' = IF op.pc = "set.low" THEN Idle
                                ELSE [op EXCEPT !.todo = @ \ {c}, !.err = TRUE]
  /\ NewVersion
  /\ UNCHANGED <<queue, callback, channel, reports, control, requests>>

\* setTimedStateLocked succeeds.
HighOk(c) ==
  /\ op.pc = "start.high" /\ CanSwitch(c)
  /\ relay' = [relay EXCEPT ![c] = "platform"]
  /\ sw' = [sw EXCEPT ![c] = TRUE]
  /\ Supersede(c) /\ NewVersion
  /\ ReRead(c, "high")
  /\ op' = [op EXCEPT !.todo = @ \ {c}]
  /\ UNCHANGED <<callback, reports, control, requests>>

\* setTimedStateLocked fails: the channels selected are to be stopped.
HighFail(c) ==
  /\ op.pc = "start.high" /\ CanSwitch(c)
  /\ status' = "down"
  /\ \/ Strike("set") /\ UNCHANGED relay
     \/ Strike("lost") /\ relay' = [relay EXCEPT ![c] = "platform"]
  /\ op' = [op EXCEPT !.pc = "start.undo", !.todo = op.sel]
  /\ NewVersion
  /\ UNCHANGED <<queue, callback, channel, reports, control, requests>>

-----------------------------------------------------------------------------
(* What an operation concludes when a loop is over.                         *)

Ended(pc) == op.pc = pc /\ op.todo = {}
GoOn(pc, todo) == op' = [op EXCEPT !.pc = pc, !.todo = todo, !.full = TRUE]

\* The channels to stop: those seen on, or those of the report when none is
\* seen on and the snapshot is incomplete.
ToStopReported == IF active # NoRow THEN active.chs ELSE {}
ToStop == IF High = {} /\ ~op.full /\ active # NoRow THEN active.chs ELSE High

StopChoose ==
  /\ Ended("stop.first")
  /\ op' = [op EXCEPT !.pc = "stop.low", !.todo = ToStop,
                      !.seenAll = op.full]
  /\ UNCHANGED <<device, monitor, channel, reports, control, budget>>

StopSwitched ==
  /\ Ended("stop.low")
  /\ GoOn("stop.last", Channels)
  /\ UNCHANGED <<device, monitor, channel, reports, control, budget>>

StopEnd ==
  /\ Ended("stop.last")
  /\ IF (op.full \/ op.err) /\ active # NoRow
       THEN \E ok \in BOOLEAN : Writes(ok) /\ FinishActive(ok)
       ELSE NoFault /\ UNCHANGED <<active, db, unclosed>>
  /\ pending' = op.err
  /\ refresh' = IF op.origin = "refresh" THEN "idle"
                ELSE IF op.err /\ refresh = "idle" THEN "read"
                ELSE refresh
  /\ op' = Idle
  /\ UNCHANGED <<device, monitor, channel, ext, alive, requests>>

\* A start is refused while an output is seen on, and while a report is running
\* whose channels were not all seen.
StartRefusedIfActive == High # {}
StartRefused == High # {} \/ (~op.full /\ active # NoRow)
StartChecked ==
  /\ Ended("start.check")
  /\ IF StartRefused
       THEN op' = Idle /\ NoFault /\ UNCHANGED <<active, db, unclosed>>
       ELSE FinishCompleted /\ GoOn("start.high", op.sel)
  /\ UNCHANGED <<device, monitor, channel, ext, control, requests>>

StartSwitched ==
  /\ Ended("start.high") /\ ~offline
  /\ GoOn("start.done", Channels)
  /\ UNCHANGED <<device, monitor, channel, reports, control, budget>>

StartUndone ==
  /\ Ended("start.undo")
  /\ GoOn("start.fail", Channels)
  /\ UNCHANGED <<device, monitor, channel, reports, control, budget>>

\* createFailedReportLocked adds a row that was never running.
StartFailed ==
  /\ Ended("start.fail")
  /\ op' = Idle
  /\ UNCHANGED <<device, monitor, channel, reports, control, budget>>

\* createRunningReportLocked ignores an insertion that fails.
StartDone ==
  /\ Ended("start.done")
  /\ \/ \E n \in RowIds :
          /\ NewId("strike", op.sel, n)
          /\ active' = RowOf("strike", op.sel, n)
          /\ db' = db \cup {active'}
          /\ NoFault
     \/ Strike("db") /\ UNCHANGED <<active, db>>
  /\ op' = Idle
  /\ UNCHANGED <<device, monitor, channel, ext, unclosed, control, requests>>

SnapshotEnd ==
  /\ op.pc \in {"refresh", "poll", "set.read", "look"} /\ op.todo = {}
  /\ IF op.pc = "look" THEN NoFault /\ UNCHANGED <<active, db, unclosed>>
                       ELSE FinishCompleted
  /\ refresh' = IF op.pc = "refresh" THEN "check" ELSE refresh
  /\ op' = Idle
  /\ UNCHANGED <<device, monitor, channel, ext, pending, alive, requests>>

-----------------------------------------------------------------------------
(* The end of the process and the next one.                                 *)

MemoryLost ==
  /\ alive' = FALSE
  /\ status' = "unknown" /\ wire' = NoFrame /\ queue' = <<>> /\ callback' = "idle"
  /\ level' = [c \in Channels |-> "unknown"]
  /\ sw' = [c \in Channels |-> FALSE]
  /\ active' = NoRow
  /\ ext' = [c \in Channels |-> NoRow]
  /\ pending' = FALSE /\ refresh' = "idle"
  /\ op' = Idle

\* Shutdown closes the running reports as abnormal; outputs stay as they are.
Shutdown ==
  /\ Free /\ Request
  /\ MemoryLost
  /\ \E ok \in BOOLEAN :
       /\ Writes(ok)
       /\ db' = IF ok THEN db \ ({active} \cup {ext[c] : c \in Channels}) ELSE db
  /\ UNCHANGED <<relay, misled, unclosed>>

Crash ==
  /\ alive /\ Strike("crash")
  /\ MemoryLost
  /\ UNCHANGED <<relay, misled, db, unclosed, requests>>

\* CloseRunning, whose failure is only logged, then a new service: to it every
\* closed output is a device-side operation.
Restart ==
  /\ ~alive
  /\ alive' = TRUE
  /\ \E ok \in BOOLEAN : Writes(ok) /\ db' = IF ok THEN {} ELSE db
  /\ unclosed' = db'
  /\ relay' = [c \in Channels |-> IF relay[c] = "open" THEN "open" ELSE "field"]
  /\ UNCHANGED <<status, monitor, channel, active, ext, pending, refresh, op, requests>>

-----------------------------------------------------------------------------
Init ==
  /\ relay \in [Channels -> {"open", "field"}]
  /\ status = "unknown" /\ wire = NoFrame /\ queue = <<>> /\ callback = "idle"
  /\ misled = FALSE
  /\ level = [c \in Channels |-> "unknown"]
  /\ sw = [c \in Channels |-> FALSE]
  /\ db = {} /\ unclosed = {}
  /\ active = NoRow
  /\ ext = [c \in Channels |-> NoRow]
  /\ pending = FALSE /\ refresh = "idle"
  /\ op = Idle
  /\ alive = TRUE
  /\ requests = 0 /\ faults = 0

Environment == \/ \E c \in Channels : FieldClose(c) \/ RelayOpen(c)
               \/ LinkLost
Api == \/ Stop \/ StopOffline \/ Poll \/ Look \/ RefusedOffline \/ Shutdown
       \/ \E sel \in SUBSET Channels : Start(sel)
       \/ \E c \in Channels : SetLow(c)
Observe == ObserveError \/ ObserveFrame
Background == MonitorCheck \/ MonitorRetry \/ RefreshBegin \/ RefreshCheck \/ RefreshRetry
Exchange == \/ SwitchOffline
            \/ \E c \in Channels : \/ ReadOffline(c) \/ ReadOk(c) \/ ReadFail(c)
                                   \/ LowOk(c) \/ LowFail(c) \/ HighOk(c) \/ HighFail(c)
Conclude == \/ StopChoose \/ StopSwitched \/ StopEnd
            \/ StartChecked \/ StartSwitched \/ StartUndone \/ StartFailed \/ StartDone
            \/ SnapshotEnd

Connection == Frame \/ \E asked \in BOOLEAN : Sent(asked)

Next == \/ Environment \/ Connection \/ Api \/ Observe \/ Background
        \/ Exchange \/ Conclude \/ Crash \/ Restart

Spec == Init /\ [][Next]_vars

(* The scheduler's part.  Relay exchanges have a timeout, so an operation that
   holds mu goes on; mu is granted to whoever keeps asking for it (sync.RWMutex
   does not starve a waiter); the monitor polls the outputs every second.  No
   request, field operation or fault is fair. *)
Fairness ==
  /\ WF_vars(Exchange \/ Conclude)
  /\ WF_vars(Sent(TRUE)) /\ WF_vars(Frame) /\ SF_vars(Observe)
  /\ WF_vars(MonitorCheck) /\ SF_vars(MonitorRetry)
  /\ SF_vars(RefreshBegin) /\ WF_vars(RefreshCheck) /\ SF_vars(RefreshRetry)
  /\ WF_vars(Restart)

FairSpec == Spec /\ Fairness

-----------------------------------------------------------------------------
(* Properties.                                                              *)

\* Every row the database shows as running is one the service still holds and
\* can close: no start overwrites a report that is running, no path forgets one.
\* The only rows lost to the service are those whose closing write failed.
RunningRowsTracked ==
  alive => \A r \in db \ unclosed : r = active \/ \E c \in Channels : ext[c] = r

\* What makes RunningRowsTracked inductive.  The rows in memory are running rows
\* of their own kind and channel; a start that has passed its checks found no
\* report, or saw every channel open and ended it; a dead process remembers none.
RowsInMemory ==
  /\ active # NoRow => active \in db /\ active.kind = "strike"
  /\ \A c \in Channels : ext[c] # NoRow =>
       ext[c] \in db /\ ext[c].kind = "external" /\ ext[c].chs = {c}
FullySeen ==
  op.pc \in Reading /\ op.full => \A c \in Channels \ op.todo : level[c] # "unknown"
StartHasNoReport ==
  op.pc \in Starting \ {"start.check"} => active = NoRow
DeadRemembersNothing ==
  ~alive => /\ op.pc = "idle" /\ active = NoRow
            /\ \A c \in Channels : ext[c] = NoRow
ReportInv == /\ RunningRowsTracked /\ RowsInMemory /\ FullySeen
             /\ StartHasNoReport /\ DeadRemembersNothing

\* While a stop is pending no start is under way: a stop that could not reach
\* the relay is never followed by a new strike before it was carried out.
NoStartWhilePending == pending => op.pc \notin Starting

\* A stop that saw every channel and reports success leaves no output closed by
\* the platform, whatever the field, the timers and the link do meanwhile.
StopLeavesNoStrike ==
  [][(op.pc = "stop.last" /\ op'.pc = "idle" /\ alive' /\ op.seenAll /\ ~op.err)
       => \A c \in Channels : relay[c] # "platform"]_vars

\* A report ends as completed on evidence: a field report when its output was
\* seen open or was opened, a strike report when no channel of it is unknown.  A
\* broken connection ends no report.  A stop that failed says so in the report.
CompletionObserved ==
  [][alive /\ alive' /\ ~(op.pc = "stop.last" /\ op.err)
       => \A r \in db \ db' : \A c \in r.chs :
            \/ level'[c] = "low" \/ relay'[c] = "open"
            \/ r.kind = "strike" /\ level'[c] = "high"]_vars

\* The document's claim as it stands: an output that the platform closed is not
\* recorded as a field operation.
FieldReportIsField ==
  [][\A c \in Channels : ext[c] = NoRow /\ ext'[c] # NoRow
       => Head(queue).values[c] # "platform"]_vars

\* What the code gives of it.  Left out are a frame that a read on another
\* connection overtook and that still arrives afterwards (no version tells it
\* from a new one), and behaviours in which a frame the relay sent without
\* being asked outlived a switching command.
PlatformStrikeNotRecordedAsField ==
  [][~misled => \A c \in Channels : ext[c] = NoRow /\ ext'[c] # NoRow
       => \/ Head(queue).values[c] # "platform"
          \/ c \in Head(queue).overtaken]_vars

\* A pending stop is dropped only when no output closed by the platform is left:
\* it survives until the relay can be reached again.
PendingStopCarriedOut ==
  [][pending /\ ~pending' /\ alive' => \A c \in Channels : relay[c] # "platform"]_vars

\* Once the outputs stay open every report ends, with no screen or API client
\* to ask for the state: the monitor alone brings it about.
QuietEndsReports ==
  <>[](\A c \in Channels : relay[c] = "open")
    => <>[](active = NoRow /\ \A c \in Channels : ext[c] = NoRow)

\* A stop that is pending is eventually retried and resolved.
PendingStopResolved == pending ~> ~pending
=============================================================================
