------------------------- MODULE InterferenceProofs -------------------------
(***************************************************************************)
(* Proofs about Interference, for every number of channels, every set of    *)
(* faults and every bound.                                                  *)
(***************************************************************************)
EXTENDS Interference, TLAPS

LEMMA IdleInOp == Idle \in Op
BY DEF Idle, Op, OpRecord, Reading, Switching, Starting, Origins

\* Superseding updates of one channel leaves a queue of updates.
LEMMA SupersedeType ==
  ASSUME TypeOK, NEW c \in Channels, Supersede(c)
  PROVE  queue' \in Seq(Update)
<1>1. queue \in Seq(Update)
  BY DEF TypeOK
<1>2. \A i \in DOMAIN queue : [queue[i] EXCEPT !.fresh = @ \ {c}] \in Update
  <2> TAKE i \in DOMAIN queue
  <2>1. queue[i] \in Update
    BY <1>1
  <2> QED BY <2>1 DEF Update
<1>3. DOMAIN queue = 1..Len(queue) /\ Len(queue) \in Nat
  BY <1>1
<1> QED BY <1>1, <1>2, <1>3 DEF Supersede

\* What a read and a switching command do to the frame on the wire.
LEMMA WireType ==
  ASSUME TypeOK, NEW c \in Channels, Overtake(c) \/ NewVersion
  PROVE  wire' \in Sending \cup {NoFrame}
<1>1. CASE Overtake(c)
  <2>1. CASE wire = NoFrame
    BY <1>1, <2>1 DEF Overtake, TypeOK
  <2>2. CASE wire # NoFrame
    <3>1. wire \in Sending
      BY <2>2 DEF TypeOK
    <3>2. [wire EXCEPT !.overtaken = @ \cup {c}] \in Sending
      BY <3>1 DEF Sending
    <3> QED BY <1>1, <3>1, <3>2 DEF Overtake
  <2> QED BY <2>1, <2>2
<1>2. CASE NewVersion
  BY <1>2 DEF NewVersion, TypeOK
<1> QED BY <1>1, <1>2

LEMMA MisledType ==
  ASSUME TypeOK, NewVersion
  PROVE  misled' \in BOOLEAN
BY Zenon DEF NewVersion, TypeOK

LEMMA InitType == Init => TypeOK
<1> SUFFICES ASSUME Init PROVE TypeOK
  OBVIOUS
<1>1. relay \in Outputs
  BY DEF Init, Outputs
<1>2. queue \in Seq(Update) /\ op \in Op
  BY IdleInOp DEF Init
<1> QED BY <1>1, <1>2 DEF Init, TypeOK

\* Each step of the relay, of the monitor and of the service keeps the types.
LEMMA EnvironmentType ==
  ASSUME TypeOK, Environment \/ Connection
  PROVE  TypeOK'
<1> USE DEF TypeOK, monitor, channel, reports, control, budget
<1>1. CASE \E c \in Channels : FieldClose(c)
  BY <1>1 DEF FieldClose, Outputs
<1>2. CASE \E c \in Channels : RelayOpen(c)
  BY <1>2 DEF RelayOpen, Outputs
<1>3. CASE LinkLost
  BY <1>3 DEF LinkLost, Strike, Update, Outputs
<1>4. CASE Frame
  <2>1. wire \in Sending
    BY <1>4 DEF Frame
  <2>2. Received \in Update
    BY <2>1 DEF Received, Update, Sending
  <2>3. queue' \in Seq(Update)
    BY <1>4, <2>2 DEF Frame
  <2> QED BY <1>4, <2>3 DEF Frame
<1>5. ASSUME NEW asked \in BOOLEAN, Sent(asked) PROVE TypeOK'
  <2>1. wire' \in Sending /\ faults' \in Nat
    BY <1>5 DEF Sent, Sending, NoFault, Strike
  <2> QED BY <1>5, <2>1 DEF Sent, device
<1> QED BY <1>1, <1>2, <1>3, <1>4, <1>5 DEF Environment, Connection

LEMMA ObserveErrorType ==
  ASSUME TypeOK, ObserveError
  PROVE  TypeOK'
BY DEF ObserveError, Free, TypeOK, device, reports, control, budget, Update

LEMMA ObserveFrameType ==
  ASSUME TypeOK, ObserveFrame
  PROVE  TypeOK'
<1> DEFINE u == Head(queue)
           lev == [c \in Channels |-> IF c \in SeenLow(u) THEN "low"
                                      ELSE IF c \in SeenHigh(u) THEN "high"
                                      ELSE level[c]]
           closed == {c \in SeenLow(u) : ext[c] # NoRow}
           ends == Inactive(u.fresh = Channels, lev)
<1>1. queue' \in Seq(Update) /\ u \in Update
  BY DEF ObserveFrame, TypeOK
<1>2. ToRecord(u) \subseteq Channels
  BY <1>1 DEF ToRecord, SeenHigh, Update
<1>3. PICK ok \in BOOLEAN, id \in [ToRecord(u) -> RowIds] :
        /\ Writes(ok)
        /\ level' = lev
        /\ sw' = [c \in Channels |-> sw[c] /\ c \notin SeenLow(u)]
        /\ ext' = [c \in Channels |->
                     IF ok /\ c \in closed THEN NoRow
                     ELSE IF ok /\ c \in ToRecord(u) THEN RowOf("external", {c}, id[c])
                     ELSE ext[c]]
        /\ db' = IF ok THEN (db \ ({ext[c] : c \in closed}
                                    \cup (IF ends THEN {active} ELSE {})))
                            \cup {RowOf("external", {c}, id[c]) : c \in ToRecord(u)}
                       ELSE db
        /\ active' = IF ends THEN NoRow ELSE active
        /\ unclosed' = IF ends /\ ~ok THEN unclosed \cup {active} ELSE unclosed
  BY DEF ObserveFrame
<1>4. \A c \in ToRecord(u) : RowOf("external", {c}, id[c]) \in Row
  BY <1>2 DEF RowOf, Row
<1>5. level' \in [Channels -> {"unknown", "low", "high"}]
  BY <1>3 DEF TypeOK
<1>6. sw' \in [Channels -> BOOLEAN]
  BY <1>3 DEF TypeOK
<1>7. db' \subseteq Row
  BY <1>3, <1>4 DEF TypeOK
<1>8. ext' \in [Channels -> Row \cup {NoRow}]
  BY <1>3, <1>4 DEF TypeOK
<1>9. active' \in Row \cup {NoRow} /\ unclosed' \subseteq Row
  BY <1>3 DEF TypeOK, Inactive
<1>10. faults' \in Nat
  BY <1>3 DEF TypeOK, Writes, NoFault, Strike
<1> HIDE DEF u, lev, closed, ends
<1> QED BY <1>1, <1>5, <1>6, <1>7, <1>8, <1>9, <1>10
        DEF TypeOK, ObserveFrame, device, control

\* An operation that begins is an operation.
LEMMA BeginType ==
  ASSUME NEW pc \in Reading \cup Switching, NEW todo \in SUBSET Channels,
         NEW sel \in SUBSET Channels, NEW origin \in Origins,
         pc \in Starting => sel # {},
         Begin(pc, todo, sel, origin)
  PROVE  op' \in Op
BY DEF Begin, Idle, Op, OpRecord, Starting

LEMMA BackgroundType ==
  ASSUME TypeOK, Background
  PROVE  TypeOK'
<1> USE DEF TypeOK, device, monitor, channel, reports, control, budget
<1>1. CASE MonitorCheck
  BY <1>1 DEF MonitorCheck
<1>2. CASE MonitorRetry
  <2>1. op' \in Op
    BY <1>2, BeginType DEF MonitorRetry, Reading, Origins, Starting
  <2> QED BY <1>2, <2>1 DEF MonitorRetry
<1>3. CASE RefreshBegin
  <2>1. op' \in Op
    BY <1>3 DEF RefreshBegin, Idle, Op, OpRecord, Starting, Reading, Origins
  <2> QED BY <1>3, <2>1 DEF RefreshBegin
<1>4. CASE RefreshCheck
  BY <1>4 DEF RefreshCheck
<1>5. CASE RefreshRetry
  <2>1. op' \in Op
    BY <1>5, BeginType DEF RefreshRetry, Reading, Origins, Starting
  <2> QED BY <1>5, <2>1 DEF RefreshRetry
<1> QED BY <1>1, <1>2, <1>3, <1>4, <1>5 DEF Background

LEMMA MemoryLostType ==
  ASSUME TypeOK, MemoryLost, relay' \in Outputs, db' \subseteq Row,
         unclosed' \subseteq Row, misled' \in BOOLEAN, requests' \in Nat, faults' \in Nat
  PROVE  TypeOK'
<1>1. queue' \in Seq(Update) /\ op' \in Op
  BY IdleInOp DEF MemoryLost
<1> QED BY <1>1 DEF MemoryLost, TypeOK

LEMMA ApiType ==
  ASSUME TypeOK, Api
  PROVE  TypeOK'
<1> USE DEF TypeOK, device, monitor, channel, reports, control, budget, Request
<1>1. CASE Stop
  <2>1. op' \in Op
    BY <1>1, BeginType DEF Stop, Reading, Origins, Starting
  <2> QED BY <1>1, <2>1 DEF Stop
<1>2. CASE StopOffline
  BY <1>2 DEF StopOffline, RefreshAsync
<1>3. CASE Poll
  <2>1. op' \in Op
    BY <1>3, BeginType DEF Poll, Snapshot, Reading, Origins, Starting
  <2> QED BY <1>3, <2>1 DEF Poll
<1>4. CASE Look
  <2>1. op' \in Op
    BY <1>4, BeginType DEF Look, Snapshot, Reading, Origins, Starting
  <2> QED BY <1>4, <2>1 DEF Look
<1>5. CASE RefusedOffline
  BY <1>5 DEF RefusedOffline, RefreshAsync
<1>6. CASE Shutdown
  <2>1. relay' \in Outputs /\ unclosed' \subseteq Row /\ misled' \in BOOLEAN /\ requests' \in Nat
    BY <1>6 DEF Shutdown
  <2>2. db' \subseteq Row /\ faults' \in Nat
    BY <1>6 DEF Shutdown, Writes, NoFault, Strike
  <2>3. MemoryLost
    BY <1>6 DEF Shutdown
  <2> QED BY <2>1, <2>2, <2>3, MemoryLostType
<1>7. ASSUME NEW sel \in SUBSET Channels, Start(sel) PROVE TypeOK'
  <2>1. op' \in Op
    BY <1>7, BeginType DEF Start, ValidSelection, Reading, Origins
  <2> QED BY <1>7, <2>1 DEF Start
<1>8. ASSUME NEW c \in Channels, SetLow(c) PROVE TypeOK'
  <2>1. op' \in Op
    BY <1>8, BeginType DEF SetLow, Switching, Origins, Starting
  <2> QED BY <1>8, <2>1 DEF SetLow
<1> QED BY <1>1, <1>2, <1>3, <1>4, <1>5, <1>6, <1>7, <1>8 DEF Api

LEMMA FinishExternalType ==
  ASSUME TypeOK, NEW C \in SUBSET Channels, NEW ok \in BOOLEAN, FinishExternal(C, ok)
  PROVE  ext' \in [Channels -> Row \cup {NoRow}] /\ db' \subseteq Row
BY DEF FinishExternal, TypeOK

\* One relay exchange of an operation.
LEMMA ReadType ==
  ASSUME TypeOK, NEW c \in Channels, ReadOffline(c) \/ ReadOk(c) \/ ReadFail(c)
  PROVE  TypeOK'
<1> USE DEF TypeOK, device, monitor, reports, control, budget
<1>1. CASE ReadOffline(c)
  <2>1. op' \in Op
    BY <1>1 DEF ReadOffline, Op, OpRecord, Starting
  <2> QED BY <1>1, <2>1 DEF ReadOffline, Unknown
<1>2. CASE ReadOk(c)
  <2>1. op' \in Op
    BY <1>2 DEF ReadOk, Op, OpRecord, Starting
  <2>2. queue' \in Seq(Update)
    BY <1>2, SupersedeType DEF ReadOk
  <2>3. /\ ext' \in [Channels -> Row \cup {NoRow}] /\ db' \subseteq Row
        /\ faults' \in Nat
    <3>1. CASE relay[c] = "open" /\ ext[c] # NoRow
      <4>1. PICK ok \in BOOLEAN : Writes(ok) /\ FinishExternal({c}, ok)
        BY <1>2, <3>1 DEF ReadOk
      <4>2. {c} \in SUBSET Channels
        OBVIOUS
      <4>3. ext' \in [Channels -> Row \cup {NoRow}] /\ db' \subseteq Row
        BY <4>1, <4>2, FinishExternalType
      <4>4. faults' \in Nat
        BY <4>1 DEF Writes, NoFault, Strike
      <4> QED BY <4>3, <4>4
    <3>2. CASE ~(relay[c] = "open" /\ ext[c] # NoRow)
      BY <1>2, <3>2 DEF ReadOk, NoFault
    <3> QED BY <3>1, <3>2
  <2>4. sw' \in [Channels -> BOOLEAN] /\ level' \in [Channels -> {"unknown", "low", "high"}]
    BY <1>2 DEF ReadOk
  <2>5. wire' \in Sending \cup {NoFrame}
    BY <1>2, WireType DEF ReadOk
  <2> QED BY <1>2, <2>1, <2>2, <2>3, <2>4, <2>5 DEF ReadOk
<1>3. CASE ReadFail(c)
  <2>1. op' \in Op
    BY <1>3 DEF ReadFail, Op, OpRecord, Starting
  <2>2. queue' \in Seq(Update)
    BY <1>3, SupersedeType DEF ReadFail
  <2> QED BY <1>3, <2>1, <2>2 DEF ReadFail, Unknown, Strike
<1> QED BY <1>1, <1>2, <1>3

LEMMA SwitchType ==
  ASSUME TypeOK,
         NEW c \in Channels, LowOk(c) \/ LowFail(c) \/ HighOk(c) \/ HighFail(c)
  PROVE  TypeOK'
<1> USE DEF TypeOK, device, monitor, channel, reports, control, budget
<1>1. CASE LowOk(c)
  <2>1. op' \in Op
    BY <1>1 DEF LowOk, Op, OpRecord, Starting, Reading
  <2>2. queue' \in Seq(Update)
    BY <1>1, SupersedeType DEF LowOk
  <2>3. relay' \in Outputs /\ sw' \in [Channels -> BOOLEAN]
    BY <1>1 DEF LowOk, Outputs
  <2>4. ext' \in [Channels -> Row \cup {NoRow}] /\ db' \subseteq Row
    <3>1. {c} \in SUBSET Channels
      OBVIOUS
    <3>2. FinishExternal({c}, TRUE) \/ UNCHANGED <<ext, db>>
      BY <1>1 DEF LowOk
    <3>3. CASE FinishExternal({c}, TRUE)
      BY <3>1, <3>3, FinishExternalType
    <3>4. CASE UNCHANGED <<ext, db>>
      BY <3>4
    <3> QED BY <3>2, <3>3, <3>4
  <2>5. /\ status' \in {"unknown", "up", "down"} /\ faults' \in Nat
        /\ level' \in [Channels -> {"unknown", "low", "high"}]
    <3>1. CASE ReRead(c, "low")
      BY <3>1 DEF ReRead, Unknown, NoFault, Strike
    <3>2. CASE status' = "up" /\ level' = [level EXCEPT ![c] = "low"] /\ Strike("db")
      BY <3>2 DEF Strike
    <3> QED BY <1>1, <3>1, <3>2 DEF LowOk
  <2>6. wire' \in Sending \cup {NoFrame} /\ misled' \in BOOLEAN
    BY <1>1, WireType, MisledType DEF LowOk
  <2> QED BY <1>1, <2>1, <2>2, <2>3, <2>4, <2>5, <2>6 DEF LowOk
<1>2. CASE LowFail(c)
  <2>1. op' \in Op
    BY <1>2, IdleInOp DEF LowFail, Op, OpRecord, Starting
  <2>2. relay' \in Outputs /\ faults' \in Nat
    BY <1>2 DEF LowFail, Outputs, Strike
  <2>3. wire' \in Sending \cup {NoFrame} /\ misled' \in BOOLEAN
    BY <1>2, WireType, MisledType DEF LowFail
  <2> QED BY <1>2, <2>1, <2>2, <2>3 DEF LowFail
<1>3. CASE HighOk(c)
  <2>1. op' \in Op
    BY <1>3 DEF HighOk, Op, OpRecord, Starting
  <2>2. queue' \in Seq(Update)
    BY <1>3, SupersedeType DEF HighOk
  <2>3. relay' \in Outputs /\ sw' \in [Channels -> BOOLEAN]
    BY <1>3 DEF HighOk, Outputs
  <2>4. /\ status' \in {"unknown", "up", "down"} /\ faults' \in Nat
        /\ level' \in [Channels -> {"unknown", "low", "high"}]
    BY <1>3 DEF HighOk, ReRead, Unknown, NoFault, Strike
  <2>5. wire' \in Sending \cup {NoFrame} /\ misled' \in BOOLEAN
    BY <1>3, WireType, MisledType DEF HighOk
  <2> QED BY <1>3, <2>1, <2>2, <2>3, <2>4, <2>5 DEF HighOk
<1>4. CASE HighFail(c)
  <2>1. op' \in Op
    BY <1>4 DEF HighFail, Op, OpRecord, Starting, Switching
  <2>2. relay' \in Outputs /\ faults' \in Nat
    BY <1>4 DEF HighFail, Outputs, Strike
  <2>3. wire' \in Sending \cup {NoFrame} /\ misled' \in BOOLEAN
    BY <1>4, WireType, MisledType DEF HighFail
  <2> QED BY <1>4, <2>1, <2>2, <2>3 DEF HighFail
<1> QED BY <1>1, <1>2, <1>3, <1>4

LEMMA ExchangeType ==
  ASSUME TypeOK, Exchange
  PROVE  TypeOK'
<1>1. CASE SwitchOffline
  <2>1. op' \in Op
    BY <1>1 DEF SwitchOffline, TypeOK, Op, OpRecord, Starting, Reading
  <2> QED BY <1>1, <2>1
          DEF SwitchOffline, RefreshAsync, TypeOK, device, monitor, channel, reports, budget
<1> QED BY <1>1, ReadType, SwitchType DEF Exchange

LEMMA FinishActiveType ==
  ASSUME TypeOK, NEW ok \in BOOLEAN, FinishActive(ok)
  PROVE  active' = NoRow /\ db' \subseteq Row /\ unclosed' \subseteq Row
BY DEF FinishActive, TypeOK

LEMMA FinishCompletedType ==
  ASSUME TypeOK, FinishCompleted
  PROVE  /\ active' \in Row \cup {NoRow} /\ db' \subseteq Row
         /\ unclosed' \subseteq Row /\ faults' \in Nat
<1>1. CASE Inactive(op.full, level)
  <2>1. PICK ok \in BOOLEAN : Writes(ok) /\ FinishActive(ok)
    BY <1>1 DEF FinishCompleted
  <2>2. faults' \in Nat
    BY <2>1 DEF TypeOK, Writes, NoFault, Strike
  <2> QED BY <2>1, <2>2, FinishActiveType
<1>2. CASE ~Inactive(op.full, level)
  BY <1>2 DEF FinishCompleted, NoFault, TypeOK
<1> QED BY <1>1, <1>2

\* What an operation concludes keeps the types.
LEMMA ConcludeType ==
  ASSUME TypeOK, Conclude
  PROVE  TypeOK'
<1> USE DEF TypeOK, device, monitor, channel, reports, control, budget
<1>1. CASE StopChoose
  <2>1. ToStop \in SUBSET Channels
    BY DEF ToStop, High, Row
  <2>2. op' \in Op
    BY <1>1, <2>1 DEF StopChoose, Op, OpRecord, Starting, Switching
  <2> QED BY <1>1, <2>2 DEF StopChoose
<1>2. CASE StopSwitched
  <2>1. op' \in Op
    BY <1>2 DEF StopSwitched, GoOn, Ended, Op, OpRecord, Starting, Reading
  <2> QED BY <1>2, <2>1 DEF StopSwitched
<1>3. CASE StopEnd
  <2>1. pending' \in BOOLEAN /\ op' \in Op
    BY <1>3, IdleInOp DEF StopEnd, Op, OpRecord, Starting
  <2>2. /\ active' \in Row \cup {NoRow} /\ db' \subseteq Row
        /\ unclosed' \subseteq Row /\ faults' \in Nat
    <3>1. CASE (op.full \/ op.err) /\ active # NoRow
      <4>1. PICK ok \in BOOLEAN : Writes(ok) /\ FinishActive(ok)
        BY <1>3, <3>1 DEF StopEnd
      <4>2. faults' \in Nat
        BY <4>1 DEF Writes, NoFault, Strike
      <4> QED BY <4>1, <4>2, FinishActiveType
    <3>2. CASE ~((op.full \/ op.err) /\ active # NoRow)
      BY <1>3, <3>2 DEF StopEnd, NoFault
    <3> QED BY <3>1, <3>2
  <2>3. refresh' \in {"idle", "read", "check", "lock", "stopping"}
    BY <1>3 DEF StopEnd
  <2> QED BY <1>3, <2>1, <2>2, <2>3 DEF StopEnd
<1>4. CASE StartChecked
  <2>1. op' \in Op
    <3>1. CASE StartRefused
      BY <1>4, <3>1, IdleInOp DEF StartChecked
    <3>2. CASE ~StartRefused
      <4>1. op.sel # {} /\ op.sel \subseteq Channels
        BY <1>4 DEF StartChecked, Ended, Op, OpRecord, Starting
      <4>2. GoOn("start.high", op.sel)
        BY <1>4, <3>2 DEF StartChecked
      <4> QED BY <4>1, <4>2 DEF GoOn, Op, OpRecord, Switching
    <3> QED BY <3>1, <3>2
  <2>2. /\ active' \in Row \cup {NoRow} /\ db' \subseteq Row
        /\ unclosed' \subseteq Row /\ faults' \in Nat
    <3>1. CASE StartRefused
      BY <1>4, <3>1 DEF StartChecked, NoFault
    <3>2. CASE ~StartRefused
      BY <1>4, <3>2, FinishCompletedType DEF StartChecked
    <3> QED BY <3>1, <3>2
  <2> QED BY <1>4, <2>1, <2>2 DEF StartChecked
<1>5. CASE StartSwitched
  <2>1. op' \in Op
    BY <1>5 DEF StartSwitched, GoOn, Ended, Op, OpRecord, Starting, Reading
  <2> QED BY <1>5, <2>1 DEF StartSwitched
<1>6. CASE StartUndone
  <2>1. op' \in Op
    BY <1>6 DEF StartUndone, GoOn, Ended, Op, OpRecord, Starting, Reading
  <2> QED BY <1>6, <2>1 DEF StartUndone
<1>7. CASE StartFailed
  BY <1>7, IdleInOp DEF StartFailed
<1>8. CASE StartDone
  <2>1. \A n \in RowIds : RowOf("strike", op.sel, n) \in Row
    BY <1>8 DEF StartDone, Ended, RowOf, Row, Op, OpRecord, Starting
  <2>2. active' \in Row \cup {NoRow} /\ db' \subseteq Row /\ faults' \in Nat
    BY <1>8, <2>1 DEF StartDone, NoFault, Strike
  <2> QED BY <1>8, <2>2, IdleInOp DEF StartDone
<1>9. CASE SnapshotEnd
  <2>1. /\ active' \in Row \cup {NoRow} /\ db' \subseteq Row
        /\ unclosed' \subseteq Row /\ faults' \in Nat
    BY <1>9, FinishCompletedType DEF SnapshotEnd, NoFault
  <2> QED BY <1>9, <2>1, IdleInOp DEF SnapshotEnd
<1> QED BY <1>1, <1>2, <1>3, <1>4, <1>5, <1>6, <1>7, <1>8, <1>9 DEF Conclude

LEMMA LifecycleType ==
  ASSUME TypeOK, Crash \/ Restart
  PROVE  TypeOK'
<1>1. CASE Crash
  <2>1. /\ MemoryLost /\ relay' \in Outputs /\ misled' \in BOOLEAN
        /\ db' \subseteq Row /\ unclosed' \subseteq Row
    BY <1>1 DEF Crash, TypeOK
  <2>2. requests' \in Nat /\ faults' \in Nat
    BY <1>1 DEF Crash, Strike, TypeOK
  <2> QED BY <2>1, <2>2, MemoryLostType
<1>2. CASE Restart
  <2>1. relay' \in Outputs
    BY <1>2 DEF Restart, Outputs
  <2>2. db' \subseteq Row /\ unclosed' \subseteq Row /\ faults' \in Nat
    BY <1>2 DEF Restart, TypeOK, Writes, NoFault, Strike
  <2> QED BY <1>2, <2>1, <2>2 DEF Restart, TypeOK, monitor, channel
<1> QED BY <1>1, <1>2

LEMMA StepType == TypeOK /\ [Next]_vars => TypeOK'
<1> SUFFICES ASSUME TypeOK, [Next]_vars PROVE TypeOK'
  OBVIOUS
<1>1. CASE Next
  BY <1>1, EnvironmentType, ApiType, ObserveErrorType, ObserveFrameType, BackgroundType,
     ExchangeType, ConcludeType, LifecycleType DEF Next, Observe
<1>2. CASE UNCHANGED vars
  BY <1>2 DEF vars, device, monitor, channel, reports, control, budget, TypeOK
<1> QED BY <1>1, <1>2

\* Every variable keeps its type, whatever the interleaving and the faults.
THEOREM TypeCorrect == Spec => []TypeOK
BY InitType, StepType, PTL DEF Spec

-----------------------------------------------------------------------------
(* RunningRowsTracked.  The two invariants about rows are kept by whatever    *)
(* leaves the rows alone, and by each way of closing one.                     *)

LEMMA SameRows ==
  ASSUME RunningRowsTracked, RowsInMemory, UNCHANGED <<reports, alive>>
  PROVE  RunningRowsTracked' /\ RowsInMemory'
BY DEF RunningRowsTracked, RowsInMemory, reports

LEMMA ActiveClosed ==
  ASSUME TypeOK, RunningRowsTracked, RowsInMemory, UNCHANGED <<ext, alive>>,
         active # NoRow, NEW ok \in BOOLEAN, FinishActive(ok)
  PROVE  RunningRowsTracked' /\ RowsInMemory' /\ active' = NoRow
<1>1. active' = NoRow
  BY DEF FinishActive
<1>2. \A c \in Channels : ext[c] # NoRow => ext[c] # active
  BY DEF RowsInMemory
<1>3. RowsInMemory'
  BY <1>1, <1>2 DEF RowsInMemory, FinishActive
<1>4. RunningRowsTracked'
  <2> SUFFICES ASSUME alive', NEW r \in db' \ unclosed'
               PROVE  \E c \in Channels : ext'[c] = r
    BY DEF RunningRowsTracked
  <2>1. r \in db \ unclosed /\ r # active
    BY DEF FinishActive
  <2> QED BY <2>1 DEF RunningRowsTracked
<1> QED BY <1>1, <1>3, <1>4

LEMMA ExternalClosed ==
  ASSUME TypeOK, RunningRowsTracked, RowsInMemory, UNCHANGED <<active, unclosed, alive>>,
         NEW c \in Channels, NEW ok \in BOOLEAN, FinishExternal({c}, ok)
  PROVE  RunningRowsTracked' /\ RowsInMemory'
<1>1. CASE ok
  <2>1. /\ ext' = [d \in Channels |-> IF d = c THEN NoRow ELSE ext[d]]
        /\ db' = db \ {ext[c]}
    BY <1>1 DEF FinishExternal
  <2>2. RowsInMemory'
    <3>1. active # NoRow => active # ext[c]
      BY DEF RowsInMemory, NoRow
    <3>2. \A d \in Channels : d # c /\ ext[d] # NoRow => ext[d] # ext[c]
      BY DEF RowsInMemory
    <3> QED BY <2>1, <3>1, <3>2 DEF RowsInMemory
  <2>3. RunningRowsTracked'
    <3> SUFFICES ASSUME alive', NEW r \in db' \ unclosed'
                 PROVE  r = active' \/ \E d \in Channels : ext'[d] = r
      BY DEF RunningRowsTracked
    <3>1. r \in db \ unclosed /\ r # ext[c]
      BY <2>1
    <3> QED BY <2>1, <3>1 DEF RunningRowsTracked
  <2> QED BY <2>2, <2>3
<1>2. CASE ~ok
  BY <1>2, SameRows DEF FinishExternal, reports
<1> QED BY <1>1, <1>2

LEMMA InitReport == Init => ReportInv
BY DEF Init, ReportInv, RunningRowsTracked, RowsInMemory, FullySeen, StartHasNoReport,
       DeadRemembersNothing, Idle, Reading, Starting

\* Steps of the relay, the link and the process.
LEMMA EnvironmentReport ==
  ASSUME TypeOK, ReportInv, Environment \/ Connection
  PROVE  ReportInv'
<1>1. UNCHANGED <<level, op, reports, alive>>
  BY DEF Environment, Connection, Frame, Sent, device, FieldClose, RelayOpen, LinkLost, channel, control
<1> QED BY <1>1, SameRows DEF ReportInv, FullySeen, StartHasNoReport, DeadRemembersNothing, reports

\* The end of the process, in order or not: memory is empty.
LEMMA MemoryLostReport ==
  ASSUME MemoryLost PROVE ReportInv'
BY DEF MemoryLost, ReportInv, RunningRowsTracked, RowsInMemory, FullySeen,
       StartHasNoReport, DeadRemembersNothing, Idle, Reading, Starting

LEMMA LifecycleReport ==
  ASSUME TypeOK, ReportInv, Crash \/ Restart
  PROVE  ReportInv'
<1>1. CASE Crash
  BY <1>1, MemoryLostReport DEF Crash
<1>2. CASE Restart
  <2>1. /\ op.pc = "idle" /\ active = NoRow /\ \A c \in Channels : ext[c] = NoRow
        /\ UNCHANGED <<op, active, ext>> /\ unclosed' = db' /\ alive'
    BY <1>2 DEF Restart, ReportInv, DeadRemembersNothing
  <2> QED BY <2>1 DEF ReportInv, RunningRowsTracked, RowsInMemory, FullySeen,
                      StartHasNoReport, DeadRemembersNothing, Reading, Starting
<1> QED BY <1>1, <1>2

\* An operation that begins has seen nothing yet and concluded nothing.
LEMMA BeginReport ==
  ASSUME ReportInv, alive, UNCHANGED <<reports, alive>>,
         op'.pc \in Reading => op'.todo = Channels,
         op'.pc \in Starting => op'.pc = "start.check"
  PROVE  ReportInv'
BY SameRows DEF ReportInv, FullySeen, StartHasNoReport, DeadRemembersNothing

LEMMA ApiReport ==
  ASSUME TypeOK, ReportInv, Api
  PROVE  ReportInv'
<1> USE DEF control, Free, Begin, Idle, Snapshot, Reading, Starting
<1>1. CASE Stop
  BY <1>1, BeginReport DEF Stop
<1>2. CASE StopOffline
  BY <1>2, BeginReport DEF StopOffline
<1>3. CASE Poll
  BY <1>3, BeginReport DEF Poll
<1>4. CASE Look
  BY <1>4, BeginReport DEF Look
<1>5. CASE RefusedOffline
  <2>1. UNCHANGED <<level, op, reports, alive>>
    BY <1>5 DEF RefusedOffline, channel
  <2> QED BY <2>1, SameRows
          DEF ReportInv, FullySeen, StartHasNoReport, DeadRemembersNothing, reports
<1>6. CASE Shutdown
  BY <1>6, MemoryLostReport DEF Shutdown
<1>7. ASSUME NEW sel \in SUBSET Channels, Start(sel) PROVE ReportInv'
  BY <1>7, BeginReport DEF Start
<1>8. ASSUME NEW c \in Channels, SetLow(c) PROVE ReportInv'
  BY <1>8, BeginReport DEF SetLow
<1> QED BY <1>1, <1>2, <1>3, <1>4, <1>5, <1>6, <1>7, <1>8 DEF Api

LEMMA BackgroundReport ==
  ASSUME TypeOK, ReportInv, Background
  PROVE  ReportInv'
<1> USE DEF control, Free, Begin, Idle, Reading, Starting
<1>1. CASE MonitorCheck \/ RefreshCheck
  <2>1. UNCHANGED <<level, op, reports, alive>>
    BY <1>1 DEF MonitorCheck, RefreshCheck, channel
  <2> QED BY <2>1, SameRows
          DEF ReportInv, FullySeen, StartHasNoReport, DeadRemembersNothing, reports
<1>2. CASE MonitorRetry
  BY <1>2, BeginReport DEF MonitorRetry
<1>3. CASE RefreshBegin
  BY <1>3, BeginReport DEF RefreshBegin
<1>4. CASE RefreshRetry
  BY <1>4, BeginReport DEF RefreshRetry
<1> QED BY <1>1, <1>2, <1>3, <1>4 DEF Background

\* A frame records a row for each channel of ToRecord, closes the field rows of
\* the open ones and, when every channel was seen open, the strike report.
LEMMA ObserveFrameReport ==
  ASSUME TypeOK, ReportInv, ObserveFrame
  PROVE  RunningRowsTracked' /\ RowsInMemory'
<1> DEFINE u == Head(queue)
           lev == [c \in Channels |-> IF c \in SeenLow(u) THEN "low"
                                      ELSE IF c \in SeenHigh(u) THEN "high"
                                      ELSE level[c]]
           closed == {c \in SeenLow(u) : ext[c] # NoRow}
           ends == Inactive(u.fresh = Channels, lev)
           R == ToRecord(u)
<1>1. u \in Update
  BY DEF ObserveFrame, TypeOK
<1>2. R \subseteq Channels /\ closed \subseteq Channels /\ R \cap closed = {}
  BY <1>1 DEF ToRecord, SeenHigh, SeenLow, Update
<1>3. \A c \in R : ext[c] = NoRow
  BY DEF ToRecord
<1>4. PICK ok \in BOOLEAN, id \in [R -> RowIds] :
        /\ \A c \in R : NewId("external", {c}, id[c])
        /\ ext' = [c \in Channels |->
                     IF ok /\ c \in closed THEN NoRow
                     ELSE IF ok /\ c \in R THEN RowOf("external", {c}, id[c])
                     ELSE ext[c]]
        /\ db' = IF ok THEN (db \ ({ext[c] : c \in closed}
                                    \cup (IF ends THEN {active} ELSE {})))
                            \cup {RowOf("external", {c}, id[c]) : c \in R}
                       ELSE db
        /\ active' = IF ends THEN NoRow ELSE active
        /\ unclosed' = IF ends /\ ~ok THEN unclosed \cup {active} ELSE unclosed
  BY DEF ObserveFrame
<1>5. alive' = alive
  BY DEF ObserveFrame, control
<1>6. RunningRowsTracked /\ RowsInMemory
  BY DEF ReportInv
<1> HIDE DEF u, lev, closed, ends, R
<1>7. CASE ok
  <2>1. ext' = [c \in Channels |-> IF c \in closed THEN NoRow
                                   ELSE IF c \in R THEN RowOf("external", {c}, id[c])
                                   ELSE ext[c]]
    BY <1>4, <1>7
  <2>2. db' = (db \ ({ext[c] : c \in closed} \cup (IF ends THEN {active} ELSE {})))
              \cup {RowOf("external", {c}, id[c]) : c \in R}
    BY <1>4, <1>7
  <2>3. active' # NoRow => active' = active /\ ~ends
    BY <1>4
  <2>4. RowsInMemory'
    <3>1. ASSUME active' # NoRow PROVE active' \in db' /\ active'.kind = "strike"
      <4>1. active \in db /\ active.kind = "strike" /\ active' = active /\ ~ends
        BY <2>3, <3>1, <1>6 DEF RowsInMemory
      <4>2. active \notin {ext[c] : c \in closed}
        BY <4>1, <1>6, <1>2, <3>1, <2>3 DEF RowsInMemory, NoRow
      <4> QED BY <4>1, <4>2, <2>2
    <3>2. ASSUME NEW c \in Channels, ext'[c] # NoRow
          PROVE  ext'[c] \in db' /\ ext'[c].kind = "external" /\ ext'[c].chs = {c}
      <4>1. c \notin closed
        BY <3>2, <2>1
      <4>2. CASE c \in R
        <5>1. ext'[c] = RowOf("external", {c}, id[c])
          BY <4>1, <4>2, <2>1
        <5>2. RowOf("external", {c}, id[c]) \in db'
          BY <4>2, <2>2
        <5>3. /\ RowOf("external", {c}, id[c]).kind = "external"
              /\ RowOf("external", {c}, id[c]).chs = {c}
          BY DEF RowOf
        <5> QED BY <5>1, <5>2, <5>3
      <4>3. CASE c \notin R
        <5>1. /\ ext'[c] = ext[c] /\ ext[c] # NoRow
              /\ ext[c] \in db /\ ext[c].kind = "external" /\ ext[c].chs = {c}
          BY <4>1, <4>3, <2>1, <3>2, <1>6 DEF RowsInMemory
        <5>2. \A d \in closed : ext[d] # ext[c]
          <6> TAKE d \in closed
          <6>1. d \in Channels /\ d # c
            BY <4>1, <1>2
          <6> QED BY <6>1, <5>1, <1>6 DEF RowsInMemory
        <5>3. active # NoRow => ext[c] # active
          BY <5>1, <1>6 DEF RowsInMemory
        <5>4. ends => active # NoRow
          BY DEF ends, Inactive
        <5> QED BY <5>1, <5>2, <5>3, <5>4, <2>2
      <4> QED BY <4>2, <4>3
    <3> QED BY <3>1, <3>2 DEF RowsInMemory
  <2>5. ASSUME alive', NEW r \in db' \ unclosed'
        PROVE  r = active' \/ \E c \in Channels : ext'[c] = r
    <3>1. CASE \E c \in R : r = RowOf("external", {c}, id[c])
      BY <3>1, <2>1, <1>2
    <3>2. CASE ~\E c \in R : r = RowOf("external", {c}, id[c])
      <4>1. r \in db \ unclosed /\ r \notin {ext[c] : c \in closed} /\ (ends => r # active)
        BY <2>2, <2>5, <3>2, <1>4, <1>7
      <4>2. r = active \/ \E c \in Channels : ext[c] = r
        BY <4>1, <2>5, <1>5, <1>6 DEF RunningRowsTracked
      <4>3. CASE r = active
        BY <4>3, <4>1, <1>4
      <4>4. ASSUME NEW c \in Channels, ext[c] = r PROVE ext'[c] = r
        <5>1. r # NoRow
          BY <4>1 DEF TypeOK, Row, NoRow
        <5>2. c \notin R /\ c \notin closed
          BY <4>4, <5>1, <1>3, <4>1
        <5> QED BY <5>2, <2>1, <4>4
      <4> QED BY <4>2, <4>3, <4>4
    <3> QED BY <3>1, <3>2
  <2> QED BY <2>4, <2>5 DEF RunningRowsTracked
<1>8. CASE ~ok
  <2>1. ext' = [c \in Channels |-> ext[c]] /\ db' = db
    BY <1>4, <1>8
  <2>2. ext' = ext
    BY <2>1 DEF TypeOK
  <2>3. CASE ends
    <3>1. active # NoRow
      BY <2>3 DEF ends, Inactive
    <3>2. active' = NoRow /\ db' = db /\ unclosed' = unclosed \cup {active}
      BY <1>4, <1>8, <2>1, <2>3
    <3>3. FinishActive(ok)
      BY <3>1, <3>2, <1>8 DEF FinishActive
    <3> QED BY <3>1, <3>3, <2>2, <1>5, <1>6, ActiveClosed
  <2>4. CASE ~ends
    BY <2>1, <2>2, <2>4, <1>4, <1>5, <1>6, SameRows DEF reports
  <2> QED BY <2>3, <2>4
<1> QED BY <1>7, <1>8

LEMMA ObserveReport ==
  ASSUME TypeOK, ReportInv, Observe
  PROVE  ReportInv'
<1>1. op' = op /\ op.pc = "idle" /\ alive /\ alive' = alive
  BY DEF Observe, ObserveError, ObserveFrame, Free, control
<1>2. RunningRowsTracked' /\ RowsInMemory'
  BY SameRows, ObserveFrameReport DEF Observe, ObserveError, control, ReportInv
<1> QED BY <1>1, <1>2
        DEF ReportInv, FullySeen, StartHasNoReport, DeadRemembersNothing, Reading, Starting

\* A channel that was read is known, or the snapshot is not complete.
LEMMA ReadReport ==
  ASSUME TypeOK, ReportInv, NEW c \in Channels, ReadOffline(c) \/ ReadOk(c) \/ ReadFail(c)
  PROVE  ReportInv'
<1> USE DEF control
<1>1. CASE ReadOffline(c) \/ ReadFail(c)
  <2>1. /\ UNCHANGED <<reports, alive>> /\ op.pc \in Reading
        /\ op'.pc = op.pc /\ op'.full = FALSE
    BY <1>1 DEF ReadOffline, ReadFail, TypeOK, Op, OpRecord
  <2> QED BY <2>1, SameRows
          DEF ReportInv, FullySeen, StartHasNoReport, DeadRemembersNothing, reports, Reading
<1>2. CASE ReadOk(c)
  <2>1. /\ op.pc \in Reading /\ op'.pc = op.pc /\ op'.full = op.full
        /\ op'.todo = op.todo \ {c}
        /\ UNCHANGED <<active, unclosed, alive>>
        /\ level'[c] # "unknown" /\ \A d \in Channels : d # c => level'[d] = level[d]
    BY <1>2 DEF ReadOk, TypeOK, Op, OpRecord
  <2>2. RunningRowsTracked' /\ RowsInMemory'
    <3>1. CASE relay[c] = "open" /\ ext[c] # NoRow
      BY <1>2, <2>1, <3>1, ExternalClosed DEF ReadOk, ReportInv
    <3>2. CASE ~(relay[c] = "open" /\ ext[c] # NoRow)
      BY <1>2, <2>1, <3>2, SameRows DEF ReadOk, ReportInv, reports
    <3> QED BY <3>1, <3>2
  <2>3. FullySeen' /\ StartHasNoReport'
    BY <2>1 DEF ReportInv, FullySeen, StartHasNoReport
  <2>4. alive' \/ op.pc = "idle"
    BY <2>1 DEF ReportInv, DeadRemembersNothing
  <2> QED BY <2>1, <2>2, <2>3, <2>4 DEF ReportInv, DeadRemembersNothing, Reading
<1> QED BY <1>1, <1>2

\* A switching command ends at most the field report of its channel.
LEMMA SwitchReport ==
  ASSUME TypeOK, ReportInv,
         \/ SwitchOffline
         \/ \E c \in Channels : LowOk(c) \/ LowFail(c) \/ HighOk(c) \/ HighFail(c)
  PROVE  ReportInv'
<1> USE DEF control
<1> DEFINE Quiet == /\ op.pc \in Switching
                    /\ alive' = alive /\ active' = active /\ unclosed' = unclosed
                    /\ op'.pc \in Reading => op'.todo = Channels
                    /\ op'.pc \in Starting => op.pc \in Starting \ {"start.check"}
<1>1. Quiet
  <2>1. op \in OpRecord
    BY DEF TypeOK, Op
  <2> USE DEF OpRecord, reports, Switching, Reading, Starting
  <2>2. CASE SwitchOffline
    BY <2>1, <2>2 DEF SwitchOffline
  <2>3. ASSUME NEW c \in Channels, LowOk(c) PROVE Quiet
    BY <2>1, <2>3 DEF LowOk
  <2>4. ASSUME NEW c \in Channels, LowFail(c) PROVE Quiet
    BY <2>1, <2>4 DEF LowFail, Idle
  <2>5. ASSUME NEW c \in Channels, HighOk(c) \/ HighFail(c) PROVE Quiet
    BY <2>1, <2>5 DEF HighOk, HighFail
  <2> QED BY <2>2, <2>3, <2>4, <2>5
<1>2. RunningRowsTracked' /\ RowsInMemory'
  <2>1. ASSUME NEW c \in Channels, LowOk(c) PROVE RunningRowsTracked' /\ RowsInMemory'
    <3>1. CASE FinishExternal({c}, TRUE)
      BY <1>1, <3>1, ExternalClosed DEF ReportInv
    <3>2. CASE UNCHANGED <<ext, db>>
      BY <1>1, <3>2, SameRows DEF ReportInv, reports
    <3> QED BY <2>1, <3>1, <3>2 DEF LowOk
  <2>2. ASSUME UNCHANGED reports PROVE RunningRowsTracked' /\ RowsInMemory'
    BY <1>1, <2>2, SameRows DEF ReportInv
  <2> QED BY <2>1, <2>2 DEF SwitchOffline, LowFail, HighOk, HighFail
<1>3. alive /\ active' = active /\ alive'
  BY <1>1 DEF ReportInv, DeadRemembersNothing, Switching
<1> QED BY <1>1, <1>2, <1>3 DEF ReportInv, FullySeen, StartHasNoReport, DeadRemembersNothing

\* What a snapshot that saw every channel of the report open concludes.
LEMMA FinishCompletedReport ==
  ASSUME TypeOK, ReportInv, FinishCompleted, UNCHANGED <<ext, alive>>
  PROVE  RunningRowsTracked' /\ RowsInMemory' /\ (active' = NoRow \/ active' = active)
<1>1. CASE Inactive(op.full, level)
  BY <1>1, ActiveClosed DEF FinishCompleted, ReportInv, Inactive
<1>2. CASE ~Inactive(op.full, level)
  BY <1>2, SameRows DEF FinishCompleted, ReportInv, reports
<1> QED BY <1>1, <1>2

\* A start that is not refused goes on without a report: either there was none,
\* or every channel was seen, none on, so that FinishCompleted ended it.
LEMMA StartCheckedNoReport ==
  ASSUME TypeOK, ReportInv, StartChecked, ~StartRefused
  PROVE  active' = NoRow
<1>1. CASE active = NoRow
  BY <1>1 DEF StartChecked, FinishCompleted, Inactive, NoFault
<1>2. CASE active # NoRow
  <2>1. op.full /\ High = {}
    BY <1>2 DEF StartRefused
  <2>2. \A c \in Channels : level[c] = "low"
    <3> TAKE c \in Channels
    <3>1. level[c] # "unknown"
      BY <2>1 DEF StartChecked, Ended, ReportInv, FullySeen, Reading
    <3>2. level[c] # "high"
      BY <2>1 DEF High
    <3> QED BY <3>1, <3>2 DEF TypeOK
  <2>3. active.chs \subseteq Channels
    BY <1>2 DEF TypeOK, Row
  <2>4. Inactive(op.full, level)
    BY <1>2, <2>1, <2>2, <2>3 DEF Inactive
  <2> QED BY <2>4 DEF StartChecked, FinishCompleted, FinishActive
<1> QED BY <1>1, <1>2

LEMMA StartDoneReport ==
  ASSUME TypeOK, ReportInv, StartDone
  PROVE  RunningRowsTracked' /\ RowsInMemory'
<1>1. active = NoRow /\ UNCHANGED <<ext, unclosed, alive>>
  BY DEF StartDone, Ended, ReportInv, StartHasNoReport, Starting, control
<1>2. ASSUME NEW n \in RowIds, active' = RowOf("strike", op.sel, n), db' = db \cup {active'}
      PROVE  RunningRowsTracked' /\ RowsInMemory'
  <2>1. active'.kind = "strike"
    BY <1>2 DEF RowOf
  <2>2. RowsInMemory'
    BY <1>1, <1>2, <2>1 DEF ReportInv, RowsInMemory
  <2>3. ASSUME alive', NEW r \in db' \ unclosed'
        PROVE  r = active' \/ \E c \in Channels : ext'[c] = r
    <3>1. CASE r = active'
      BY <3>1
    <3>2. CASE r # active'
      <4>1. r \in db \ unclosed /\ r # NoRow
        BY <1>1, <1>2, <2>3, <3>2 DEF TypeOK, Row, NoRow
      <4> QED BY <4>1, <1>1, <2>3 DEF ReportInv, RunningRowsTracked
    <3> QED BY <3>1, <3>2
  <2> QED BY <2>2, <2>3 DEF RunningRowsTracked
<1>3. CASE UNCHANGED <<active, db>>
  BY <1>1, <1>3, SameRows DEF ReportInv, reports
<1> QED BY <1>2, <1>3 DEF StartDone

LEMMA ConcludeReport ==
  ASSUME TypeOK, ReportInv, Conclude
  PROVE  ReportInv'
<1> USE DEF control
<1>1. /\ UNCHANGED <<ext, alive>> /\ op.pc # "idle"
      /\ op'.pc \in Reading => op'.todo = Channels
      /\ op'.pc \in Starting => op.pc \in Starting
  <2>1. op \in OpRecord
    BY DEF TypeOK, Op
  <2> USE DEF OpRecord, reports, Ended, GoOn, Reading, Starting
  <2>2. CASE StopChoose \/ StopSwitched
    BY <2>1, <2>2 DEF StopChoose, StopSwitched
  <2>3. CASE StartChecked
    <3>1. UNCHANGED <<ext, alive>> /\ op.pc = "start.check"
      BY <2>3 DEF StartChecked
    <3>2. op' = Idle \/ op' = [op EXCEPT !.pc = "start.high", !.todo = op.sel, !.full = TRUE]
      BY <2>3 DEF StartChecked
    <3>3. CASE op' = Idle
      BY <3>1, <3>3 DEF Idle
    <3>4. CASE op' = [op EXCEPT !.pc = "start.high", !.todo = op.sel, !.full = TRUE]
      <4>1. op'.pc = "start.high"
        BY <2>1, <3>4
      <4> QED BY <3>1, <4>1
    <3> QED BY <3>2, <3>3, <3>4
  <2>4. CASE StartSwitched \/ StartUndone
    BY <2>1, <2>4 DEF StartSwitched, StartUndone
  <2>5. CASE StartFailed \/ StartDone \/ StopEnd \/ SnapshotEnd
    BY <2>5 DEF StartFailed, StartDone, StopEnd, SnapshotEnd, Idle
  <2> QED BY <2>2, <2>3, <2>4, <2>5 DEF Conclude
<1>2. alive /\ alive'
  BY <1>1 DEF ReportInv, DeadRemembersNothing
<1>3. RunningRowsTracked' /\ RowsInMemory'
  <2>1. CASE UNCHANGED reports
    BY <1>1, <2>1, SameRows DEF ReportInv
  <2>2. CASE StopEnd
    <3>1. CASE (op.full \/ op.err) /\ active # NoRow
      BY <1>1, <2>2, <3>1, ActiveClosed DEF StopEnd, ReportInv
    <3>2. CASE ~((op.full \/ op.err) /\ active # NoRow)
      BY <1>1, <2>1, <2>2, <3>2 DEF StopEnd, reports
    <3> QED BY <3>1, <3>2
  <2>3. CASE StartChecked
    BY <1>1, <2>1, <2>3, FinishCompletedReport DEF StartChecked, reports
  <2>4. CASE StartDone
    BY <2>4, StartDoneReport
  <2>5. CASE SnapshotEnd
    BY <1>1, <2>1, <2>5, FinishCompletedReport DEF SnapshotEnd, reports
  <2> QED BY <2>1, <2>2, <2>3, <2>4, <2>5
          DEF Conclude, StopChoose, StopSwitched, StartSwitched, StartUndone, StartFailed
<1>4. StartHasNoReport'
  <2>1. CASE StartChecked
    <3>1. CASE StartRefused
      BY <2>1, <3>1 DEF StartChecked, StartHasNoReport, Idle, Starting
    <3>2. CASE ~StartRefused
      BY <2>1, <3>2, StartCheckedNoReport DEF StartHasNoReport
    <3> QED BY <3>1, <3>2
  <2>2. CASE StartDone \/ StartFailed \/ StopEnd \/ SnapshotEnd
    BY <2>2 DEF StartDone, StartFailed, StopEnd, SnapshotEnd, StartHasNoReport, Idle, Starting
  <2>3. CASE StopChoose \/ StopSwitched
    BY <1>1, <2>3 DEF StopChoose, StopSwitched, Ended, StartHasNoReport, Starting
  <2>4. CASE StartSwitched \/ StartUndone
    BY <2>4 DEF StartSwitched, StartUndone, Ended, reports, ReportInv, StartHasNoReport, Starting
  <2> QED BY <2>1, <2>2, <2>3, <2>4 DEF Conclude
<1>5. FullySeen'
  BY <1>1 DEF FullySeen
<1> QED BY <1>2, <1>3, <1>4, <1>5 DEF ReportInv, DeadRemembersNothing

LEMMA StepReport == TypeOK /\ ReportInv /\ [Next]_vars => ReportInv'
<1> SUFFICES ASSUME TypeOK, ReportInv, [Next]_vars PROVE ReportInv'
  OBVIOUS
<1>1. CASE Exchange
  BY <1>1, ReadReport, SwitchReport DEF Exchange
<1>2. CASE Next
  BY <1>1, <1>2, EnvironmentReport, ApiReport, ObserveReport, BackgroundReport,
     ConcludeReport, LifecycleReport DEF Next
<1>3. CASE UNCHANGED vars
  <2>1. UNCHANGED <<level, op, reports, alive>>
    BY <1>3 DEF vars, channel, control
  <2> QED BY <2>1, SameRows
          DEF ReportInv, FullySeen, StartHasNoReport, DeadRemembersNothing, reports
<1> QED BY <1>2, <1>3

\* No running row escapes the service: whatever the interleaving of operations,
\* frames, failures and restarts, each row of the database that is running is in
\* memory and will be closed, or a write to close it has failed.
THEOREM ReportsTracked == Spec => []RunningRowsTracked
<1>1. Init => TypeOK /\ ReportInv
  BY InitType, InitReport
<1>2. TypeOK /\ ReportInv /\ [Next]_vars => (TypeOK /\ ReportInv)'
  BY StepType, StepReport
<1>3. ReportInv => RunningRowsTracked
  BY DEF ReportInv
<1> QED BY <1>1, <1>2, <1>3, PTL DEF Spec

-----------------------------------------------------------------------------
(* NoStartWhilePending is inductive with the types: a stop becomes pending     *)
(* only where nobody holds mu afterwards, and a start looks before it begins.  *)

LEMMA StepPending ==
  ASSUME TypeOK, NoStartWhilePending, [Next]_vars
  PROVE  NoStartWhilePending'
<1> USE DEF NoStartWhilePending, control, Free, Begin, Idle, Snapshot, Starting
<1>1. CASE Api
  <2>1. CASE Stop \/ StopOffline \/ Poll \/ Look \/ RefusedOffline
    BY <2>1 DEF Stop, StopOffline, Poll, Look, RefusedOffline
  <2>2. CASE Shutdown
    BY <2>2 DEF Shutdown, MemoryLost
  <2>3. ASSUME NEW sel \in SUBSET Channels, Start(sel) PROVE NoStartWhilePending'
    BY <2>3 DEF Start, StartPermitted
  <2>4. ASSUME NEW c \in Channels, SetLow(c) PROVE NoStartWhilePending'
    BY <2>4 DEF SetLow
  <2> QED BY <1>1, <2>1, <2>2, <2>3, <2>4 DEF Api
<1>2. CASE Background
  BY <1>2 DEF Background, MonitorCheck, MonitorRetry, RefreshBegin, RefreshCheck, RefreshRetry
<1>3. ASSUME NEW c \in Channels,
             \/ ReadOffline(c) \/ ReadOk(c) \/ ReadFail(c)
             \/ LowOk(c) \/ LowFail(c) \/ HighOk(c) \/ HighFail(c)
      PROVE  NoStartWhilePending'
  <2>1. pending' = pending /\ (op'.pc \in Starting => op.pc \in Starting)
    <3>1. op \in OpRecord
      BY DEF TypeOK, Op
    <3>2. CASE ReadOffline(c) \/ ReadOk(c) \/ ReadFail(c)
      BY <3>1, <3>2 DEF ReadOffline, ReadOk, ReadFail, OpRecord
    <3>3. CASE LowOk(c)
      BY <3>1, <3>3 DEF LowOk, OpRecord
    <3>4. CASE LowFail(c)
      <4>1. pending' = pending
        BY <3>4 DEF LowFail
      <4>2. op' = Idle \/ op' = [op EXCEPT !.todo = @ \ {c}, !.err = TRUE]
        BY <3>4 DEF LowFail
      <4>3. CASE op' = Idle
        BY <4>1, <4>3
      <4>4. CASE op' = [op EXCEPT !.todo = @ \ {c}, !.err = TRUE]
        BY <3>1, <4>1, <4>4 DEF OpRecord
      <4> QED BY <4>2, <4>3, <4>4
    <3>5. CASE HighOk(c) \/ HighFail(c)
      BY <3>1, <3>5 DEF HighOk, HighFail, OpRecord
    <3> QED BY <1>3, <3>2, <3>3, <3>4, <3>5
  <2> QED BY <2>1
<1>4. CASE SwitchOffline
  <2>1. op \in OpRecord
    BY DEF TypeOK, Op
  <2> QED BY <1>4, <2>1 DEF SwitchOffline, OpRecord
<1>5. CASE Conclude
  <2>1. op \in OpRecord
    BY DEF TypeOK, Op
  <2>2. CASE StopEnd \/ StartFailed \/ StartDone \/ SnapshotEnd
    <3>1. op' = Idle
      BY <2>2 DEF StopEnd, StartFailed, StartDone, SnapshotEnd
    <3> QED BY <3>1
  <2>3. CASE StopChoose \/ StopSwitched
    BY <2>1, <2>3 DEF StopChoose, StopSwitched, GoOn, OpRecord
  <2>4. CASE StartChecked
    BY <2>4 DEF StartChecked, Ended
  <2>5. CASE StartSwitched \/ StartUndone
    BY <2>5 DEF StartSwitched, StartUndone, Ended
  <2> QED BY <1>5, <2>2, <2>3, <2>4, <2>5 DEF Conclude
<1>6. CASE Crash \/ Restart
  BY <1>6 DEF Crash, Restart, MemoryLost
<1>7. CASE Environment \/ Connection \/ Observe
  BY <1>7 DEF Environment, FieldClose, RelayOpen, LinkLost, Connection, Frame, Sent, Observe, ObserveError,
              ObserveFrame
<1>8. CASE UNCHANGED vars
  BY <1>8 DEF vars
<1> QED BY <1>1, <1>2, <1>3, <1>4, <1>5, <1>6, <1>7, <1>8 DEF Next, Exchange

\* While a stop that could not reach the relay is pending, no start is under way.
THEOREM PendingBlocksStarts == Spec => []NoStartWhilePending
<1>1. Init => TypeOK /\ NoStartWhilePending
  BY InitType DEF Init, NoStartWhilePending
<1>2. TypeOK /\ NoStartWhilePending /\ [Next]_vars => (TypeOK /\ NoStartWhilePending)'
  BY StepType, StepPending
<1> QED BY <1>1, <1>2, PTL DEF Spec

-----------------------------------------------------------------------------
(* CompletionObserved.  What a step takes out of db is what it closes, and it  *)
(* closes a report only on what it has seen of the report's channels.          *)

Observed == \A r \in db \ db' : \A c \in r.chs :
              \/ level'[c] = "low" \/ relay'[c] = "open"
              \/ r.kind = "strike" /\ level'[c] = "high"

LEMMA ActiveObserved ==
  ASSUME TypeOK, ReportInv, level' = level, NEW ok \in BOOLEAN, FinishActive(ok),
         active # NoRow, \A c \in active.chs : level[c] # "unknown"
  PROVE  Observed
<1>1. active \in Row /\ active.kind = "strike" /\ db \ db' \subseteq {active}
  BY DEF TypeOK, ReportInv, RowsInMemory, FinishActive
<1>2. \A c \in active.chs : level[c] \in {"low", "high"}
  BY <1>1 DEF TypeOK, Row
<1> QED BY <1>1, <1>2 DEF Observed

LEMMA ExternalObserved ==
  ASSUME TypeOK, ReportInv, NEW c \in Channels, NEW ok \in BOOLEAN, FinishExternal({c}, ok),
         relay'[c] = "open"
  PROVE  Observed
<1>1. \A r \in db \ db' : r.chs = {c}
  <2> TAKE r \in db \ db'
  <2>1. r \in Row /\ r = ext[c]
    BY DEF FinishExternal, TypeOK
  <2>2. ext[c] # NoRow
    BY <2>1 DEF Row, NoRow
  <2> QED BY <2>1, <2>2 DEF ReportInv, RowsInMemory
<1> QED BY <1>1 DEF Observed

LEMMA ObserveFrameObserved ==
  ASSUME TypeOK, ReportInv, ObserveFrame
  PROVE  Observed
<1> DEFINE u == Head(queue)
           lev == [c \in Channels |-> IF c \in SeenLow(u) THEN "low"
                                      ELSE IF c \in SeenHigh(u) THEN "high"
                                      ELSE level[c]]
           closed == {c \in SeenLow(u) : ext[c] # NoRow}
           ends == Inactive(u.fresh = Channels, lev)
<1>1. u \in Update
  BY DEF ObserveFrame, TypeOK
<1>2. closed \subseteq Channels /\ \A c \in closed : c \in SeenLow(u) /\ ext[c] # NoRow
  BY <1>1 DEF SeenLow, Update
<1>3. level' = lev
  BY DEF ObserveFrame
<1>4. \A r \in db \ db' : (\E c \in closed : r = ext[c]) \/ (ends /\ r = active)
  BY DEF ObserveFrame
<1>5. ASSUME NEW c \in closed, NEW d \in ext[c].chs PROVE level'[d] = "low"
  <2>1. d = c /\ c \in Channels /\ c \in SeenLow(u)
    BY <1>2, <1>5 DEF ReportInv, RowsInMemory
  <2> QED BY <2>1, <1>3
<1>6. ASSUME ends, NEW d \in active.chs PROVE level'[d] = "low"
  BY <1>3, <1>6 DEF Inactive
<1> HIDE DEF u, lev, closed, ends
<1> QED BY <1>4, <1>5, <1>6 DEF Observed

LEMMA ConcludeObserved ==
  ASSUME TypeOK, ReportInv, Conclude, ~(op.pc = "stop.last" /\ op.err)
  PROVE  Observed
<1>1. level' = level
  BY DEF Conclude, StopChoose, StopSwitched, StopEnd, StartChecked, StartSwitched, StartUndone,
         StartFailed, StartDone, SnapshotEnd, channel
<1>2. CASE FinishCompleted
  <2>1. CASE Inactive(op.full, level)
    BY <1>1, <1>2, <2>1, ActiveObserved DEF FinishCompleted, Inactive
  <2>2. CASE ~Inactive(op.full, level)
    BY <1>2, <2>2 DEF FinishCompleted, Observed
  <2> QED BY <2>1, <2>2
<1>3. CASE StopEnd
  <2>1. CASE (op.full \/ op.err) /\ active # NoRow
    <3>1. PICK ok \in BOOLEAN : FinishActive(ok)
      BY <1>3, <2>1 DEF StopEnd
    <3>2. op.full /\ op.pc = "stop.last" /\ op.todo = {}
      BY <1>3, <2>1 DEF StopEnd, Ended
    <3>3. \A c \in active.chs : level[c] # "unknown"
      BY <2>1, <3>2 DEF ReportInv, FullySeen, Reading, TypeOK, Row
    <3> QED BY <1>1, <2>1, <3>1, <3>3, ActiveObserved
  <2>2. CASE ~((op.full \/ op.err) /\ active # NoRow)
    BY <1>3, <2>2 DEF StopEnd, Observed
  <2> QED BY <2>1, <2>2
<1>4. CASE db \subseteq db'
  BY <1>4 DEF Observed
<1> QED BY <1>2, <1>3, <1>4 DEF Conclude, StopChoose, StopSwitched, StartChecked, StartSwitched,
           StartUndone, StartFailed, StartDone, SnapshotEnd, reports

LEMMA StepObserved ==
  ASSUME TypeOK, ReportInv, Next, alive, alive', ~(op.pc = "stop.last" /\ op.err)
  PROVE  Observed
<1>1. CASE db \subseteq db'
  BY <1>1 DEF Observed
<1>2. CASE ObserveFrame
  BY <1>2, ObserveFrameObserved
<1>3. CASE Conclude
  BY <1>3, ConcludeObserved
<1>4. ASSUME NEW c \in Channels, ReadOk(c) PROVE Observed
  <2>1. CASE relay[c] = "open" /\ ext[c] # NoRow
    BY <1>4, <2>1, ExternalObserved DEF ReadOk
  <2>2. CASE ~(relay[c] = "open" /\ ext[c] # NoRow)
    BY <1>4, <2>2 DEF ReadOk, Observed
  <2> QED BY <2>1, <2>2
<1>5. ASSUME NEW c \in Channels, LowOk(c) PROVE Observed
  <2>1. relay'[c] = "open"
    BY <1>5 DEF LowOk, TypeOK, Outputs
  <2>2. FinishExternal({c}, TRUE) \/ db' = db
    BY <1>5 DEF LowOk
  <2> QED BY <1>1, <2>1, <2>2, ExternalObserved
<1>6. CASE Environment \/ Connection \/ ObserveError \/ Background \/ SwitchOffline
  BY <1>1, <1>6 DEF Environment, FieldClose, RelayOpen, LinkLost, Connection, Frame, Sent, ObserveError, Background,
        MonitorCheck, MonitorRetry, RefreshBegin, RefreshCheck, RefreshRetry, SwitchOffline,
        reports
<1>7. CASE Api
  <2>1. ~Shutdown
    BY DEF Shutdown, MemoryLost
  <2> QED BY <1>1, <1>7, <2>1 DEF Api, Stop, StopOffline, Poll, Look, RefusedOffline, Start,
                                  SetLow, reports
<1>8. ASSUME NEW c \in Channels,
             ReadOffline(c) \/ ReadFail(c) \/ LowFail(c) \/ HighOk(c) \/ HighFail(c)
      PROVE  Observed
  BY <1>1, <1>8 DEF ReadOffline, ReadFail, LowFail, HighOk, HighFail, reports
<1>9. ~Crash /\ ~Restart
  BY DEF Crash, Restart, MemoryLost
<1> QED BY <1>2, <1>3, <1>4, <1>5, <1>6, <1>7, <1>8, <1>9 DEF Next, Exchange, Observe

\* A report is never completed on a guess: not by a broken link, not by a frame or
\* a snapshot that leaves one of its channels unknown.
THEOREM CompletionsObserved == Spec => CompletionObserved
<1>1. Init => TypeOK /\ ReportInv
  BY InitType, InitReport
<1>2. TypeOK /\ ReportInv /\ [Next]_vars => (TypeOK /\ ReportInv)'
  BY StepType, StepReport
<1>3. TypeOK /\ ReportInv /\ [Next]_vars
        => [alive /\ alive' /\ ~(op.pc = "stop.last" /\ op.err)
              => \A r \in db \ db' : \A c \in r.chs :
                   \/ level'[c] = "low" \/ relay'[c] = "open"
                   \/ r.kind = "strike" /\ level'[c] = "high"]_vars
  BY StepObserved DEF Observed
<1> QED BY <1>1, <1>2, <1>3, PTL DEF Spec, CompletionObserved

-----------------------------------------------------------------------------
(* A stop that succeeds leaves no output closed by the platform.            *)

\* What a stop knows of the outputs that the platform closed: those it has read
\* are seen on, those it has switched are open.
ByPlatform(c) == relay[c] = "platform"
StopKnows ==
  /\ op.pc = "stop.first" /\ op.full
       => \A c \in Channels \ op.todo : ByPlatform(c) => level[c] = "high"
  /\ op.pc = "stop.low" /\ op.seenAll /\ ~op.err
       => \A c \in Channels : ByPlatform(c) => c \in op.todo
  /\ op.pc = "stop.last" /\ op.seenAll /\ ~op.err
       => \A c \in Channels : ~ByPlatform(c)

\* A step that neither closes an output for the platform nor concerns the stop.
LEMMA BesideStop ==
  ASSUME StopKnows, \A c \in Channels : ByPlatform(c)' => ByPlatform(c),
         \/ op'.pc \notin {"stop.first", "stop.low", "stop.last"}
         \/ UNCHANGED <<op, level>>
         \/ op'.pc = "stop.first" /\ op'.todo = Channels
  PROVE  StopKnows'
BY DEF StopKnows, ByPlatform

LEMMA ReadStop ==
  ASSUME TypeOK, StopKnows, NEW c \in Channels, ReadOffline(c) \/ ReadOk(c) \/ ReadFail(c)
  PROVE  StopKnows'
<1>1. op \in Op /\ level \in [Channels -> {"unknown", "low", "high"}] /\ relay' = relay
  BY DEF TypeOK, ReadOffline, ReadOk, ReadFail, device
<1>2. /\ op'.pc = op.pc /\ op'.seenAll = op.seenAll /\ op'.err = op.err
      /\ op'.todo = op.todo \ {c}
      /\ op'.full => op.full /\ ReadOk(c)
  BY <1>1 DEF ReadOffline, ReadOk, ReadFail, Op, OpRecord
<1>3. /\ \A d \in Channels : d # c => level'[d] = level[d]
      /\ ReadOk(c) => level'[c] = IF relay[c] = "open" THEN "low" ELSE "high"
  BY <1>1 DEF ReadOffline, ReadOk, ReadFail, Unknown
<1>4. op.pc # "stop.low"
  BY DEF ReadOffline, ReadOk, ReadFail, Reading
<1> QED BY <1>1, <1>2, <1>3, <1>4 DEF StopKnows, ByPlatform

LEMMA SwitchStop ==
  ASSUME TypeOK, StopKnows, NEW c \in Channels,
         SwitchOffline \/ LowOk(c) \/ LowFail(c) \/ HighOk(c) \/ HighFail(c)
  PROVE  StopKnows'
<1>1. op \in Op /\ relay \in Outputs
  BY DEF TypeOK
<1>2. CASE HighOk(c) \/ HighFail(c)
  <2>1. op'.pc \in {"start.high", "start.undo"}
    BY <1>1, <1>2 DEF HighOk, HighFail, Op, OpRecord
  <2> QED BY <2>1 DEF StopKnows
<1>3. CASE SwitchOffline \/ LowFail(c)
  <2>1. op.pc = "stop.low" => op'.pc = "stop.low" /\ op'.err
    BY <1>1, <1>3 DEF SwitchOffline, LowFail, Op, OpRecord
  <2>2. op.pc # "stop.low" => op'.pc \in {"start.fail", "start.undo", "idle"}
    <3>1. CASE SwitchOffline
      BY <1>1, <2>1, <3>1 DEF SwitchOffline, Op, OpRecord
    <3>2. CASE LowFail(c)
      <4>1. Idle.pc = "idle"
        BY DEF Idle
      <4> QED BY <1>1, <3>2, <4>1 DEF LowFail, Op, OpRecord
    <3> QED BY <1>3, <3>1, <3>2
  <2> QED BY <2>1, <2>2 DEF StopKnows
<1>4. CASE LowOk(c)
  <2>1. relay'[c] = "open" /\ \A d \in Channels : d # c => relay'[d] = relay[d]
    BY <1>1, <1>4 DEF LowOk, Outputs
  <2>2. CASE op.pc = "stop.low"
    <3>1. /\ op'.pc = "stop.low" /\ op'.todo = op.todo \ {c}
          /\ op'.seenAll = op.seenAll /\ op'.err = op.err
      BY <1>1, <1>4, <2>2 DEF LowOk, Op, OpRecord
    <3> QED BY <2>1, <2>2, <3>1 DEF StopKnows, ByPlatform
  <2>3. CASE op.pc # "stop.low"
    <3>1. op'.pc \in {"start.undo", "set.read"}
      BY <1>1, <1>4, <2>3 DEF LowOk, Op, OpRecord
    <3> QED BY <3>1 DEF StopKnows
  <2> QED BY <2>2, <2>3
<1> QED BY <1>2, <1>3, <1>4

LEMMA ConcludeStop ==
  ASSUME TypeOK, StopKnows, Conclude
  PROVE  StopKnows'
<1>1. op \in Op /\ relay' = relay /\ level' = level
  BY DEF TypeOK, Conclude, StopChoose, StopSwitched, StopEnd, StartChecked, StartSwitched,
     StartUndone, StartFailed, StartDone, SnapshotEnd, device, channel
<1>2. CASE StopChoose
  <2>1. /\ op'.pc = "stop.low" /\ op'.todo = ToStop /\ op'.seenAll = op.full
        /\ op.pc = "stop.first" /\ op.todo = {}
    BY <1>1, <1>2 DEF StopChoose, Ended, Op, OpRecord
  <2>2. op.full => ToStop = High
    BY DEF ToStop
  <2> QED BY <1>1, <2>1, <2>2 DEF StopKnows, ByPlatform, High
<1>3. CASE StopSwitched
  <2>1. /\ op'.pc = "stop.last" /\ op'.seenAll = op.seenAll /\ op'.err = op.err
        /\ op.pc = "stop.low" /\ op.todo = {}
    BY <1>1, <1>3 DEF StopSwitched, Ended, GoOn, Op, OpRecord
  <2> QED BY <1>1, <2>1 DEF StopKnows, ByPlatform
<1>4. CASE \/ StopEnd \/ StartChecked \/ StartSwitched \/ StartUndone \/ StartFailed
           \/ StartDone \/ SnapshotEnd
  <2>1. op'.pc \in {"idle", "start.high", "start.done", "start.fail"}
    <3>1. Idle.pc = "idle"
      BY DEF Idle
    <3>2. CASE StopEnd \/ StartFailed \/ StartDone \/ SnapshotEnd
      BY <3>1, <3>2 DEF StopEnd, StartFailed, StartDone, SnapshotEnd
    <3>3. ASSUME NEW pc, NEW todo, GoOn(pc, todo) PROVE op'.pc = pc
      BY <1>1, <3>3 DEF GoOn, Op, OpRecord
    <3>4. CASE StartChecked \/ StartSwitched \/ StartUndone
      BY <3>1, <3>3, <3>4 DEF StartChecked, StartSwitched, StartUndone
    <3> QED BY <1>4, <3>2, <3>4
  <2> QED BY <2>1 DEF StopKnows
<1> QED BY <1>2, <1>3, <1>4 DEF Conclude

LEMMA StepStop == TypeOK /\ StopKnows /\ [Next]_vars => StopKnows'
<1> SUFFICES ASSUME TypeOK, StopKnows, [Next]_vars PROVE StopKnows'
  OBVIOUS
<1>1. CASE UNCHANGED vars
  BY <1>1, BesideStop DEF vars, device, channel, ByPlatform
<1>2. CASE Environment \/ Connection
  <2>1. \A c \in Channels : ByPlatform(c)' => ByPlatform(c)
    BY <1>2 DEF TypeOK, Outputs, ByPlatform, Environment, FieldClose, RelayOpen, LinkLost, Connection, Frame, Sent, device
  <2>2. UNCHANGED <<op, level>>
    BY <1>2 DEF Environment, FieldClose, RelayOpen, LinkLost, Connection, Frame, Sent, channel
  <2> QED BY <2>1, <2>2, BesideStop
<1>3. CASE Api \/ Background \/ Observe
  <2>1. relay' = relay
    BY <1>3 DEF device, Api, Stop, StopOffline, Poll, Look, RefusedOffline, Shutdown, Start,
       SetLow, Snapshot, Background, MonitorCheck, MonitorRetry, RefreshBegin, RefreshCheck,
       RefreshRetry, Observe, ObserveError, ObserveFrame
  <2>2. \A pc, todo, sel, origin :
          Begin(pc, todo, sel, origin) => op'.pc = pc /\ op'.todo = todo
    BY DEF Begin, Idle
  <2>3. CASE Api
    <3>1. Idle.pc = "idle"
      BY DEF Idle
    <3>2. CASE Stop \/ StopOffline \/ RefusedOffline
      BY <2>1, <2>2, <3>2, BesideStop
         DEF Stop, StopOffline, RefusedOffline, channel, ByPlatform
    <3>3. CASE Poll \/ Look
      <4>1. op'.pc \in {"poll", "look"}
        BY <2>2, <3>3 DEF Poll, Look, Snapshot
      <4> QED BY <2>1, <4>1, BesideStop DEF ByPlatform
    <3>4. CASE Shutdown
      BY <2>1, <3>1, <3>4, BesideStop DEF Shutdown, MemoryLost, ByPlatform
    <3>5. ASSUME NEW sel \in SUBSET Channels, Start(sel) PROVE StopKnows'
      <4>1. op'.pc = "start.check"
        BY <2>2, <3>5 DEF Start
      <4> QED BY <2>1, <4>1, BesideStop DEF ByPlatform
    <3>6. ASSUME NEW c \in Channels, SetLow(c) PROVE StopKnows'
      <4>1. op'.pc = "set.low"
        BY <2>2, <3>6 DEF SetLow
      <4> QED BY <2>1, <4>1, BesideStop DEF ByPlatform
    <3> QED BY <2>3, <3>2, <3>3, <3>4, <3>5, <3>6 DEF Api
  <2>4. CASE MonitorCheck \/ RefreshCheck
    BY <2>1, <2>4, BesideStop DEF MonitorCheck, RefreshCheck, channel, ByPlatform
  <2>5. CASE MonitorRetry \/ RefreshRetry
    BY <2>1, <2>2, <2>5, BesideStop DEF MonitorRetry, RefreshRetry, channel, ByPlatform
  <2>6. CASE RefreshBegin
    <3>1. op'.pc = "refresh"
      BY <2>6 DEF RefreshBegin, Idle
    <3> QED BY <2>1, <3>1, BesideStop DEF ByPlatform
  <2>7. CASE Observe
    <3>1. op' = op /\ op.pc = "idle"
      BY <2>7 DEF Observe, ObserveError, ObserveFrame, Free
    <3> QED BY <2>1, <3>1, BesideStop DEF ByPlatform
  <2> QED BY <1>3, <2>3, <2>4, <2>5, <2>6, <2>7 DEF Background
<1>4. CASE Exchange
  <2>1. CASE SwitchOffline
    <3>1. 1 \in Channels
      BY NAssumption DEF Channels
    <3> QED BY <2>1, <3>1, SwitchStop
  <2>2. ASSUME NEW c \in Channels, ReadOffline(c) \/ ReadOk(c) \/ ReadFail(c) PROVE StopKnows'
    BY <2>2, ReadStop
  <2>3. ASSUME NEW c \in Channels, LowOk(c) \/ LowFail(c) \/ HighOk(c) \/ HighFail(c)
        PROVE  StopKnows'
    BY <2>3, SwitchStop
  <2> QED BY <1>4, <2>1, <2>2, <2>3 DEF Exchange
<1>5. CASE Conclude
  BY <1>5, ConcludeStop
<1>6. CASE Crash \/ Restart
  <2>1. \A c \in Channels : ByPlatform(c)' => ByPlatform(c)
    BY <1>6 DEF Crash, Restart, ByPlatform
  <2>2. UNCHANGED <<op, level>> \/ op'.pc = "idle"
    BY <1>6 DEF Crash, Restart, MemoryLost, Idle, channel
  <2> QED BY <2>1, <2>2, BesideStop
<1> QED BY <1>1, <1>2, <1>3, <1>4, <1>5, <1>6 DEF Next

\* A stop that saw every channel and succeeds leaves no output closed by the
\* platform, for any number of channels and whatever happens meanwhile.
THEOREM StopsLeaveNoStrike == Spec => StopLeavesNoStrike
<1>1. Init => TypeOK /\ StopKnows
  BY InitType DEF Init, StopKnows, Idle
<1>2. TypeOK /\ StopKnows /\ [Next]_vars => (TypeOK /\ StopKnows)'
  BY StepType, StepStop
<1>3. TypeOK /\ StopKnows /\ [Next]_vars
        => [(op.pc = "stop.last" /\ op'.pc = "idle" /\ alive' /\ op.seenAll /\ ~op.err)
              => \A c \in Channels : relay[c] # "platform"]_vars
  BY DEF StopKnows, ByPlatform
<1> QED BY <1>1, <1>2, <1>3, PTL DEF Spec, StopLeavesNoStrike

-----------------------------------------------------------------------------
(* A strike of the platform is not recorded as a field operation, as long as *)
(* no reply to a switching command that took effect is lost and no frame     *)
(* that nobody asked for outlives a command.                                 *)

\* A frame the service has not seen yet tells of an output it still counts for
\* what happened since the last command: one closed by the platform is known to
\* be, unless a read saw it open meanwhile, and none was closed by it after it
\* was seen open.
AnnouncedBy(u, out, own) ==
  ~u.error => \A c \in u.fresh :
    /\ u.values[c] = "open" => out[c] # "platform"
    /\ u.values[c] = "platform" => own[c] \/ c \in u.overtaken
OpenedSince(u, v) ==
  ~u.error /\ ~v.error => \A c \in u.fresh \cap v.fresh :
    u.values[c] = "open" => v.values[c] # "platform"
FramesInOrder ==
  /\ \A i \in DOMAIN queue : AnnouncedBy(queue[i], relay, sw)
  /\ \A i, j \in DOMAIN queue : i < j => OpenedSince(queue[i], queue[j])

\* The same of the frame on the wire, as it would be received.
WireInOrder ==
  wire # NoFrame => /\ AnnouncedBy(Received, relay, sw)
                    /\ \A i \in DOMAIN queue : OpenedSince(queue[i], Received)
StrikesKnown == \A c \in Channels : ByPlatform(c) => sw[c]
InOrder == FramesInOrder /\ WireInOrder /\ StrikesKnown

OwnStrikes ==
  /\ alive /\ ~misled => InOrder
  /\ ~alive => queue = <<>> /\ wire = NoFrame /\ op.pc = "idle"

\* A step that takes no update and closes no output for the platform, and after which
\* the platform is still known to control what it did.
LEMMA QueueRests ==
  ASSUME TypeOK, FramesInOrder, StrikesKnown, queue' = queue,
         \A c \in Channels : ByPlatform(c)' => ByPlatform(c),
         sw' = sw
  PROVE  FramesInOrder' /\ StrikesKnown'
<1>1. \A i \in DOMAIN queue : queue[i] \in Update
  BY DEF TypeOK
<1>2. \A i \in DOMAIN queue : queue[i].fresh \subseteq Channels
  BY <1>1 DEF Update
<1>3. \A c \in Channels : relay'[c] = "platform" => relay[c] = "platform"
  BY DEF ByPlatform
<1>4. \A i \in DOMAIN queue : AnnouncedBy(queue[i], relay, sw)
  BY DEF FramesInOrder
<1>5. \A i \in DOMAIN queue : AnnouncedBy(queue[i], relay', sw)
  BY <1>2, <1>3, <1>4 DEF AnnouncedBy
<1>6. \A i, j \in DOMAIN queue : i < j => OpenedSince(queue[i], queue[j])
  BY DEF FramesInOrder
<1>7. \A c \in Channels : relay'[c] = "platform" => sw[c]
  BY <1>3 DEF StrikesKnown, ByPlatform
<1>8. DOMAIN queue' = DOMAIN queue
  OBVIOUS
<1> QED BY <1>5, <1>6, <1>7, <1>8, Zenon DEF FramesInOrder, StrikesKnown, ByPlatform

\* The frame on the wire stays on the wire, or is dropped.
LEMMA WireRests ==
  ASSUME TypeOK, WireInOrder, queue' = queue,
         \A c \in Channels : ByPlatform(c)' => ByPlatform(c),
         sw' = sw, wire' = wire \/ wire' = NoFrame
  PROVE  WireInOrder'
<1>1. CASE wire' = NoFrame
  BY <1>1 DEF WireInOrder
<1>2. CASE wire' = wire /\ wire # NoFrame
  <2>1. Received' = Received /\ Received.fresh = Channels
    BY <1>2 DEF Received
  <2>2. \A c \in Channels : relay'[c] = "platform" => relay[c] = "platform"
    BY DEF ByPlatform
  <2>3. AnnouncedBy(Received, relay, sw) /\ \A i \in DOMAIN queue : OpenedSince(queue[i], Received)
    BY <1>2 DEF WireInOrder
  <2>4. AnnouncedBy(Received, relay', sw)
    BY <2>1, <2>2, <2>3 DEF AnnouncedBy
  <2> QED BY <2>1, <2>3, <2>4, Zenon DEF WireInOrder
<1> QED BY <1>1, <1>2

LEMMA AllRest ==
  ASSUME TypeOK, OwnStrikes, alive, alive' = alive, misled => misled', queue' = queue,
         \A c \in Channels : ByPlatform(c)' => ByPlatform(c),
         sw' = sw, misled' \/ wire' = wire \/ wire' = NoFrame
  PROVE  OwnStrikes'
<1> SUFFICES ASSUME ~misled' PROVE InOrder'
  BY DEF OwnStrikes
<1> QED BY QueueRests, WireRests, Zenon DEF OwnStrikes, InOrder

\* A finished read or command on c: nothing in the queue counts for c any more.
LEMMA SupersededBy ==
  ASSUME TypeOK, FramesInOrder, StrikesKnown, NEW c \in Channels, Supersede(c),
         \A d \in Channels : d # c => relay'[d] = relay[d] /\ sw'[d] = sw[d],
         relay'[c] = "platform" => sw'[c]
  PROVE  FramesInOrder' /\ StrikesKnown'
<1>1. /\ DOMAIN queue' = DOMAIN queue
      /\ \A i \in DOMAIN queue : queue[i] \in Update /\ queue'[i] = [queue[i] EXCEPT !.fresh = @ \ {c}]
  BY DEF TypeOK, Supersede
<1>2. \A i \in DOMAIN queue :
        /\ queue'[i].fresh = queue[i].fresh \ {c} /\ queue[i].fresh \subseteq Channels
        /\ queue'[i].error = queue[i].error /\ queue'[i].values = queue[i].values
        /\ queue'[i].overtaken = queue[i].overtaken
  BY <1>1 DEF Update
<1>3. \A i \in DOMAIN queue' : AnnouncedBy(queue'[i], relay', sw')
  <2> SUFFICES ASSUME NEW i \in DOMAIN queue, ~queue'[i].error, NEW d \in queue'[i].fresh
               PROVE  /\ queue'[i].values[d] = "open" => relay'[d] # "platform"
                      /\ queue'[i].values[d] = "platform" => sw'[d] \/ d \in queue'[i].overtaken
    BY <1>1 DEF AnnouncedBy
  <2> QED BY <1>2 DEF FramesInOrder, AnnouncedBy
<1>4. \A i, j \in DOMAIN queue' : i < j => OpenedSince(queue'[i], queue'[j])
  BY <1>1, <1>2 DEF FramesInOrder, OpenedSince
<1>5. StrikesKnown'
  BY DEF StrikesKnown, ByPlatform
<1> QED BY <1>3, <1>4, <1>5 DEF FramesInOrder

\* A frame is received: it joins the queue as what it was on the wire.
LEMMA AppendOwn ==
  ASSUME TypeOK, InOrder, relay' = relay, sw' = sw, wire' = NoFrame,
         NEW u \in Update, queue' = Append(queue, u),
         u.error \/ (wire # NoFrame /\ u = Received)
  PROVE  InOrder'
<1> DEFINE n == Len(queue)
<1>1. /\ DOMAIN queue' = 1..(n + 1) /\ DOMAIN queue = 1..n /\ n \in Nat
      /\ queue'[n + 1] = u /\ \A i \in 1..n : queue'[i] = queue[i] /\ queue[i] \in Update
  BY DEF TypeOK
<1>2. \A i \in 1..(n + 1) : i \in 1..n \/ i = n + 1
  BY <1>1
<1> HIDE DEF n
<1>3. AnnouncedBy(u, relay, sw)
  BY DEF AnnouncedBy, InOrder, WireInOrder
<1>4. \A i \in 1..n : OpenedSince(queue[i], u)
  BY <1>1 DEF OpenedSince, InOrder, WireInOrder
<1>5. \A i \in DOMAIN queue' : AnnouncedBy(queue'[i], relay', sw')
  BY <1>1, <1>2, <1>3 DEF InOrder, FramesInOrder, AnnouncedBy
<1>6. \A i, j \in DOMAIN queue' : i < j => OpenedSince(queue'[i], queue'[j])
  <2> SUFFICES ASSUME NEW i \in 1..(n + 1), NEW j \in 1..(n + 1), i < j
               PROVE  OpenedSince(queue'[i], queue'[j])
    BY <1>1
  <2>1. i \in 1..n
    BY <1>1
  <2>2. CASE j \in 1..n
    BY <1>1, <2>1, <2>2 DEF InOrder, FramesInOrder
  <2>3. CASE j = n + 1
    BY <1>1, <1>4, <2>1, <2>3
  <2> QED BY <1>2, <2>2, <2>3
<1>7. StrikesKnown'
  BY DEF InOrder, StrikesKnown, ByPlatform
<1> QED BY <1>5, <1>6, <1>7 DEF InOrder, FramesInOrder, WireInOrder

\* The relay sends its outputs as they are.
LEMMA SentOwn ==
  ASSUME TypeOK, InOrder, NEW asked \in BOOLEAN, Sent(asked)
  PROVE  InOrder'
<1>1. /\ relay' = relay /\ sw' = sw /\ queue' = queue
      /\ wire' = [values |-> relay, asked |-> asked, overtaken |-> {}]
  BY DEF Sent, device, channel
<1>2. FramesInOrder' /\ StrikesKnown'
  BY <1>1, QueueRests DEF InOrder, ByPlatform
<1>3. Received' = [error |-> FALSE, values |-> relay, fresh |-> Channels, overtaken |-> {}]
  BY <1>1 DEF Received
<1>4. \A i \in DOMAIN queue : queue[i] \in Update /\ AnnouncedBy(queue[i], relay, sw)
  BY DEF InOrder, FramesInOrder, TypeOK
<1>5. AnnouncedBy(Received', relay, sw)
  BY <1>3 DEF AnnouncedBy, InOrder, StrikesKnown, ByPlatform
<1>6. \A i \in DOMAIN queue : OpenedSince(queue[i], Received')
  BY <1>3, <1>4 DEF OpenedSince, AnnouncedBy
<1>7. WireInOrder'
  BY <1>1, <1>5, <1>6, Zenon DEF WireInOrder
<1> QED BY <1>2, <1>7 DEF InOrder

\* An update is observed.
LEMMA ObserveOwn ==
  ASSUME TypeOK, InOrder, relay' = relay, wire' = wire, queue # <<>>,
         queue' = Tail(queue),
         \A c \in Channels : sw[c] /\ ~sw'[c] => ~Head(queue).error /\ c \in SeenLow(Head(queue))
  PROVE  InOrder'
<1> DEFINE u == Head(queue)
           n == Len(queue)
<1>1. /\ DOMAIN queue' = 1..(n - 1) /\ DOMAIN queue = 1..n /\ n \in Nat \ {0}
      /\ u = queue[1] /\ \A i \in 1..(n - 1) : queue'[i] = queue[i + 1]
      /\ \A i \in 1..n : queue[i] \in Update
  BY DEF TypeOK
<1>2. \A i \in 1..(n - 1) : i + 1 \in 1..n /\ 1 \in 1..n /\ 1 < i + 1
  BY <1>1
<1>lost. \A c \in Channels : sw[c] /\ ~sw'[c] => ~u.error /\ c \in u.fresh /\ u.values[c] = "open"
  BY DEF SeenLow
<1> HIDE DEF n, u
<1>3. \A i \in 1..n : queue[i].fresh \subseteq Channels
  BY <1>1 DEF Update
<1>4. \A i \in DOMAIN queue' : AnnouncedBy(queue'[i], relay', sw')
  <2> SUFFICES ASSUME NEW i \in 1..(n - 1), ~queue'[i].error, NEW c \in queue'[i].fresh
               PROVE  /\ queue'[i].values[c] = "open" => relay'[c] # "platform"
                      /\ queue'[i].values[c] = "platform" => sw'[c] \/ c \in queue'[i].overtaken
    BY <1>1 DEF AnnouncedBy
  <2>1. queue'[i] = queue[i + 1] /\ AnnouncedBy(queue[i + 1], relay, sw) /\ OpenedSince(u, queue[i + 1])
    BY <1>1, <1>2 DEF InOrder, FramesInOrder
  <2>2. c \in Channels
    BY <1>2, <1>3, <2>1
  <2> QED BY <2>1, <2>2, <1>lost DEF AnnouncedBy, OpenedSince
<1>5. \A i, j \in DOMAIN queue' : i < j => OpenedSince(queue'[i], queue'[j])
  <2> SUFFICES ASSUME NEW i \in 1..(n - 1), NEW j \in 1..(n - 1), i < j
               PROVE  OpenedSince(queue'[i], queue'[j])
    BY <1>1
  <2>1. i + 1 < j + 1 /\ i + 1 \in 1..n /\ j + 1 \in 1..n
    BY <1>1
  <2> QED BY <1>1, <2>1 DEF InOrder, FramesInOrder
<1>6. ASSUME NEW c \in Channels, relay'[c] = "platform" PROVE sw'[c]
  <2>1. sw[c] /\ AnnouncedBy(u, relay, sw)
    BY <1>1, <1>2, <1>6 DEF InOrder, FramesInOrder, StrikesKnown, ByPlatform
  <2> QED BY <1>6, <2>1, <1>lost DEF AnnouncedBy
<1>7. WireInOrder'
  <2> SUFFICES ASSUME wire # NoFrame PROVE WireInOrder'
    BY DEF WireInOrder
  <2>1. Received' = Received /\ Received.fresh = Channels /\ ~Received.error
    BY DEF Received
  <2>2. AnnouncedBy(Received, relay, sw) /\ OpenedSince(u, Received)
    BY <1>1, <1>2 DEF InOrder, WireInOrder
  <2>3. AnnouncedBy(Received, relay', sw')
    BY <2>1, <2>2, <1>lost DEF AnnouncedBy, OpenedSince
  <2>4. \A i \in DOMAIN queue' : OpenedSince(queue'[i], Received)
    BY <1>1, <1>2 DEF InOrder, WireInOrder
  <2> QED BY <2>1, <2>3, <2>4, Zenon DEF WireInOrder
<1> QED BY <1>4, <1>5, <1>6, <1>7 DEF InOrder, FramesInOrder, StrikesKnown, ByPlatform

\* A read overtakes the frame on the wire where it sees open what that has closed.
LEMMA ReadOwn ==
  ASSUME TypeOK, InOrder, NEW c \in Channels, ReadOk(c)
  PROVE  InOrder'
<1>1. /\ Supersede(c) /\ Overtake(c) /\ relay' = relay
      /\ sw' = [sw EXCEPT ![c] = sw[c] /\ relay[c] # "open"]
  BY DEF ReadOk
<1>2. \A d \in Channels : sw[d] /\ ~sw'[d] => d = c /\ relay[c] = "open"
  BY <1>1 DEF TypeOK
<1>3. \A d \in Channels : d # c => sw'[d] = sw[d]
  BY <1>1, Zenon DEF TypeOK
<1>4. relay'[c] = "platform" => sw'[c]
  BY <1>1, <1>2 DEF InOrder, StrikesKnown, ByPlatform
<1>5. FramesInOrder' /\ StrikesKnown'
  BY <1>1, <1>3, <1>4, SupersededBy DEF InOrder
<1>6. CASE wire = NoFrame
  BY <1>1, <1>5, <1>6 DEF Overtake, InOrder, WireInOrder
<1>7. CASE wire # NoFrame
  <2>1. wire \in Sending
    BY <1>7 DEF TypeOK
  <2>2. /\ wire'.values = wire.values /\ wire.overtaken \subseteq wire'.overtaken
        /\ relay[c] = "open" /\ wire.values[c] = "platform" => c \in wire'.overtaken
    <3>1. CASE relay[c] = "open" /\ wire.values[c] = "platform"
      BY <1>1, <1>7, <2>1, <3>1 DEF Overtake, Sending
    <3>2. CASE ~(relay[c] = "open" /\ wire.values[c] = "platform")
      BY <1>1, <3>2 DEF Overtake
    <3> QED BY <3>1, <3>2
  <2>3. /\ ~Received.error /\ ~Received'.error
        /\ Received.fresh = Channels /\ Received'.fresh = Channels
        /\ Received.values = wire.values /\ Received'.values = wire.values
        /\ Received.overtaken = wire.overtaken /\ Received'.overtaken = wire'.overtaken
    BY <2>2 DEF Received
  <2>4. AnnouncedBy(Received, relay, sw) /\ \A i \in DOMAIN queue : OpenedSince(queue[i], Received)
    BY <1>7 DEF InOrder, WireInOrder
  <2>5. AnnouncedBy(Received', relay', sw')
    BY <1>1, <1>2, <2>2, <2>3, <2>4 DEF AnnouncedBy
  <2>6. \A i \in DOMAIN queue : queue[i] \in Update
    BY DEF TypeOK
  <2>7. \A i \in DOMAIN queue' : OpenedSince(queue'[i], Received')
    <3> SUFFICES ASSUME NEW i \in DOMAIN queue PROVE OpenedSince(queue'[i], Received')
      BY <1>1 DEF Supersede
    <3>1. queue'[i] = [queue[i] EXCEPT !.fresh = @ \ {c}] /\ queue[i] \in Update
      BY <1>1, <2>6 DEF Supersede
    <3>2. /\ queue'[i].error = queue[i].error /\ queue'[i].values = queue[i].values
          /\ queue'[i].fresh = queue[i].fresh \ {c}
      BY <3>1 DEF Update
    <3> QED BY <2>3, <2>4, <3>2 DEF OpenedSince
  <2>8. WireInOrder'
    BY <2>5, <2>7, Zenon DEF WireInOrder
  <2> QED BY <1>5, <2>8 DEF InOrder
<1> QED BY <1>6, <1>7

\* A read that fails supersedes, and tells nothing.
LEMMA UnreadOwn ==
  ASSUME TypeOK, InOrder, NEW c \in Channels, ReadFail(c)
  PROVE  InOrder'
<1>1. Supersede(c) /\ UNCHANGED <<relay, sw, wire>>
  BY DEF ReadFail
<1>2. FramesInOrder' /\ StrikesKnown'
  BY <1>1, SupersededBy DEF InOrder, StrikesKnown, ByPlatform
<1>3. WireInOrder'
  <2> SUFFICES ASSUME wire # NoFrame PROVE WireInOrder'
    BY <1>1 DEF WireInOrder
  <2>1. Received' = Received
    BY <1>1 DEF Received
  <2>2. AnnouncedBy(Received, relay, sw) /\ \A i \in DOMAIN queue : OpenedSince(queue[i], Received)
    BY DEF InOrder, WireInOrder
  <2>3. \A i \in DOMAIN queue : queue[i] \in Update
    BY DEF TypeOK
  <2>4. \A i \in DOMAIN queue' : OpenedSince(queue'[i], Received)
    <3> SUFFICES ASSUME NEW i \in DOMAIN queue PROVE OpenedSince(queue'[i], Received)
      BY <1>1 DEF Supersede
    <3>1. queue'[i] = [queue[i] EXCEPT !.fresh = @ \ {c}] /\ queue[i] \in Update
      BY <1>1, <2>3 DEF Supersede
    <3>2. /\ queue'[i].error = queue[i].error /\ queue'[i].values = queue[i].values
          /\ queue'[i].fresh = queue[i].fresh \ {c}
      BY <3>1 DEF Update
    <3> QED BY <2>2, <3>2 DEF OpenedSince
  <2> QED BY <1>1, <2>1, <2>2, <2>4, Zenon DEF WireInOrder
<1> QED BY <1>2, <1>3 DEF InOrder

\* A switching command, failed or not, drops the answer on the wire: what is left
\* there nobody asked for.
LEMMA Dropped == ASSUME NewVersion, ~misled' PROVE wire' = NoFrame /\ ~misled
<1>1. wire = NoFrame \/ wire.asked
  BY DEF NewVersion
<1> QED BY <1>1 DEF NewVersion, NoFrame

LEMMA StepOwn ==
  ASSUME "lost" \notin Faults, TypeOK, OwnStrikes, [Next]_vars
  PROVE  OwnStrikes'
<1> USE DEF device, monitor, channel, reports, control, budget
<1>1. CASE UNCHANGED vars
  BY <1>1 DEF vars, OwnStrikes, InOrder, FramesInOrder, WireInOrder, Received, StrikesKnown,
              AnnouncedBy, OpenedSince, ByPlatform
<1>2. ASSUME NEW c \in Channels, FieldClose(c) \/ RelayOpen(c) PROVE OwnStrikes'
  <2>1. \A d \in Channels : ByPlatform(d)' => ByPlatform(d)
    BY <1>2 DEF TypeOK, Outputs, ByPlatform, FieldClose, RelayOpen
  <2>2. UNCHANGED <<wire, queue, misled, sw, alive, op>>
    BY <1>2 DEF FieldClose, RelayOpen
  <2>3. CASE alive
    BY <2>1, <2>2, <2>3, AllRest
  <2>4. CASE ~alive
    BY <2>2, <2>4 DEF OwnStrikes
  <2> QED BY <2>3, <2>4
<1>3. CASE Connection \/ LinkLost
  <2>1. alive /\ alive' = alive /\ misled' = misled
    BY <1>3 DEF Connection, Frame, Sent, LinkLost
  <2>2. SUFFICES ASSUME ~misled PROVE InOrder'
    BY <2>1 DEF OwnStrikes
  <2>3. InOrder
    BY <2>1, <2>2 DEF OwnStrikes
  <2>4. CASE Frame
    <3>1. wire \in Sending
      BY <2>4 DEF Frame, TypeOK
    <3>2. Received \in Update
      BY <3>1 DEF Received, Update, Sending
    <3> QED BY <2>3, <2>4, <3>2, AppendOwn DEF Frame
  <2>5. ASSUME NEW asked \in BOOLEAN, Sent(asked) PROVE InOrder'
    BY <2>3, <2>5, SentOwn
  <2>6. CASE LinkLost
    <3> DEFINE u == [error |-> TRUE, values |-> [c \in Channels |-> "open"],
                     fresh |-> Channels, overtaken |-> {}]
    <3>1. u \in Update /\ u.error /\ queue' = Append(queue, u)
      BY <2>6 DEF Update, Outputs, LinkLost
    <3>2. UNCHANGED <<relay, sw>> /\ wire' = NoFrame
      BY <2>6 DEF LinkLost
    <3> HIDE DEF u
    <3> QED BY <2>3, <3>1, <3>2, AppendOwn
  <2> QED BY <1>3, <2>4, <2>5, <2>6 DEF Connection
<1>4. CASE Observe
  <2>1. alive /\ alive' = alive /\ misled' = misled
    BY <1>4 DEF Observe, ObserveError, ObserveFrame, Free
  <2>2. SUFFICES ASSUME ~misled PROVE InOrder'
    BY <2>1 DEF OwnStrikes
  <2>3. InOrder
    BY <2>1, <2>2 DEF OwnStrikes
  <2>4. CASE ObserveError
    BY <2>3, <2>4, ObserveOwn DEF ObserveError
  <2>5. CASE ObserveFrame
    <3>1. sw' = [c \in Channels |-> sw[c] /\ c \notin SeenLow(Head(queue))]
      BY <2>5 DEF ObserveFrame
    <3>2. \A c \in Channels : sw[c] /\ ~sw'[c] => c \in SeenLow(Head(queue))
      BY <3>1
    <3> QED BY <2>3, <2>5, <3>2, ObserveOwn DEF ObserveFrame
  <2> QED BY <1>4, <2>4, <2>5 DEF Observe
<1>5. CASE Api \/ Background
  <2>1. CASE UNCHANGED <<relay, wire, queue, misled, sw, alive>>
    <3>1. CASE alive
      BY <2>1, <3>1, AllRest DEF ByPlatform
    <3>2. CASE ~alive
      BY <1>5, <3>2 DEF Api, Stop, StopOffline, Poll, Look, RefusedOffline, Shutdown, Start, SetLow,
         Background, MonitorCheck, MonitorRetry, RefreshBegin, RefreshCheck, RefreshRetry, Free
    <3> QED BY <3>1, <3>2
  <2>2. CASE Shutdown
    BY <2>2 DEF Shutdown, MemoryLost, OwnStrikes, Idle
  <2> QED BY <1>5, <2>1, <2>2 DEF Api, Stop, StopOffline, Poll, Look, RefusedOffline, Start, SetLow,
         Background, MonitorCheck, MonitorRetry, RefreshBegin, RefreshCheck, RefreshRetry
<1>6. CASE Exchange
  <2>1. op.pc # "idle" => alive
    BY DEF OwnStrikes
  <2>2. alive /\ alive' = alive
    BY <1>6, <2>1 DEF Exchange, SwitchOffline, ReadOffline, ReadOk, ReadFail, LowOk, LowFail,
       HighOk, HighFail, Reading
  <2>3. relay \in Outputs /\ sw \in [Channels -> BOOLEAN]
    BY DEF TypeOK
  <2>4. CASE SwitchOffline
    BY <2>2, <2>4, AllRest DEF SwitchOffline, ByPlatform
  <2>5. ASSUME NEW c \in Channels, ReadOffline(c) PROVE OwnStrikes'
    BY <2>2, <2>5, AllRest DEF ReadOffline, ByPlatform
  <2>6. ASSUME NEW c \in Channels, ReadOk(c) \/ ReadFail(c) PROVE OwnStrikes'
    <3>1. misled' = misled
      BY <2>6 DEF ReadOk, ReadFail
    <3> QED BY <2>2, <2>6, <3>1, ReadOwn, UnreadOwn DEF OwnStrikes
  <2>7. ASSUME NEW c \in Channels, LowOk(c) \/ HighOk(c) PROVE OwnStrikes'
    <3>1. /\ Supersede(c) /\ NewVersion
          /\ \/ relay' = [relay EXCEPT ![c] = "open"] /\ sw' = [sw EXCEPT ![c] = FALSE]
             \/ relay' = [relay EXCEPT ![c] = "platform"] /\ sw' = [sw EXCEPT ![c] = TRUE]
      BY <2>7 DEF LowOk, HighOk
    <3>2. ASSUME NEW d \in Channels, d # c PROVE relay'[d] = relay[d] /\ sw'[d] = sw[d]
      <4>1. relay'[d] = relay[d]
        BY ONLY <2>3, <3>1, <3>2 DEF Outputs
      <4>2. sw'[d] = sw[d]
        BY ONLY <2>3, <3>1, <3>2, Zenon
      <4> QED BY <4>1, <4>2
    <3>3. relay'[c] = "platform" => sw'[c]
      BY <2>3, <3>1 DEF Outputs
    <3>4. SUFFICES ASSUME ~misled' PROVE InOrder'
      BY <2>2 DEF OwnStrikes
    <3>5. wire' = NoFrame /\ InOrder
      BY <2>2, <3>1, <3>4, Dropped DEF OwnStrikes
    <3>6. FramesInOrder' /\ StrikesKnown'
      BY <3>1, <3>2, <3>3, <3>5, SupersededBy DEF InOrder
    <3> QED BY <3>5, <3>6 DEF InOrder, WireInOrder
  <2>8. ASSUME NEW c \in Channels, LowFail(c) \/ HighFail(c) PROVE OwnStrikes'
    <3>1. relay' = relay /\ queue' = queue /\ sw' = sw /\ NewVersion
      BY <2>8 DEF LowFail, HighFail, Strike
    <3>2. misled => misled'
      BY <3>1, Zenon DEF NewVersion
    <3>3. misled' \/ wire' = NoFrame
      BY <3>1, Dropped
    <3> QED BY <2>2, <3>1, <3>2, <3>3, AllRest DEF ByPlatform
  <2> QED BY <1>6, <2>4, <2>5, <2>6, <2>7, <2>8 DEF Exchange
<1>7. CASE Conclude
  <2>1. alive /\ UNCHANGED <<relay, wire, queue, misled, sw, alive>>
    <3>1. op.pc # "idle" /\ UNCHANGED <<relay, wire, queue, misled, sw, alive>>
      BY <1>7 DEF Conclude, StopChoose, StopSwitched, StopEnd, StartChecked, StartSwitched,
         StartUndone, StartFailed, StartDone, SnapshotEnd, Ended
    <3> QED BY <3>1 DEF OwnStrikes
  <2> QED BY <2>1, AllRest DEF ByPlatform
<1>8. CASE Crash
  BY <1>8 DEF Crash, MemoryLost, OwnStrikes, Idle
<1>9. CASE Restart
  <2>1. queue' = <<>> /\ wire' = NoFrame /\ \A c \in Channels : relay'[c] # "platform"
    BY <1>9 DEF Restart, OwnStrikes
  <2> QED BY <1>9, <2>1 DEF Restart, OwnStrikes, InOrder, FramesInOrder, WireInOrder, StrikesKnown,
                            ByPlatform
<1> QED BY <1>1, <1>2, <1>3, <1>4, <1>5, <1>6, <1>7, <1>8, <1>9 DEF Next, Environment

\* What is recorded as a field operation was not closed by the platform when the relay
\* sent the frame, or a read has seen it open since.
LEMMA StepRecorded ==
  ASSUME TypeOK, OwnStrikes, Next, ~misled
  PROVE  \A c \in Channels : ext[c] = NoRow /\ ext'[c] # NoRow
           => Head(queue).values[c] # "platform" \/ c \in Head(queue).overtaken
<1> SUFFICES ASSUME NEW c \in Channels, ext[c] = NoRow, ext'[c] # NoRow
             PROVE  Head(queue).values[c] # "platform" \/ c \in Head(queue).overtaken
  OBVIOUS
<1> USE DEF device, monitor, channel, reports, control, budget
<1>1. ext' # ext /\ ~MemoryLost
  BY DEF MemoryLost
<1>2. \A C, ok : ~FinishExternal(C, ok)
  BY DEF FinishExternal
<1>3. ObserveFrame
  BY <1>1, <1>2 DEF Next, Environment, FieldClose, RelayOpen, LinkLost, Connection, Frame, Sent, Api, Stop,
     StopOffline, Poll, Look, RefusedOffline, Shutdown, Start, SetLow, Observe, ObserveError, Background,
     MonitorCheck, MonitorRetry, RefreshBegin, RefreshCheck, RefreshRetry, Exchange, SwitchOffline,
     ReadOffline, ReadOk, ReadFail, LowOk, LowFail, HighOk, HighFail, Conclude, StopChoose, StopSwitched,
     StopEnd, StartChecked, StartSwitched, StartUndone, StartFailed, StartDone, SnapshotEnd, Crash, Restart
<1>4. c \in ToRecord(Head(queue)) /\ ~Head(queue).error /\ queue # <<>> /\ alive
  BY <1>3 DEF ObserveFrame, Free
<1>5. c \in Head(queue).fresh /\ ~sw[c]
  BY <1>4 DEF ToRecord, SeenHigh
<1>6. AnnouncedBy(Head(queue), relay, sw)
  <2>1. Head(queue) = queue[1] /\ 1 \in DOMAIN queue
    BY <1>4 DEF TypeOK
  <2> QED BY <1>4, <2>1 DEF OwnStrikes, InOrder, FramesInOrder
<1> QED BY <1>4, <1>5, <1>6 DEF AnnouncedBy

\* Unless a command took effect whose reply was lost, a frame gives rise to a field
\* report for an output that the platform had closed when the relay sent it only if a
\* read on a connection of its own has seen that output open since, or if a frame that
\* nobody asked for has outlived a switching command: softwareControlled is known
\* (external.go:99), answers from before a command are dropped with their connection
\* (relay_monitor.go:131) and updates from before it are superseded (external.go:53).
\* For any number of channels, any queue and whatever other faults.
THEOREM PlatformIsNotField ==
  ASSUME "lost" \notin Faults
  PROVE  Spec => PlatformStrikeNotRecordedAsField
<1>1. Init => TypeOK /\ OwnStrikes
  BY InitType DEF Init, OwnStrikes, InOrder, FramesInOrder, WireInOrder, StrikesKnown, ByPlatform
<1>2. TypeOK /\ OwnStrikes /\ [Next]_vars => (TypeOK /\ OwnStrikes)'
  BY StepType, StepOwn
<1>3. TypeOK /\ OwnStrikes /\ [Next]_vars
        => [~misled => \A c \in Channels : ext[c] = NoRow /\ ext'[c] # NoRow
              => \/ Head(queue).values[c] # "platform"
                 \/ c \in Head(queue).overtaken]_vars
  BY StepRecorded
<1> QED BY <1>1, <1>2, <1>3, PTL DEF Spec, PlatformStrikeNotRecordedAsField
=============================================================================
