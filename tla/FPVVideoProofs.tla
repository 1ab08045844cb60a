--------------------------- MODULE FPVVideoProofs ---------------------------
(***************************************************************************)
(* The safety of FPVVideo, for any number of viewers and sessions: one       *)
(* inductive invariant, VideoInv, one lemma per action of the module, and    *)
(* VideoSafe, what follows.  Its theorems are those of StationProofs, about  *)
(* the station the video is part of.                                         *)
(*                                                                           *)
(* As long as no shutdown met a viewer that was starting (overlap) the       *)
(* session says who may touch the device, the process and the publisher: the *)
(* viewer that has it, or the stop that ends it.                             *)
(***************************************************************************)
EXTENDS FPVVideo, TLAPS

\* The records of the threads.

Steps == {"idle", "tune", "tuning", "restart", "unreachable", "start", "wait",
          "stream", "leave"}
ViewerRecords == [pc : Steps, id : 0..nextId, gone : BOOLEAN, reset : BOOLEAN,
                  closed : BOOLEAN]
StopSteps == {"idle", "off", "offing", "shutdown", "close", "release"}
Stops == [pc : StopSteps, id : 0..nextId, tries : 0..Attempts, failed : BOOLEAN,
          last : BOOLEAN]
CloseRecords == [pc : Closes, ok : BOOLEAN]

LEMMA TypesOf ==
  TypeOK =>
    /\ viewer \in [Viewers -> ViewerRecords] /\ stop \in Stops
    /\ closing \in [Threads -> CloseRecords]
    /\ nextId \in Nat /\ session \in 0..nextId
BY DEF TypeOK, ViewerRecords, Steps, Stops, StopSteps, CloseRecords

\* A thread of a viewer goes on: only its place changes.
LEMMA ViewerGoes ==
  ASSUME TypeOK, NEW v \in Viewers, NEW pc \in Steps, Go(v, pc)
  PROVE  /\ viewer' \in [Viewers -> ViewerRecords]
         /\ \A w \in Viewers : w # v => viewer'[w] = viewer[w]
         /\ viewer'[v].pc = pc
         /\ viewer'[v].id = viewer[v].id /\ viewer'[v].gone = viewer[v].gone
         /\ viewer'[v].reset = viewer[v].reset /\ viewer'[v].closed = viewer[v].closed
<1> DEFINE r == [viewer[v] EXCEPT !.pc = pc]
<1>1. viewer' = [viewer EXCEPT ![v] = r]
  BY DEF Go
<1>2. viewer \in [Viewers -> ViewerRecords] /\ viewer[v] \in ViewerRecords
  BY TypesOf
<1>3. /\ r \in ViewerRecords /\ r.pc = pc /\ r.id = viewer[v].id /\ r.gone = viewer[v].gone
      /\ r.reset = viewer[v].reset /\ r.closed = viewer[v].closed
  BY <1>2 DEF ViewerRecords
<1> HIDE DEF r
<1> QED BY <1>1, <1>2, <1>3

LEMMA CloserGoes ==
  ASSUME TypeOK, NEW t \in Threads, NEW pc \in Closes, closing' = [closing EXCEPT ![t].pc = pc]
  PROVE  /\ closing' \in [Threads -> CloseRecords]
         /\ \A u \in Threads : u # t => closing'[u] = closing[u]
         /\ closing'[t].pc = pc /\ closing'[t].ok = closing[t].ok
<1> DEFINE r == [closing[t] EXCEPT !.pc = pc]
<1>1. closing' = [closing EXCEPT ![t] = r]
  OBVIOUS
<1>2. closing \in [Threads -> CloseRecords] /\ closing[t] \in CloseRecords
  BY TypesOf
<1>3. r \in CloseRecords /\ r.pc = pc /\ r.ok = closing[t].ok
  BY <1>2 DEF CloseRecords
<1> HIDE DEF r
<1> QED BY <1>1, <1>2, <1>3

LEMMA CloserIs ==
  ASSUME TypeOK, NEW t \in Threads, NEW r \in CloseRecords, closing' = [closing EXCEPT ![t] = r]
  PROVE  /\ closing' \in [Threads -> CloseRecords]
         /\ \A u \in Threads : u # t => closing'[u] = closing[u]
         /\ closing'[t] = r
BY TypesOf

LEMMA StopGoes ==
  ASSUME TypeOK, NEW pc \in StopSteps
  PROVE  /\ [stop EXCEPT !.pc = pc] \in Stops
         /\ [stop EXCEPT !.pc = pc].pc = pc
         /\ [stop EXCEPT !.pc = pc].id = stop.id
         /\ [stop EXCEPT !.pc = pc].failed = stop.failed
         /\ [stop EXCEPT !.pc = pc].last = stop.last
BY TypesOf DEF Stops

LEMMA Records ==
  /\ NoClose \in CloseRecords /\ Calling \in CloseRecords
  /\ NoClose.pc = "idle" /\ Calling.pc = "cancel"
  /\ (TypeOK => NoStop \in Stops /\ NoViewer \in ViewerRecords)
  /\ NoStop.pc = "idle" /\ NoViewer.pc = "idle"
BY TypesOf DEF NoClose, Calling, CloseRecords, Closes, NoStop, Stops, StopSteps, Attempts,
       NoViewer, ViewerRecords, Steps

-----------------------------------------------------------------------------
(* The inductive invariant.                                                  *)

\* A viewer whose handler has the session: it starts, or watches.
Serving(v) ==
  \/ Starting(v)
  \/ viewer[v].pc = "stream" /\ ~viewer[v].closed /\ shut = "no"

\* Nothing runs that has not been told to end.
Clean == (process = None \/ process.told) /\ publisher # "running"

\* One viewer at a time has the session, until somebody stops it.
Owned ==
  /\ session \in {0, nextId}
  /\ \A v \in Viewers : viewer[v].pc # "idle" => viewer[v].id # 0
  /\ \A v, w \in Viewers :
       viewer[v].pc # "idle" /\ viewer[w].pc # "idle" /\ viewer[v].id = viewer[w].id => v = w
  /\ \A v \in Viewers : Serving(v) => session = viewer[v].id /\ stop.pc = "idle"
  /\ stop.pc # "idle" => session = stop.id /\ session # 0

\* A shutdown that met no viewer starting meets none later.
ShutDown ==
  shut # "no" =>
    /\ \A v \in Viewers : ~Starting(v)
    /\ session # 0 => stop.pc # "idle" /\ stop.last /\ shut = "stopping"

\* Who closes the converter, and how far that is.
Closers ==
  /\ \A v \in Viewers : closing[v].pc # "idle" => viewer[v].pc \in {"restart", "unreachable"}
  /\ closing["stop"].pc # "idle" => stop.pc \in {"shutdown", "close"}
  /\ closing["shutdown"].pc # "idle" => shut = "closing"
ClosedSoFar ==
  \A t \in Threads :
    /\ closing[t].pc \in {"cancelled", "killed", "done"} => publisher # "running"
    /\ closing[t].pc \in {"killed", "done"} => process = None \/ process.told
    /\ closing[t].pc = "done" /\ closing[t].ok => process = None

\* What a viewer has come to: before its device is tuned all is clean, after
\* that what runs is its own.
Progress ==
  \A v \in Viewers :
    /\ viewer[v].pc \in {"tune", "tuning"} => ~viewer[v].reset
    /\ viewer[v].pc \in {"restart", "start", "wait", "unreachable", "stream"} => viewer[v].reset
    /\ Starting(v) /\ ~viewer[v].reset => Clean /\ recordPath # viewer[v].id
    /\ Serving(v) /\ viewer[v].pc # "leave" /\ viewer[v].reset => recordPath = viewer[v].id
    /\ viewer[v].pc = "start" => process = None /\ publisher # "running"
    /\ viewer[v].pc = "wait" \/ (viewer[v].pc = "stream" /\ Serving(v)) =>
         (process # None => process.path = session /\ ~process.told)

\* What a stop has come to.  The device is off if its answer was read right.
Off == ~misread => pipe = <<>> /\ tuned = 0
StopProgress ==
  /\ session = 0 \/ stop.pc = "release" => Clean
  /\ stop.pc = "shutdown" => Off
  /\ stop.pc = "close" => stop.failed
  /\ stop.pc = "release" /\ ~stop.failed /\ recordPath = stop.id => process = None /\ Off

\* Who waits for the device, and what was sent last.
Commands ==
  /\ command = "stop" => stop.pc = "offing"
  /\ \A v \in Viewers : command = v => viewer[v].pc = "tuning"
  /\ command = "stop" /\ pipe # <<>> => pipe[Len(pipe)] = 0

\* A recording that is ready belongs to an earlier session, and nothing that is
\* still under way leads back to it.
Recorded ==
  \A i \in Sessions :
    records[i] = "ready" =>
      /\ i <= nextId /\ i # session
      /\ process # None => process.path # i
      /\ ~misread => tuned # i /\ \A k \in 1..Len(pipe) : pipe[k] # i

Undisturbed ==
  /\ Owned /\ ShutDown /\ Closers /\ ClosedSoFar
  /\ Progress /\ StopProgress /\ Commands /\ Recorded
VideoInv == TypeOK /\ (shut = "no" => ~overlap) /\ (~overlap => Undisturbed)

-----------------------------------------------------------------------------
LEMMA CancelStep ==
  ASSUME VideoConstants, VideoInv, NEW t \in Threads, Cancel(t)
  PROVE  VideoInv'
<1>1. /\ closing' \in [Threads -> CloseRecords]
      /\ \A u \in Threads : u # t => closing'[u] = closing[u]
      /\ closing'[t].pc = "cancelled"
      /\ closing[t].pc = "cancel" /\ UNCHANGED <<Served, Device, process, events>>
      /\ publisher' \in {"none", "cancelled"}
  BY CloserGoes DEF VideoInv, Cancel, Quiet, Closes, TypeOK
<1>2. TypeOK'
  BY <1>1 DEF VideoInv, TypeOK, Served, Device, CloseRecords
<1>3. SUFFICES ASSUME ~overlap PROVE Undisturbed'
  BY <1>1, <1>2 DEF VideoInv, Served
<1>4. Owned' /\ ShutDown'
  BY <1>1, <1>3 DEF VideoInv, Undisturbed, Served, Owned, ShutDown, Serving, Starting
<1>5. Closers' /\ ClosedSoFar'
  BY <1>1, <1>3 DEF VideoInv, Undisturbed, Served, Closers, ClosedSoFar, Threads, VideoConstants
<1>6. Progress' /\ StopProgress' /\ Commands' /\ Recorded'
  BY <1>1, <1>3 DEF VideoInv, Undisturbed, Served, Device, Progress, StopProgress, Commands, Recorded, Serving, Starting, Clean, Off
<1> QED BY <1>4, <1>5, <1>6 DEF Undisturbed

LEMMA KillStep ==
  ASSUME VideoConstants, VideoInv, NEW t \in Threads, Kill(t)
  PROVE  VideoInv'
<1>0. process' = None \/ (process'.told /\ process'.path = process.path /\ process # None)
  BY DEF VideoInv, TypeOK, Kill, Told
<1>0a. process' \in [path : 0..nextId, told : BOOLEAN] \cup {None}
  BY DEF VideoInv, TypeOK, Kill, Told
<1>1. /\ closing' \in [Threads -> CloseRecords]
      /\ \A u \in Threads : u # t => closing'[u] = closing[u]
      /\ closing'[t].pc = "killed"
  <2>1. CASE closing' = [closing EXCEPT ![t].pc = "killed"]
    BY <2>1, CloserGoes DEF VideoInv, Closes
  <2>2. CASE closing' = [closing EXCEPT ![t] = [pc |-> "killed", ok |-> FALSE]]
    <3>1. [pc |-> "killed", ok |-> FALSE] \in CloseRecords
      BY DEF CloseRecords, Closes
    <3> QED BY <2>2, <3>1, CloserIs DEF VideoInv
  <2> QED BY <2>1, <2>2 DEF Kill
<1>2. /\ closing[t].pc = "cancelled" /\ UNCHANGED <<Served, Device>>
      /\ (publisher' = publisher \/ publisher' = "none") /\ events' \in 0..MaxEvents
  BY DEF Kill, Event, Quiet, VideoInv, TypeOK, VideoConstants
<1>3. TypeOK'
  BY <1>0a, <1>1, <1>2 DEF VideoInv, TypeOK, Served, Device, CloseRecords
<1>4. SUFFICES ASSUME ~overlap PROVE Undisturbed'
  BY <1>2, <1>3 DEF VideoInv, Served
<1>5. Owned' /\ ShutDown'
  BY <1>1, <1>2, <1>4 DEF VideoInv, Undisturbed, Served, Owned, ShutDown, Serving, Starting
<1>6. Closers'
  BY <1>1, <1>2, <1>4 DEF VideoInv, Undisturbed, Served, Closers, Threads, VideoConstants
<1>7. ClosedSoFar'
  BY <1>0, <1>1, <1>2, <1>4 DEF VideoInv, Undisturbed, Served, ClosedSoFar
<1>8. t \in Viewers => viewer[t].pc \in {"restart", "unreachable"}
  BY <1>2, <1>4 DEF VideoInv, Undisturbed, Closers
<1>9. \A v \in Viewers : ~(viewer[v].pc = "wait" \/ (viewer[v].pc = "stream" /\ Serving(v)))
  BY <1>2, <1>4, <1>8 DEF VideoInv, Undisturbed, Closers, Owned, ShutDown, Threads, Serving, Starting, VideoConstants
<1>10. Progress'
  BY <1>0, <1>1, <1>2, <1>4, <1>9 DEF VideoInv, Undisturbed, Served, Device, Progress, Serving, Starting, Clean
<1>11. StopProgress' /\ Commands' /\ Recorded'
  BY <1>0, <1>2, <1>4 DEF VideoInv, Undisturbed, Served, Device, StopProgress, Commands, Recorded, Clean, Off
<1> QED BY <1>5, <1>6, <1>7, <1>10, <1>11 DEF Undisturbed

LEMMA KilledStep ==
  ASSUME VideoConstants, VideoInv, NEW t \in Threads, Killed(t)
  PROVE  VideoInv'
<1>1. /\ closing' \in [Threads -> CloseRecords]
      /\ \A u \in Threads : u # t => closing'[u] = closing[u]
      /\ closing'[t].pc = "done" /\ (closing'[t].ok => Ended)
  <2>1. CASE Ended /\ closing' = [closing EXCEPT ![t].pc = "done"]
    BY <2>1, CloserGoes DEF VideoInv, Closes
  <2>2. CASE closing' = [closing EXCEPT ![t] = [pc |-> "done", ok |-> FALSE]]
    <3>1. [pc |-> "done", ok |-> FALSE] \in CloseRecords
      BY DEF CloseRecords, Closes
    <3> QED BY <2>2, <3>1, CloserIs DEF VideoInv
  <2> QED BY <2>1, <2>2 DEF Killed
<1>2. /\ closing[t].pc = "killed" /\ UNCHANGED <<Served, Device, process, publisher>>
      /\ events' \in 0..MaxEvents
  BY DEF Killed, Event, Quiet, VideoInv, TypeOK, VideoConstants, converter
<1>3. TypeOK'
  BY <1>1, <1>2 DEF VideoInv, TypeOK, Served, Device, CloseRecords
<1>4. SUFFICES ASSUME ~overlap PROVE Undisturbed'
  BY <1>2, <1>3 DEF VideoInv, Served
<1>5. Owned' /\ ShutDown'
  BY <1>1, <1>2, <1>4 DEF VideoInv, Undisturbed, Served, Owned, ShutDown, Serving, Starting
<1>6. Closers'
  BY <1>1, <1>2, <1>4 DEF VideoInv, Undisturbed, Served, Closers, Threads, VideoConstants
<1>7. ClosedSoFar'
  BY <1>1, <1>2, <1>4 DEF VideoInv, Undisturbed, Served, ClosedSoFar, Ended
<1>8. Progress' /\ StopProgress' /\ Commands' /\ Recorded'
  BY <1>2, <1>4 DEF VideoInv, Undisturbed, Served, Device, Progress, StopProgress, Commands, Recorded, Serving, Starting, Clean, Off
<1> QED BY <1>5, <1>6, <1>7, <1>8 DEF Undisturbed

\* What ends by itself only makes the place cleaner.
LEMMA EndStep ==
  ASSUME VideoConstants, VideoInv, ProcessEnds \/ PublisherEnds
  PROVE  VideoInv'
<1>1. /\ process' = process \/ process' = None
      /\ publisher' = publisher \/ publisher' = "none"
      /\ events' \in 0..MaxEvents /\ UNCHANGED <<Served, Device, closing>>
  BY DEF ProcessEnds, PublisherEnds, Event, Quiet, VideoInv, TypeOK, VideoConstants
<1>2. TypeOK'
  BY <1>1 DEF VideoInv, TypeOK, Served, Device
<1>3. SUFFICES ASSUME ~overlap PROVE Undisturbed'
  BY <1>1, <1>2 DEF VideoInv, Served
<1>4. Owned' /\ ShutDown' /\ Closers' /\ ClosedSoFar'
  BY <1>1, <1>3 DEF VideoInv, Undisturbed, Served, Owned, ShutDown, Serving, Starting, Closers, ClosedSoFar
<1>5. Progress' /\ StopProgress' /\ Commands' /\ Recorded'
  BY <1>1, <1>3 DEF VideoInv, Undisturbed, Served, Device, Progress, StopProgress, Commands, Recorded, Serving, Starting, Clean, Off
<1> QED BY <1>4, <1>5 DEF Undisturbed

-----------------------------------------------------------------------------
(* The viewers.                                                              *)

\* While nobody has the session nobody starts.
LEMMA NobodyServes ==
  ASSUME Owned, session = 0
  PROVE  stop.pc = "idle" /\ \A w \in Viewers : ~Serving(w)
BY DEF Owned, Serving, Starting

\* Two viewers do not serve at the same time.
LEMMA OneServes ==
  ASSUME Owned, NEW v \in Viewers, Serving(v), NEW w \in Viewers, w # v
  PROVE  ~Serving(w) /\ stop.pc = "idle"
BY DEF Owned, Serving, Starting

LEMMA BeginStep ==
  ASSUME VideoConstants, VideoInv, NEW v \in Viewers, Begin(v)
  PROVE  VideoInv'
<1> DEFINE r == [NoViewer EXCEPT !.pc = "tune", !.id = nextId']
<1>1. /\ r \in [pc : Steps, id : {nextId'}, gone : BOOLEAN, reset : BOOLEAN, closed : BOOLEAN]
      /\ r.pc = "tune" /\ r.id = nextId' /\ ~r.reset /\ ~r.closed
  <2>1. /\ NoViewer \in [pc : Steps, id : {0}, gone : BOOLEAN, reset : BOOLEAN, closed : BOOLEAN]
        /\ ~NoViewer.reset /\ ~NoViewer.closed
    BY DEF NoViewer, Steps
  <2> QED BY <2>1 DEF Steps
<1>2. viewer' = [viewer EXCEPT ![v] = r]
  BY DEF Begin
<1> HIDE DEF r
<1>3. /\ viewer[v].pc = "idle" /\ session = 0 /\ session' = nextId' /\ nextId' = nextId + 1
      /\ nextId' \in 1..MaxSessions /\ nextId \in Nat
      /\ UNCHANGED <<stop, shut, closing, Device, recordPath, converter, rtmp, records, events>>
  BY DEF Begin, Quiet, VideoInv, TypeOK, VideoConstants, Free
<1>3a. overlap' \in BOOLEAN /\ (overlap' <=> overlap \/ shut # "no")
  BY DEF Begin
<1>4. viewer \in [Viewers -> ViewerRecords]
  BY TypesOf DEF VideoInv
<1>5. r \in ViewerRecords' /\ \A w \in Viewers : viewer[w] \in ViewerRecords'
  BY <1>1, <1>3, <1>4 DEF ViewerRecords, Steps
<1>6. /\ viewer' \in [Viewers -> ViewerRecords']
      /\ viewer'[v].pc = "tune" /\ viewer'[v].id = nextId' /\ ~viewer'[v].reset
      /\ ~viewer'[v].closed /\ \A w \in Viewers : w # v => viewer'[w] = viewer[w]
  BY <1>1, <1>2, <1>4, <1>5
<1>7. TypeOK'
  <2>1. viewer' \in [Viewers -> ViewerRecords']
    BY <1>6
  <2>2. stop' \in Stops' /\ pipe' \in Seq(0..nextId') /\ tuned' \in 0..nextId' /\ recordPath' \in 0..nextId'
    <3>1. \A s : s \in Seq(0..nextId) => s \in Seq(0..nextId')
      BY <1>3
    <3> QED BY <1>3, <3>1, TypesOf DEF VideoInv, TypeOK, Device, Stops
  <2>3. process' \in [path : 0..nextId', told : BOOLEAN] \cup {None}
    BY <1>3 DEF VideoInv, TypeOK, converter
  <2>4. session' \in 0..nextId' /\ nextId' \in 0..MaxSessions
    BY <1>3 DEF VideoConstants
  <2>5. /\ shut' \in {"no", "stopping", "closing", "closed"}
        /\ closing' \in [Threads -> [pc : Closes, ok : BOOLEAN]]
        /\ link' \in BOOLEAN /\ command' \in Viewers \cup {None, "stop"}
        /\ publisher' \in {"none", "running", "cancelled"} /\ rtmp' \in BOOLEAN
        /\ records' \in [Sessions -> {"none", "ready", "failed"}]
        /\ events' \in 0..MaxEvents /\ misread' \in BOOLEAN
    BY <1>3 DEF VideoInv, TypeOK, Device, converter
  <2> QED BY <1>3a, <2>1, <2>2, <2>3, <2>4, <2>5 DEF TypeOK, ViewerRecords, Steps, Stops, StopSteps
<1>8. SUFFICES ASSUME ~overlap' PROVE Undisturbed'
  BY <1>3, <1>3a, <1>7 DEF VideoInv
<1>9. ~overlap /\ shut = "no" /\ Undisturbed
  BY <1>3a, <1>8 DEF VideoInv
<1>10. stop.pc = "idle" /\ \A w \in Viewers : ~Serving(w)
  BY <1>3, <1>9, NobodyServes DEF Undisturbed
<1>11. \A w \in Viewers : viewer[w].id \in 0..nextId
  BY <1>4 DEF ViewerRecords
<1>12. \A w \in Viewers : w # v => ~Serving(w)'
  BY <1>3, <1>6, <1>10 DEF Serving, Starting
<1>13. Owned'
  BY <1>3, <1>6, <1>9, <1>10, <1>11, <1>12 DEF Undisturbed, Owned
<1>14. ShutDown' /\ Closers' /\ ClosedSoFar'
  BY <1>3, <1>6, <1>9 DEF Undisturbed, converter, ShutDown, Closers, ClosedSoFar
<1>15. Progress'
  <2>1. Clean' /\ recordPath' # nextId'
    BY <1>3, <1>9 DEF Undisturbed, StopProgress, converter, Clean, VideoInv, TypeOK
  <2>2. \A w \in Viewers : w # v =>
          /\ viewer'[w].pc \in {"restart", "start", "wait", "unreachable", "stream"} => viewer'[w].reset
          /\ viewer'[w].pc \notin {"tune", "tuning", "start", "wait"}
    BY <1>6, <1>9, <1>10 DEF Undisturbed, Progress, Serving, Starting
  <2>3. \A w \in Viewers : w # v => ~Starting(w)'
    BY <1>12 DEF Serving
  <2> QED BY <1>6, <1>12, <2>1, <2>2, <2>3 DEF Progress
<1>16. StopProgress' /\ Commands' /\ Recorded'
  BY <1>3, <1>6, <1>9, <1>10 DEF Undisturbed, Device, converter, StopProgress, Commands, Recorded, Clean, Off, Sessions
<1> QED BY <1>13, <1>14, <1>15, <1>16 DEF Undisturbed

LEMMA GoesAwayStep ==
  ASSUME VideoConstants, VideoInv, NEW v \in Viewers, ClientGoes(v)
  PROVE  VideoInv'
<1> DEFINE r == [viewer[v] EXCEPT !.gone = TRUE]
<1>1. viewer' = [viewer EXCEPT ![v] = r]
  BY DEF ClientGoes
<1>2. viewer \in [Viewers -> ViewerRecords] /\ viewer[v] \in ViewerRecords
  BY TypesOf DEF VideoInv
<1>3. /\ r \in ViewerRecords /\ r.pc = viewer[v].pc /\ r.id = viewer[v].id
      /\ r.reset = viewer[v].reset /\ r.closed = viewer[v].closed
  BY <1>2 DEF ViewerRecords
<1> HIDE DEF r
<1>4. /\ viewer' \in [Viewers -> ViewerRecords]
      /\ \A w \in Viewers : /\ viewer'[w].pc = viewer[w].pc /\ viewer'[w].id = viewer[w].id
                            /\ viewer'[w].reset = viewer[w].reset
                            /\ viewer'[w].closed = viewer[w].closed
  BY <1>1, <1>2, <1>3
<1>5. UNCHANGED <<session, nextId, stop, shut, closing, Device, recordPath, converter, rtmp,
                  records, overlap, events>>
  BY DEF ClientGoes, Quiet
<1>6. TypeOK'
  BY <1>4, <1>5 DEF VideoInv, TypeOK, Device, converter, ViewerRecords, Steps
<1>7. SUFFICES ASSUME ~overlap PROVE Undisturbed'
  BY <1>5, <1>6 DEF VideoInv
<1>8. \A w \in Viewers : (Serving(w)' <=> Serving(w)) /\ (Starting(w)' <=> Starting(w))
  BY <1>4, <1>5 DEF Serving, Starting
<1>9. Owned' /\ ShutDown' /\ Closers' /\ ClosedSoFar'
  BY <1>4, <1>5, <1>7, <1>8 DEF VideoInv, Undisturbed, Owned, ShutDown, Closers, ClosedSoFar, converter
<1>10. Progress' /\ StopProgress' /\ Commands' /\ Recorded'
  BY <1>4, <1>5, <1>7, <1>8 DEF VideoInv, Undisturbed, Device, converter, Progress, StopProgress, Commands, Recorded, Clean, Off
<1> QED BY <1>9, <1>10 DEF Undisturbed

\* A viewer that starts goes on: what stays true whatever it does besides.
LEMMA StartingGoes ==
  ASSUME VideoConstants, VideoInv, ~overlap, NEW v \in Viewers, Starting(v),
         UNCHANGED <<session, nextId, stop, shut>>,
         viewer' \in [Viewers -> ViewerRecords],
         \A w \in Viewers : w # v => viewer'[w] = viewer[w],
         viewer'[v].pc # "idle", viewer'[v].id = viewer[v].id
  PROVE  /\ Owned' /\ ShutDown' /\ shut = "no" /\ stop.pc = "idle" /\ session = viewer[v].id
         /\ session # 0
         /\ \A w \in Viewers : w # v => ~Serving(w) /\ ~Serving(w)' /\ ~Starting(w) /\ ~Starting(w)'
<1>1. Undisturbed /\ Serving(v)
  BY DEF VideoInv, Serving
<1>2. shut = "no"
  BY <1>1 DEF Undisturbed, ShutDown
<1>3. stop.pc = "idle" /\ session = viewer[v].id /\ session # 0
  BY <1>1 DEF Undisturbed, Owned, Starting
<1>4. \A w \in Viewers : w # v => ~Serving(w)
  BY <1>1, OneServes DEF Undisturbed
<1>5. \A w \in Viewers : w # v => ~Serving(w)'
  BY <1>4 DEF Serving, Starting
<1>6. Owned'
  BY <1>1, <1>3, <1>5 DEF Undisturbed, Owned, Starting
<1> QED BY <1>1, <1>2, <1>3, <1>4, <1>5, <1>6 DEF ShutDown, Serving

LEMMA AppendedId ==
  ASSUME NEW S, NEW s \in Seq(S), NEW e \in S
  PROVE  /\ Append(s, e) \in Seq(S) /\ Append(s, e) # <<>>
         /\ Len(Append(s, e)) = Len(s) + 1 /\ Append(s, e)[Len(s) + 1] = e
         /\ \A k \in 1..Len(s) : Append(s, e)[k] = s[k]
OBVIOUS

LEMMA TuneStep ==
  ASSUME VideoConstants, VideoInv, NEW v \in Viewers, Tune(v)
  PROVE  VideoInv'
<1>1. /\ viewer[v].pc = "tune" /\ command = None
      /\ UNCHANGED <<session, nextId, stop, shut, closing, link, tuned, misread,
                     recordPath, process, publisher, rtmp, records, overlap, events>>
  BY DEF Tune, Quiet, converter
<1>2. PICK pc \in {"leave", "tuning"} :
        /\ Go(v, pc)
        /\ \/ pc = "leave" /\ UNCHANGED <<pipe, command>>
           \/ pc = "tuning" /\ command' = v /\ pipe' = Append(pipe, viewer[v].id)
  BY DEF Tune
<1>3. /\ viewer' \in [Viewers -> ViewerRecords]
      /\ \A w \in Viewers : w # v => viewer'[w] = viewer[w]
      /\ viewer'[v].pc = pc /\ viewer'[v].id = viewer[v].id
      /\ viewer'[v].reset = viewer[v].reset /\ viewer'[v].closed = viewer[v].closed
  BY <1>2, ViewerGoes DEF VideoInv, Steps
<1>4. viewer[v].id \in 0..nextId /\ pipe \in Seq(0..nextId)
  BY TypesOf DEF VideoInv, TypeOK, ViewerRecords
<1>5. pipe' \in Seq(0..nextId) /\ command' \in Viewers \cup {None, "stop"}
  BY <1>1, <1>2, <1>4, AppendedId
<1>6. TypeOK'
  BY <1>1, <1>3, <1>5 DEF VideoInv, TypeOK, ViewerRecords, Steps
<1>7. SUFFICES ASSUME ~overlap PROVE Undisturbed'
  BY <1>1, <1>6 DEF VideoInv
<1>8. Starting(v) /\ Starting(v)'
  BY <1>1, <1>2, <1>3 DEF Starting
<1>9. /\ Owned' /\ ShutDown' /\ shut = "no" /\ stop.pc = "idle" /\ session = viewer[v].id
      /\ session # 0
      /\ \A w \in Viewers : w # v => ~Serving(w) /\ ~Serving(w)' /\ ~Starting(w) /\ ~Starting(w)'
  BY <1>1, <1>2, <1>3, <1>7, <1>8, StartingGoes
<1>10. Undisturbed
  BY <1>7 DEF VideoInv
<1>11. closing[v].pc = "idle"
  BY <1>1, <1>10 DEF Undisturbed, Closers
<1>12. Closers' /\ ClosedSoFar'
  BY <1>1, <1>3, <1>10, <1>11 DEF Undisturbed, Closers, ClosedSoFar
<1>13. Progress'
  <2>1. Clean' /\ recordPath' # viewer'[v].id /\ ~viewer'[v].reset
    BY <1>1, <1>3, <1>8, <1>10 DEF Undisturbed, Progress, Clean
  <2> QED BY <1>1, <1>2, <1>3, <1>9, <1>10, <2>1 DEF Undisturbed, Progress, Starting, Serving
<1>14. StopProgress' /\ Commands'
  BY <1>1, <1>2, <1>3, <1>9, <1>10 DEF Undisturbed, StopProgress, Commands, VideoConstants
<1>15. Recorded'
  <2>1. \A i \in Sessions : i # session /\ (\A k \in 1..Len(pipe) : pipe[k] # i)
          => \A k \in 1..Len(pipe') : pipe'[k] # i
    BY <1>2, <1>4, <1>9, AppendedId
  <2> QED BY <1>1, <1>10, <2>1 DEF Undisturbed, Recorded
<1> QED BY <1>9, <1>12, <1>13, <1>14, <1>15 DEF Undisturbed

LEMMA ClosedStep ==
  ASSUME VideoConstants, VideoInv, NEW v \in Viewers, Closed(v)
  PROVE  VideoInv'
<1> DEFINE pc == IF viewer[v].pc = "restart" /\ closing[v].ok THEN "start" ELSE "leave"
<1>1. /\ viewer[v].pc \in {"restart", "unreachable"} /\ closing[v].pc = "done"
      /\ Go(v, pc) /\ closing' = [closing EXCEPT ![v] = NoClose]
      /\ UNCHANGED <<session, nextId, stop, shut, Device, recordPath,
                     process, publisher, rtmp, records, overlap, events>>
  BY DEF Closed, Quiet, converter
<1>2. pc \in {"start", "leave"} /\ (pc = "start" => viewer[v].pc = "restart" /\ closing[v].ok)
  OBVIOUS
<1> HIDE DEF pc
<1>3. /\ viewer' \in [Viewers -> ViewerRecords]
      /\ \A w \in Viewers : w # v => viewer'[w] = viewer[w]
      /\ viewer'[v].pc = pc /\ viewer'[v].id = viewer[v].id
      /\ viewer'[v].reset = viewer[v].reset /\ viewer'[v].closed = viewer[v].closed
  BY <1>1, <1>2, ViewerGoes DEF VideoInv, Steps
<1>4. /\ closing' \in [Threads -> CloseRecords] /\ closing'[v].pc = "idle"
      /\ \A u \in Threads : u # v => closing'[u] = closing[u]
  BY <1>1, CloserIs, Records DEF VideoInv, Threads
<1>5. TypeOK'
  BY <1>1, <1>3, <1>4 DEF VideoInv, TypeOK, ViewerRecords, Steps, CloseRecords, Device
<1>6. SUFFICES ASSUME ~overlap PROVE Undisturbed'
  BY <1>1, <1>5 DEF VideoInv
<1>7. Starting(v) /\ Starting(v)'
  BY <1>1, <1>2, <1>3 DEF Starting
<1>8. /\ Owned' /\ ShutDown' /\ shut = "no" /\ stop.pc = "idle" /\ session = viewer[v].id
      /\ session # 0
      /\ \A w \in Viewers : w # v => ~Serving(w) /\ ~Serving(w)' /\ ~Starting(w) /\ ~Starting(w)'
  BY <1>1, <1>2, <1>3, <1>6, <1>7, StartingGoes
<1>9. Undisturbed
  BY <1>6 DEF VideoInv
<1>10. Closers' /\ ClosedSoFar'
  BY <1>1, <1>3, <1>4, <1>9 DEF Undisturbed, Closers, ClosedSoFar, VideoConstants, Threads
<1>11. viewer[v].reset /\ (pc = "start" => process = None /\ publisher # "running" /\ recordPath = viewer[v].id)
  BY <1>1, <1>2, <1>7, <1>9 DEF Undisturbed, Progress, ClosedSoFar, Threads, Serving
<1>12. Progress'
  BY <1>1, <1>2, <1>3, <1>8, <1>9, <1>11 DEF Undisturbed, Progress, Starting, Serving
<1>13. StopProgress' /\ Commands'
  BY <1>1, <1>2, <1>3, <1>8, <1>9 DEF Undisturbed, StopProgress, Commands, VideoConstants, Device
<1>14. Recorded'
  BY <1>1, <1>9 DEF Undisturbed, Recorded, Device
<1> QED BY <1>8, <1>10, <1>12, <1>13, <1>14 DEF Undisturbed

LEMMA StartStep ==
  ASSUME VideoConstants, VideoInv, NEW v \in Viewers, Start(v)
  PROVE  VideoInv'
<1>1. /\ viewer[v].pc = "start"
      /\ UNCHANGED <<session, nextId, stop, shut, closing, Device, recordPath,
                     publisher, rtmp, records, overlap>>
      /\ events' \in 0..MaxEvents
  BY DEF Start, Quiet, Event, VideoInv, TypeOK, VideoConstants
<1>2. PICK pc \in {"wait", "leave"} :
        /\ Go(v, pc)
        /\ \/ pc = "wait" /\ process' = [path |-> recordPath, told |-> FALSE]
           \/ process' = process
  BY DEF Start
<1>3. /\ viewer' \in [Viewers -> ViewerRecords]
      /\ \A w \in Viewers : w # v => viewer'[w] = viewer[w]
      /\ viewer'[v].pc = pc /\ viewer'[v].id = viewer[v].id
      /\ viewer'[v].reset = viewer[v].reset /\ viewer'[v].closed = viewer[v].closed
  BY <1>2, ViewerGoes DEF VideoInv, Steps
<1>4. process' \in [path : 0..nextId, told : BOOLEAN] \cup {None}
  <2>1. recordPath \in 0..nextId /\ process \in [path : 0..nextId, told : BOOLEAN] \cup {None}
    BY DEF VideoInv, TypeOK
  <2>2. [path |-> recordPath, told |-> FALSE] \in [path : 0..nextId, told : BOOLEAN]
    BY <2>1
  <2> QED BY <1>2, <2>1, <2>2
<1>5. TypeOK'
  BY <1>1, <1>3, <1>4 DEF VideoInv, TypeOK, ViewerRecords, Steps, Device
<1>6. SUFFICES ASSUME ~overlap PROVE Undisturbed'
  BY <1>1, <1>5 DEF VideoInv
<1>7. Starting(v) /\ Starting(v)'
  BY <1>1, <1>2, <1>3 DEF Starting
<1>8. /\ Owned' /\ ShutDown' /\ shut = "no" /\ stop.pc = "idle" /\ session = viewer[v].id
      /\ session # 0
      /\ \A w \in Viewers : w # v => ~Serving(w) /\ ~Serving(w)' /\ ~Starting(w) /\ ~Starting(w)'
  BY <1>1, <1>2, <1>3, <1>6, <1>7, StartingGoes
<1>9. Undisturbed
  BY <1>6 DEF VideoInv
<1>10. process = None /\ publisher # "running" /\ recordPath = session /\ viewer[v].reset
  BY <1>1, <1>7, <1>8, <1>9 DEF Undisturbed, Progress, Serving
<1>11. \A t \in Threads : closing[t].pc = "idle"
  BY <1>1, <1>8, <1>9 DEF Undisturbed, Closers, Starting, Threads
<1>12. Closers' /\ ClosedSoFar'
  BY <1>1, <1>11 DEF Closers, ClosedSoFar, Threads
<1>13. process' # None => process'.path = session /\ ~process'.told
  BY <1>2, <1>10
<1>14. Progress'
  BY <1>1, <1>2, <1>3, <1>8, <1>9, <1>10, <1>13 DEF Undisturbed, Progress, Starting, Serving
<1>15. StopProgress' /\ Commands'
  BY <1>1, <1>2, <1>3, <1>8, <1>9 DEF Undisturbed, StopProgress, Commands, VideoConstants, Device
<1>16. Recorded'
  BY <1>1, <1>9, <1>13 DEF Undisturbed, Recorded, Device
<1> QED BY <1>8, <1>12, <1>14, <1>15, <1>16 DEF Undisturbed

LEMMA WaitStep ==
  ASSUME VideoConstants, VideoInv, NEW v \in Viewers, Wait(v)
  PROVE  VideoInv'
<1>1. /\ viewer[v].pc = "wait"
      /\ UNCHANGED <<session, nextId, stop, shut, Device, recordPath, process,
                     rtmp, records, overlap>>
      /\ events' \in 0..MaxEvents
  BY DEF Wait, Reached, Quiet, Event, VideoInv, TypeOK, VideoConstants
<1>2. PICK pc \in {"leave", "stream", "unreachable"} :
        /\ Go(v, pc)
        /\ \/ pc # "unreachable" /\ UNCHANGED closing /\ publisher' \in {publisher, "running"}
           \/ pc = "unreachable" /\ closing' = [closing EXCEPT ![v] = Calling] /\ publisher' = publisher
  BY DEF Wait, Reached
<1>3. /\ viewer' \in [Viewers -> ViewerRecords]
      /\ \A w \in Viewers : w # v => viewer'[w] = viewer[w]
      /\ viewer'[v].pc = pc /\ viewer'[v].id = viewer[v].id
      /\ viewer'[v].reset = viewer[v].reset /\ viewer'[v].closed = viewer[v].closed
  BY <1>2, ViewerGoes DEF VideoInv, Steps
<1>4. /\ closing' \in [Threads -> CloseRecords]
      /\ \A u \in Threads : u # v => closing'[u] = closing[u]
      /\ closing'[v] = closing[v] \/ (pc = "unreachable" /\ closing'[v].pc = "cancel")
  BY <1>2, CloserIs, Records, TypesOf DEF VideoInv, Threads
<1>5. TypeOK'
  BY <1>1, <1>2, <1>3, <1>4 DEF VideoInv, TypeOK, ViewerRecords, Steps, CloseRecords, Device
<1>6. SUFFICES ASSUME ~overlap PROVE Undisturbed'
  BY <1>1, <1>5 DEF VideoInv
<1>7. Starting(v)
  BY <1>1 DEF Starting
<1>8. /\ Owned' /\ ShutDown' /\ shut = "no" /\ stop.pc = "idle" /\ session = viewer[v].id
      /\ session # 0
      /\ \A w \in Viewers : w # v => ~Serving(w) /\ ~Serving(w)' /\ ~Starting(w) /\ ~Starting(w)'
  BY <1>1, <1>2, <1>3, <1>6, <1>7, StartingGoes
<1>9. Undisturbed
  BY <1>6 DEF VideoInv
<1>10. \A t \in Threads : closing[t].pc = "idle"
  BY <1>1, <1>8, <1>9 DEF Undisturbed, Closers, Starting, Threads
<1>11. Closers'
  BY <1>1, <1>3, <1>4, <1>10 DEF Closers, Threads, VideoConstants
<1>12. ClosedSoFar'
  BY <1>4, <1>10 DEF ClosedSoFar
<1>13. /\ viewer[v].reset /\ recordPath = session
       /\ process # None => process.path = session /\ ~process.told
  BY <1>1, <1>7, <1>8, <1>9 DEF Undisturbed, Progress, Serving
<1>14. Progress'
  BY <1>1, <1>2, <1>3, <1>8, <1>9, <1>13 DEF Undisturbed, Progress, Starting, Serving
<1>15. StopProgress' /\ Commands'
  BY <1>1, <1>2, <1>3, <1>8, <1>9 DEF Undisturbed, StopProgress, Commands, VideoConstants, Device
<1>16. Recorded'
  BY <1>1, <1>9 DEF Undisturbed, Recorded, Device
<1> QED BY <1>8, <1>11, <1>12, <1>14, <1>15, <1>16 DEF Undisturbed

LEMMA StopIs ==
  ASSUME TypeOK, NEW reset \in BOOLEAN, Stopping(session, reset)
  PROVE  /\ stop' \in Stops /\ stop'.id = session /\ ~stop'.failed
         /\ stop'.pc = IF reset THEN "off" ELSE "release"
<1>1. NoStop \in Stops /\ ~NoStop.failed /\ session \in 0..nextId
  BY TypesOf DEF NoStop, Stops, StopSteps, Attempts
<1>2. stop' = [NoStop EXCEPT !.pc = IF reset THEN "off" ELSE "release", !.id = session]
  BY DEF Stopping
<1>3. (IF reset THEN "off" ELSE "release") \in StopSteps
  BY DEF StopSteps
<1> QED BY <1>1, <1>2, <1>3 DEF Stops

LEMMA LeaveStep ==
  ASSUME VideoConstants, VideoInv, NEW v \in Viewers, Leave(v)
  PROVE  VideoInv'
<1>1. /\ viewer[v].pc \in {"leave", "stream"} /\ stop.pc = "idle"
      /\ viewer' = [viewer EXCEPT ![v] = NoViewer]
      /\ UNCHANGED <<session, nextId, shut, closing, Device, recordPath,
                     process, publisher, rtmp, records, overlap, events>>
  BY DEF Leave, Quiet, converter
<1>2. /\ viewer' \in [Viewers -> ViewerRecords] /\ viewer'[v].pc = "idle"
      /\ \A w \in Viewers : w # v => viewer'[w] = viewer[w]
  BY <1>1, TypesOf, Records DEF VideoInv
<1>3. viewer[v].reset \in BOOLEAN
  BY TypesOf DEF VideoInv, ViewerRecords
<1>4. \/ session # viewer[v].id /\ stop' = stop
      \/ /\ session = viewer[v].id /\ stop' \in Stops /\ stop'.id = session /\ ~stop'.failed
         /\ stop'.pc = IF viewer[v].reset THEN "off" ELSE "release"
  BY <1>3, StopIs DEF Leave, Own, VideoInv
<1>5. stop' \in Stops
  BY <1>4, TypesOf DEF VideoInv
<1>6. TypeOK'
  BY <1>1, <1>2, <1>5 DEF VideoInv, TypeOK, ViewerRecords, Steps, Stops, StopSteps, Device
<1>7. SUFFICES ASSUME ~overlap PROVE Undisturbed'
  BY <1>1, <1>6 DEF VideoInv
<1>8. Undisturbed
  BY <1>7 DEF VideoInv
<1>9. viewer[v].id # 0 /\ (\A w \in Viewers : w # v /\ viewer[w].pc # "idle" => viewer[w].id # viewer[v].id)
  BY <1>1, <1>8 DEF Undisturbed, Owned
<1>10. \A w \in Viewers : (Serving(w)' => Serving(w) /\ w # v) /\ (Starting(w)' => Starting(w) /\ w # v)
  BY <1>1, <1>2 DEF Serving, Starting
<1>11. Owned'
  <2>1. CASE session # viewer[v].id /\ stop' = stop
    BY <1>1, <1>2, <1>8, <1>10, <2>1 DEF Undisturbed, Owned
  <2>2. CASE session = viewer[v].id /\ stop'.id = session
    <3>1. \A w \in Viewers : ~Serving(w)'
      BY <1>8, <1>9, <1>10, <2>2 DEF Undisturbed, Owned, Serving, Starting
    <3> QED BY <1>1, <1>2, <1>8, <1>9, <2>2, <3>1 DEF Undisturbed, Owned
  <2> QED BY <1>4, <2>1, <2>2
<1>12. ShutDown'
  BY <1>1, <1>2, <1>4, <1>8, <1>9, <1>10 DEF Undisturbed, ShutDown, Starting
<1>13. closing[v].pc = "idle" /\ closing["stop"].pc = "idle"
  BY <1>1, <1>8 DEF Undisturbed, Closers
<1>14. Closers' /\ ClosedSoFar'
  BY <1>1, <1>2, <1>8, <1>13 DEF Undisturbed, Closers, ClosedSoFar
<1>15. Progress'
  BY <1>1, <1>2, <1>8, <1>10 DEF Undisturbed, Progress, Clean, Serving, Starting
<1>16. StopProgress'
  <2>1. CASE session # viewer[v].id /\ stop' = stop
    BY <1>1, <1>8, <2>1 DEF Undisturbed, StopProgress, Clean, Off, Device
  <2>2. CASE viewer[v].reset /\ session = viewer[v].id /\ stop'.pc = "off"
    BY <1>1, <1>8, <1>9, <2>2 DEF Undisturbed, StopProgress, Clean, Off, Device
  <2>3. CASE ~viewer[v].reset /\ session = viewer[v].id /\ stop'.pc = "release" /\ stop'.id = session
    <3>1. Clean /\ recordPath # viewer[v].id
      BY <1>1, <1>8, <2>3 DEF Undisturbed, Progress, Starting
    <3> QED BY <1>1, <1>8, <2>3, <3>1 DEF StopProgress, Clean
  <2> QED BY <1>4, <2>1, <2>2, <2>3
<1>17. Commands'
  BY <1>1, <1>2, <1>4, <1>8 DEF Undisturbed, Commands, Device
<1>18. Recorded'
  BY <1>1, <1>8 DEF Undisturbed, Recorded, Device
<1> QED BY <1>11, <1>12, <1>14, <1>15, <1>16, <1>17, <1>18 DEF Undisturbed

LEMMA CloseByTokenStep ==
  ASSUME VideoConstants, VideoInv, NEW v \in Viewers, CloseByToken(v)
  PROVE  VideoInv'
<1> DEFINE r == [viewer[v] EXCEPT !.closed = TRUE]
<1>1. /\ viewer[v].pc = "stream" /\ stop.pc = "idle" /\ session = viewer[v].id
      /\ viewer' = [viewer EXCEPT ![v] = r]
      /\ UNCHANGED <<session, nextId, shut, closing, Device, recordPath,
                     process, publisher, rtmp, records, overlap, events>>
  BY DEF CloseByToken, Quiet, converter
<1>2. viewer \in [Viewers -> ViewerRecords] /\ viewer[v] \in ViewerRecords
  BY TypesOf DEF VideoInv
<1>3. /\ r \in ViewerRecords /\ r.pc = viewer[v].pc /\ r.id = viewer[v].id
      /\ r.reset = viewer[v].reset /\ r.closed
  BY <1>2 DEF ViewerRecords
<1> HIDE DEF r
<1>4. /\ viewer' \in [Viewers -> ViewerRecords] /\ viewer'[v].closed
      /\ \A w \in Viewers : w # v => viewer'[w] = viewer[w]
      /\ \A w \in Viewers : /\ viewer'[w].pc = viewer[w].pc /\ viewer'[w].id = viewer[w].id
                            /\ viewer'[w].reset = viewer[w].reset
  BY <1>1, <1>2, <1>3
<1>5. stop' \in Stops /\ stop'.id = session /\ ~stop'.failed /\ stop'.pc = "off"
  BY StopIs DEF CloseByToken, VideoInv
<1>6. TypeOK'
  BY <1>1, <1>4, <1>5 DEF VideoInv, TypeOK, ViewerRecords, Steps, Stops, StopSteps, Device
<1>7. SUFFICES ASSUME ~overlap PROVE Undisturbed'
  BY <1>1, <1>6 DEF VideoInv
<1>8. Undisturbed
  BY <1>7 DEF VideoInv
<1>9. viewer[v].id # 0 /\ \A w \in Viewers : ~Serving(w)'
  BY <1>1, <1>4, <1>8 DEF Undisturbed, Owned, Serving, Starting
<1>10. Owned'
  BY <1>1, <1>4, <1>5, <1>8, <1>9 DEF Undisturbed, Owned
<1>11. ShutDown'
  BY <1>1, <1>4, <1>8, <1>9 DEF Undisturbed, ShutDown, Starting
<1>12. Closers' /\ ClosedSoFar'
  BY <1>1, <1>4, <1>8 DEF Undisturbed, Closers, ClosedSoFar
<1>13. Progress'
  BY <1>1, <1>4, <1>8, <1>9 DEF Undisturbed, Progress, Clean, Serving, Starting
<1>14. StopProgress' /\ Commands'
  BY <1>1, <1>4, <1>5, <1>8, <1>9 DEF Undisturbed, StopProgress, Commands, Clean, Off, Device
<1>15. Recorded'
  BY <1>1, <1>8 DEF Undisturbed, Recorded, Device
<1> QED BY <1>10, <1>11, <1>12, <1>13, <1>14, <1>15 DEF Undisturbed

-----------------------------------------------------------------------------
(* Who stops a session, and the shutdown.                                    *)

\* While a session is stopped nobody serves, so that only the stop acts.
LEMMA StopAlone ==
  ASSUME VideoInv, ~overlap, stop.pc # "idle"
  PROVE  /\ Undisturbed /\ session = stop.id /\ session # 0
         /\ \A w \in Viewers : ~Serving(w) /\ ~Starting(w) /\ closing[w].pc = "idle"
<1>1. Undisturbed
  BY DEF VideoInv
<1>2. session = stop.id /\ session # 0 /\ \A w \in Viewers : ~Serving(w)
  BY <1>1 DEF Undisturbed, Owned
<1> QED BY <1>1, <1>2 DEF Undisturbed, Serving, Starting, Closers

\* A stop goes on with its session.
LEMMA StopGoesOn ==
  ASSUME VideoInv, ~overlap, stop.pc # "idle",
         UNCHANGED <<session, nextId, viewer, shut, process, publisher, recordPath>>,
         stop'.pc # "idle", stop'.id = stop.id, stop'.last = stop.last
  PROVE  Owned' /\ ShutDown' /\ Progress'
<1>1. /\ Undisturbed /\ session = stop.id /\ session # 0
      /\ \A w \in Viewers : ~Serving(w) /\ ~Starting(w)
  BY StopAlone
<1>2. \A w \in Viewers : ~Serving(w)' /\ ~Starting(w)'
  BY <1>1 DEF Serving, Starting
<1>3. Owned'
  BY <1>1, <1>2 DEF Undisturbed, Owned
<1>4. ShutDown'
  BY <1>1, <1>2 DEF Undisturbed, ShutDown
<1>5. Progress'
  BY <1>1, <1>2 DEF Undisturbed, Progress, Starting, Serving
<1> QED BY <1>3, <1>4, <1>5

LEMMA OffFails ==
  ASSUME VideoConstants, TypeOK, OffFailed(stop.tries + 1)
  PROVE  /\ stop' \in Stops /\ stop'.id = stop.id /\ stop'.last = stop.last
         /\ closing' \in [Threads -> CloseRecords]
         /\ \/ stop'.pc = "off" /\ closing' = closing
            \/ /\ stop'.pc = "close" /\ stop'.failed /\ closing'["stop"].pc = "cancel"
               /\ \A u \in Threads : u # "stop" => closing'[u] = closing[u]
<1>1. stop \in Stops /\ stop.tries \in Nat /\ closing \in [Threads -> CloseRecords]
  BY TypesOf DEF Stops, Attempts
<1>2. CASE stop.tries + 1 < Attempts /\ stop' = [stop EXCEPT !.pc = "off", !.tries = stop.tries + 1] /\ closing' = closing
  <2>1. stop.tries + 1 \in 0..Attempts
    BY <1>1, <1>2 DEF Attempts
  <2> DEFINE n == stop.tries + 1
  <2> HIDE DEF n
  <2>2. stop' = [stop EXCEPT !.pc = "off", !.tries = n] /\ n \in 0..Attempts
    BY <1>2, <2>1 DEF n
  <2>3. /\ [stop EXCEPT !.pc = "off", !.tries = n] \in Stops
        /\ [stop EXCEPT !.pc = "off", !.tries = n].pc = "off"
        /\ [stop EXCEPT !.pc = "off", !.tries = n].id = stop.id
        /\ [stop EXCEPT !.pc = "off", !.tries = n].last = stop.last
    BY <1>1, <2>2 DEF Stops, StopSteps
  <2> QED BY <1>1, <1>2, <2>2, <2>3
<1>3. CASE /\ stop' = [stop EXCEPT !.pc = "close", !.failed = TRUE]
           /\ closing' = [closing EXCEPT !["stop"] = Calling]
  <2>1. /\ [stop EXCEPT !.pc = "close", !.failed = TRUE] \in Stops
        /\ [stop EXCEPT !.pc = "close", !.failed = TRUE].pc = "close"
        /\ [stop EXCEPT !.pc = "close", !.failed = TRUE].id = stop.id
        /\ [stop EXCEPT !.pc = "close", !.failed = TRUE].last = stop.last
        /\ [stop EXCEPT !.pc = "close", !.failed = TRUE].failed
    BY <1>1 DEF Stops, StopSteps
  <2> QED BY <1>3, <2>1, CloserIs, Records DEF Threads
<1> QED BY <1>2, <1>3 DEF OffFailed

LEMMA TurnOffStep ==
  ASSUME VideoConstants, VideoInv, TurnOff
  PROVE  VideoInv'
<1>1. /\ stop.pc = "off" /\ command = None
      /\ UNCHANGED <<session, nextId, viewer, shut, link, tuned, misread, recordPath,
                     process, publisher, rtmp, records, overlap, events>>
  BY DEF TurnOff, Quiet, converter
<1>2. /\ stop' \in Stops /\ stop'.id = stop.id /\ stop'.last = stop.last
      /\ closing' \in [Threads -> CloseRecords]
      /\ \/ stop'.pc = "off" /\ closing' = closing /\ UNCHANGED <<pipe, command>>
         \/ /\ stop'.pc = "close" /\ stop'.failed /\ closing'["stop"].pc = "cancel"
            /\ \A u \in Threads : u # "stop" => closing'[u] = closing[u]
            /\ UNCHANGED <<pipe, command>>
         \/ /\ stop'.pc = "offing" /\ closing' = closing
            /\ command' = "stop" /\ pipe' = Append(pipe, 0)
  <2>1. CASE OffFailed(stop.tries + 1) /\ UNCHANGED <<pipe, command>>
    BY <2>1, OffFails DEF VideoInv
  <2>2. CASE /\ command' = "stop" /\ pipe' = Append(pipe, 0)
             /\ stop' = [stop EXCEPT !.pc = "offing"] /\ UNCHANGED closing
    <3>1. "offing" \in StopSteps
      BY DEF StopSteps
    <3> QED BY <2>2, <3>1, StopGoes, TypesOf DEF VideoInv
  <2> QED BY <2>1, <2>2 DEF TurnOff
<1>3. pipe \in Seq(0..nextId) /\ 0 \in 0..nextId
  BY TypesOf DEF VideoInv, TypeOK
<1>4. pipe' \in Seq(0..nextId) /\ command' \in Viewers \cup {None, "stop"}
  BY <1>1, <1>2, <1>3, AppendedId
<1>5. TypeOK'
  BY <1>1, <1>2, <1>4 DEF VideoInv, TypeOK, Stops, StopSteps, CloseRecords
<1>6. SUFFICES ASSUME ~overlap PROVE Undisturbed'
  BY <1>1, <1>5 DEF VideoInv
<1>7. /\ Undisturbed /\ session = stop.id /\ session # 0
      /\ \A w \in Viewers : ~Serving(w) /\ ~Starting(w) /\ closing[w].pc = "idle"
  BY <1>1, <1>6, StopAlone
<1>8. Owned' /\ ShutDown' /\ Progress'
  BY <1>1, <1>2, <1>6, StopGoesOn
<1>9. closing["stop"].pc = "idle"
  BY <1>1, <1>7 DEF Undisturbed, Closers
<1>10. Closers' /\ ClosedSoFar'
  BY <1>1, <1>2, <1>7, <1>9 DEF Undisturbed, Closers, ClosedSoFar, Threads, VideoConstants
<1>11. StopProgress'
  BY <1>1, <1>2, <1>7 DEF StopProgress
<1>12. Commands'
  BY <1>1, <1>2, <1>3, <1>7, AppendedId DEF Undisturbed, Commands, VideoConstants
<1>13. Recorded'
  <2>1. \A i \in Sessions : (\A k \in 1..Len(pipe) : pipe[k] # i)
          => \A k \in 1..Len(pipe') : pipe'[k] # i
    BY <1>2, <1>3, AppendedId DEF Sessions
  <2> QED BY <1>1, <1>7, <2>1 DEF Undisturbed, Recorded
<1> QED BY <1>8, <1>10, <1>11, <1>12, <1>13 DEF Undisturbed

LEMMA StopClosedStep ==
  ASSUME VideoConstants, VideoInv, StopClosed
  PROVE  VideoInv'
<1> DEFINE again == stop.pc = "shutdown" /\ ~closing["stop"].ok
           pc == IF again THEN "close" ELSE "release"
           f == stop.failed \/ again
           r == [stop EXCEPT !.pc = pc, !.failed = f]
           c == IF again THEN Calling ELSE NoClose
<1>1. /\ stop.pc \in {"shutdown", "close"} /\ closing["stop"].pc = "done"
      /\ stop' = r /\ closing' = [closing EXCEPT !["stop"] = c]
      /\ UNCHANGED <<session, nextId, viewer, shut, Device, recordPath,
                     process, publisher, rtmp, records, overlap, events>>
  BY DEF StopClosed, Quiet, converter
<1>2. stop \in Stops /\ pc \in {"close", "release"} /\ f \in BOOLEAN /\ (pc = "close" <=> again)
  BY TypesOf DEF VideoInv
<1>3. c \in CloseRecords /\ (again => c.pc = "cancel") /\ (~again => c.pc = "idle")
  BY Records
<1>4. again => f
  OBVIOUS
<1>5. ~f => ~stop.failed /\ ~again
  OBVIOUS
<1>6. ~again => stop.pc = "close" \/ closing["stop"].ok
  BY <1>1
<1>6a. stop.failed => f
  OBVIOUS
<1> HIDE DEF again, pc, f, c
<1>7. r \in Stops /\ r.pc = pc /\ r.id = stop.id /\ (r.failed <=> f) /\ r.last = stop.last
  BY <1>2 DEF Stops, StopSteps
<1> HIDE DEF r
<1>8. /\ stop' \in Stops /\ closing' \in [Threads -> CloseRecords] /\ closing'["stop"] = c
      /\ \A u \in Threads : u # "stop" => closing'[u] = closing[u]
  BY <1>1, <1>3, <1>7, CloserIs DEF VideoInv, Threads
<1>9. TypeOK'
  BY <1>1, <1>8 DEF VideoInv, TypeOK, Stops, StopSteps, CloseRecords, Device
<1>10. SUFFICES ASSUME ~overlap PROVE Undisturbed'
  BY <1>1, <1>9 DEF VideoInv
<1>11. /\ Undisturbed /\ session = stop.id /\ session # 0
       /\ \A w \in Viewers : ~Serving(w) /\ ~Starting(w) /\ closing[w].pc = "idle"
  BY <1>1, <1>10, StopAlone
<1>12. Owned' /\ ShutDown' /\ Progress'
  BY <1>1, <1>2, <1>7, <1>10, StopGoesOn
<1>13. Closers' /\ ClosedSoFar'
  BY <1>1, <1>2, <1>3, <1>7, <1>8, <1>11 DEF Undisturbed, Closers, ClosedSoFar, Threads, VideoConstants
<1>14. StopProgress'
  <2>1. Clean
    BY <1>1, <1>11 DEF Undisturbed, ClosedSoFar, Clean, Threads
  <2>2. ~f => stop.pc = "shutdown" /\ process = None /\ Off
    BY <1>1, <1>5, <1>6, <1>6a, <1>11 DEF Undisturbed, ClosedSoFar, StopProgress, Threads
  <2>3. Clean' /\ (Off => Off')
    BY <1>1, <2>1 DEF Clean, Off, Device
  <2> QED BY <1>1, <1>2, <1>4, <1>7, <1>11, <2>2, <2>3 DEF StopProgress
<1>15. Commands'
  BY <1>1, <1>7, <1>11 DEF Undisturbed, Commands, Device
<1>16. Recorded'
  BY <1>1, <1>11 DEF Undisturbed, Recorded, Device
<1> QED BY <1>12, <1>13, <1>14, <1>15, <1>16 DEF Undisturbed

LEMMA ReleaseStep ==
  ASSUME VideoConstants, VideoInv, Release
  PROVE  VideoInv'
<1>1. /\ stop.pc = "release" /\ session' = 0 /\ stop' = NoStop
      /\ UNCHANGED <<nextId, viewer, shut, closing, Device, recordPath,
                     process, publisher, rtmp, overlap, events>>
  BY DEF Release, Quiet, converter
<1>2. PICK o \in Outcomes(stop.id) : records' = [records EXCEPT ![stop.id] = o]
  BY DEF Release
<1>3. o \in {"ready", "failed"} /\ (o = "ready" => ~stop.failed /\ recordPath = stop.id)
  BY DEF Outcomes
<1>4. NoStop \in Stops /\ nextId \in Nat /\ stop.id \in 0..nextId
  BY Records, TypesOf DEF VideoInv, Stops
<1>5. /\ records' \in [Sessions -> {"none", "ready", "failed"}]
      /\ \A i \in Sessions : i # stop.id => records'[i] = records[i]
      /\ stop.id \in Sessions => records'[stop.id] = o
  BY <1>2, <1>3 DEF VideoInv, TypeOK
<1>6. TypeOK'
  BY <1>1, <1>4, <1>5 DEF VideoInv, TypeOK, Stops, StopSteps, Device
<1>7. SUFFICES ASSUME ~overlap PROVE Undisturbed'
  BY <1>1, <1>6 DEF VideoInv
<1>8. /\ Undisturbed /\ session = stop.id /\ session # 0
      /\ \A w \in Viewers : ~Serving(w) /\ ~Starting(w) /\ closing[w].pc = "idle"
  BY <1>1, <1>7, StopAlone
<1>9. NoStop.pc = "idle"
  BY Records
<1>10. \A w \in Viewers : ~Serving(w)' /\ ~Starting(w)'
  BY <1>1, <1>8 DEF Serving, Starting
<1>11. Owned' /\ ShutDown'
  BY <1>1, <1>8, <1>9, <1>10 DEF Undisturbed, Owned, ShutDown
<1>12. Closers' /\ ClosedSoFar'
  BY <1>1, <1>8 DEF Undisturbed, Closers, ClosedSoFar
<1>13. Progress'
  BY <1>1, <1>8, <1>10 DEF Undisturbed, Progress, Starting, Serving
<1>14. StopProgress'
  BY <1>1, <1>8, <1>9 DEF Undisturbed, StopProgress, Clean
<1>15. Commands'
  BY <1>1, <1>8 DEF Undisturbed, Commands, Device
<1>16. Recorded'
  <2> SUFFICES ASSUME NEW i \in Sessions, records'[i] = "ready"
               PROVE  /\ i <= nextId /\ i # 0
                      /\ process # None => process.path # i
                      /\ ~misread => tuned # i /\ \A k \in 1..Len(pipe) : pipe[k] # i
    BY <1>1 DEF Recorded, Device
  <2>1. CASE i # stop.id
    BY <1>5, <1>8, <2>1 DEF Undisturbed, Recorded, Sessions
  <2>2. CASE i = stop.id
    <3>1. process = None /\ Off
      BY <1>1, <1>3, <1>5, <1>8, <2>2 DEF Undisturbed, StopProgress
    <3>2. i # 0 /\ i <= nextId
      BY <1>4, <1>8, <2>2
    <3> QED BY <3>1, <3>2 DEF Off
  <2> QED BY <2>1, <2>2
<1> QED BY <1>11, <1>12, <1>13, <1>14, <1>15, <1>16 DEF Undisturbed

LEMMA BeginShutdownStep ==
  ASSUME VideoConstants, VideoInv, BeginShutdown
  PROVE  VideoInv'
<1>1. /\ shut = "no" /\ stop.pc = "idle" /\ shut' = "stopping" /\ events' \in 0..MaxEvents
      /\ UNCHANGED <<session, nextId, viewer, closing, Device, recordPath,
                     process, publisher, rtmp, records>>
  BY DEF BeginShutdown, Event, converter, VideoInv, TypeOK, VideoConstants
<1>2. overlap' \in BOOLEAN /\ (overlap' <=> overlap \/ \E v \in Viewers : Starting(v))
  BY DEF BeginShutdown
<1>3. stop' \in Stops /\ \/ session = 0 /\ stop' = stop
                         \/ session # 0 /\ stop'.pc = "off" /\ stop'.id = session /\ stop'.last
  <2>1. CASE session = 0
    BY <2>1, TypesOf DEF BeginShutdown, VideoInv
  <2>2. CASE session # 0
    <3>1. stop' = [NoStop EXCEPT !.pc = "off", !.id = session, !.last = TRUE]
      BY <2>2 DEF BeginShutdown
    <3>2. NoStop \in Stops /\ session \in 0..nextId
      BY Records, TypesOf DEF VideoInv
    <3>3. /\ [NoStop EXCEPT !.pc = "off", !.id = session, !.last = TRUE] \in Stops
          /\ [NoStop EXCEPT !.pc = "off", !.id = session, !.last = TRUE].pc = "off"
          /\ [NoStop EXCEPT !.pc = "off", !.id = session, !.last = TRUE].id = session
          /\ [NoStop EXCEPT !.pc = "off", !.id = session, !.last = TRUE].last
      BY <3>2 DEF Stops, StopSteps
    <3> QED BY <2>2, <3>1, <3>3
  <2> QED BY <2>1, <2>2
<1>4. TypeOK'
  BY <1>1, <1>2, <1>3 DEF VideoInv, TypeOK, Stops, StopSteps, Device
<1>5. SUFFICES ASSUME ~overlap' PROVE Undisturbed'
  BY <1>1, <1>4 DEF VideoInv
<1>6. Undisturbed /\ \A w \in Viewers : ~Starting(w)
  BY <1>2, <1>5 DEF VideoInv
<1>7. \A w \in Viewers : ~Serving(w)' /\ ~Starting(w)'
  BY <1>1, <1>6 DEF Serving, Starting
<1>8. Owned' /\ ShutDown'
  BY <1>1, <1>3, <1>6, <1>7 DEF Undisturbed, Owned, ShutDown
<1>9. Closers' /\ ClosedSoFar'
  BY <1>1, <1>6 DEF Undisturbed, Closers, ClosedSoFar
<1>10. Progress'
  BY <1>1, <1>6, <1>7 DEF Undisturbed, Progress, Starting
<1>11. StopProgress' /\ Commands'
  BY <1>1, <1>3, <1>6 DEF Undisturbed, StopProgress, Commands, Clean, Device
<1>12. Recorded'
  BY <1>1, <1>6 DEF Undisturbed, Recorded, Device
<1> QED BY <1>8, <1>9, <1>10, <1>11, <1>12 DEF Undisturbed

LEMMA ShutdownClosesStep ==
  ASSUME VideoConstants, VideoInv, ShutdownCloses
  PROVE  VideoInv'
<1>1. UNCHANGED <<session, nextId, viewer, stop, Device, recordPath,
                  process, publisher, rtmp, records, overlap, events>>
  BY DEF ShutdownCloses, Quiet, converter
<1>2. /\ closing' \in [Threads -> CloseRecords]
      /\ \A u \in Threads : u # "shutdown" => closing'[u] = closing[u]
      /\ \/ shut = "stopping" /\ ~stop.last /\ shut' = "closing" /\ closing'["shutdown"].pc = "cancel"
         \/ shut = "closing" /\ shut' = "closed" /\ closing'["shutdown"].pc = "idle"
  <2>1. CASE /\ shut = "stopping" /\ ~stop.last /\ shut' = "closing"
             /\ closing' = [closing EXCEPT !["shutdown"] = Calling]
    BY <2>1, CloserIs, Records DEF VideoInv, Threads
  <2>2. CASE /\ shut = "closing" /\ shut' = "closed"
             /\ closing' = [closing EXCEPT !["shutdown"] = NoClose]
    BY <2>2, CloserIs, Records DEF VideoInv, Threads
  <2> QED BY <2>1, <2>2 DEF ShutdownCloses
<1>3. TypeOK'
  BY <1>1, <1>2 DEF VideoInv, TypeOK, CloseRecords, Device
<1>4. SUFFICES ASSUME ~overlap PROVE Undisturbed'
  BY <1>1, <1>2, <1>3 DEF VideoInv
<1>5. Undisturbed
  BY <1>4 DEF VideoInv
<1>6. \A w \in Viewers : ~Serving(w)' /\ ~Starting(w)' /\ ~Starting(w)
  BY <1>1, <1>2, <1>5 DEF Undisturbed, ShutDown, Serving, Starting
<1>7. session = 0
  BY <1>2, <1>5 DEF Undisturbed, ShutDown
<1>8. Owned' /\ ShutDown'
  BY <1>1, <1>5, <1>6, <1>7 DEF Undisturbed, Owned, ShutDown
<1>9. Closers' /\ ClosedSoFar'
  BY <1>1, <1>2, <1>5 DEF Undisturbed, Closers, ClosedSoFar, Threads, VideoConstants
<1>10. Progress'
  BY <1>1, <1>5, <1>6 DEF Undisturbed, Progress, Starting
<1>11. StopProgress' /\ Commands'
  BY <1>1, <1>5 DEF Undisturbed, StopProgress, Commands, Clean, Device, Off
<1>12. Recorded'
  BY <1>1, <1>5 DEF Undisturbed, Recorded, Device
<1> QED BY <1>8, <1>9, <1>10, <1>11, <1>12 DEF Undisturbed

-----------------------------------------------------------------------------
(* The device.                                                               *)

LEMMA TuneAnsweredTypes ==
  ASSUME VideoConstants, TypeOK, NEW v \in Viewers, NEW ok \in BOOLEAN, TuneAnswered(v, ok)
  PROVE  /\ viewer' \in [Viewers -> ViewerRecords]
         /\ \A w \in Viewers : w # v => viewer'[w] = viewer[w]
         /\ viewer'[v].pc = IF ok THEN "restart" ELSE "leave"
         /\ viewer'[v].reset = ok
         /\ viewer'[v].id = viewer[v].id
         /\ recordPath' = IF ok THEN viewer[v].id ELSE recordPath
         /\ recordPath' \in 0..nextId
         /\ closing' \in [Threads -> CloseRecords]
         /\ \A u \in Threads : u # v => closing'[u] = closing[u]
         /\ IF ok THEN closing'[v].pc = "cancel" ELSE closing'[v] = closing[v]
<1> DEFINE pc == IF ok THEN "restart" ELSE "leave"
           one == [viewer EXCEPT ![v].pc = pc]
<1>1. viewer' = [one EXCEPT ![v].reset = ok]
  BY DEF TuneAnswered
<1>2. viewer \in [Viewers -> ViewerRecords] /\ viewer[v] \in ViewerRecords
  BY TypesOf
<1>3. pc \in Steps
  BY DEF Steps
<1> DEFINE r == [viewer[v] EXCEPT !.pc = pc]
<1>4. one = [viewer EXCEPT ![v] = r]
  OBVIOUS
<1>5. r \in ViewerRecords /\ r.pc = pc /\ r.id = viewer[v].id
  BY <1>2, <1>3 DEF ViewerRecords
<1> HIDE DEF r
<1>6. /\ one \in [Viewers -> ViewerRecords] /\ one[v] = r
      /\ \A w \in Viewers : w # v => one[w] = viewer[w]
  BY <1>2, <1>4, <1>5
<1> HIDE DEF one
<1> DEFINE q == [one[v] EXCEPT !.reset = ok]
<1>7. viewer' = [one EXCEPT ![v] = q]
  BY <1>1
<1>8. q \in ViewerRecords /\ q.pc = pc /\ q.reset = ok /\ q.id = viewer[v].id
  BY <1>5, <1>6 DEF ViewerRecords
<1> HIDE DEF q
<1>9. /\ viewer' \in [Viewers -> ViewerRecords] /\ viewer'[v] = q
      /\ \A w \in Viewers : w # v => viewer'[w] = viewer[w]
  BY <1>6, <1>7, <1>8
<1>10. recordPath' = (IF ok THEN viewer[v].id ELSE recordPath)
  BY DEF TuneAnswered
<1>11. recordPath' \in 0..nextId
  BY <1>2, <1>10 DEF ViewerRecords, TypeOK
<1>12. /\ closing' \in [Threads -> CloseRecords]
       /\ \A u \in Threads : u # v => closing'[u] = closing[u]
       /\ IF ok THEN closing'[v].pc = "cancel" ELSE closing'[v] = closing[v]
  <2>1. CASE ok
    BY <2>1, CloserIs, Records DEF TuneAnswered, Threads
  <2>2. CASE ~ok
    BY <2>2, TypesOf DEF TuneAnswered
  <2> QED BY <2>1, <2>2
<1> QED BY <1>8, <1>9, <1>10, <1>11, <1>12

\* What an answer, or its absence, means for whoever waited.
LEMMA AnsweredStep ==
  ASSUME VideoConstants, VideoInv, NEW ok \in BOOLEAN, Answered(ok),
         UNCHANGED <<session, nextId, shut, process, publisher, rtmp, records, overlap>>
  PROVE  /\ viewer' \in [Viewers -> ViewerRecords] /\ stop' \in Stops
         /\ closing' \in [Threads -> CloseRecords] /\ recordPath' \in 0..nextId
         /\ ~overlap =>
              /\ Owned' /\ ShutDown' /\ Closers' /\ ClosedSoFar' /\ Progress'
              /\ \/ stop' = stop /\ (recordPath' = recordPath \/ stop.pc = "idle")
                 \/ stop.pc = "offing" /\ stop'.pc \in {"off", "close"}
                      /\ (stop'.pc = "close" => stop'.failed)
                 \/ stop.pc = "offing" /\ ok /\ command = "stop" /\ stop'.pc = "shutdown"
<1>1. CASE UNCHANGED <<viewer, stop, closing, recordPath>>
  <2>1. /\ viewer' \in [Viewers -> ViewerRecords] /\ stop' \in Stops
        /\ closing' \in [Threads -> CloseRecords] /\ recordPath' \in 0..nextId
    BY <1>1, TypesOf DEF VideoInv, TypeOK
  <2>2. ~overlap => Owned' /\ ShutDown' /\ Closers' /\ ClosedSoFar' /\ Progress'
    BY <1>1 DEF VideoInv, Undisturbed, Owned, ShutDown, Closers, ClosedSoFar, Progress,
                Serving, Starting, Clean
  <2> QED BY <1>1, <2>1, <2>2
<1>2. CASE command = "stop" /\ OffAnswered(ok)
  <2>1. UNCHANGED <<viewer, recordPath>>
    BY <1>2 DEF OffAnswered
  <2>2. /\ stop' \in Stops /\ stop'.id = stop.id /\ stop'.last = stop.last
        /\ closing' \in [Threads -> CloseRecords]
        /\ \/ stop'.pc = "off" /\ closing' = closing
           \/ /\ stop'.pc = "close" /\ stop'.failed /\ closing'["stop"].pc = "cancel"
              /\ \A u \in Threads : u # "stop" => closing'[u] = closing[u]
           \/ /\ stop'.pc = "shutdown" /\ ok /\ closing'["stop"].pc = "cancel"
              /\ \A u \in Threads : u # "stop" => closing'[u] = closing[u]
    <3>1. CASE ok
      <4>1. stop' = [stop EXCEPT !.pc = "shutdown"] /\ closing' = [closing EXCEPT !["stop"] = Calling]
        BY <1>2, <3>1 DEF OffAnswered
      <4>2. "shutdown" \in StopSteps
        BY DEF StopSteps
      <4> QED BY <3>1, <4>1, <4>2, StopGoes, CloserIs, Records DEF VideoInv, Threads
    <3>2. CASE ~ok
      BY <1>2, <3>2, OffFails DEF OffAnswered, VideoInv
    <3> QED BY <3>1, <3>2
  <2>3. /\ viewer' \in [Viewers -> ViewerRecords] /\ recordPath' \in 0..nextId
    BY <2>1, TypesOf DEF VideoInv, TypeOK
  <2>4. ASSUME ~overlap
        PROVE  Owned' /\ ShutDown' /\ Closers' /\ ClosedSoFar' /\ Progress' /\ stop.pc = "offing"
    <3>1. Undisturbed /\ stop.pc = "offing"
      BY <1>2, <2>4 DEF VideoInv, Undisturbed, Commands
    <3>2. Owned' /\ ShutDown' /\ Progress'
      BY <2>1, <2>2, <2>4, <3>1, StopGoesOn
    <3>3. closing["stop"].pc = "idle" /\ \A w \in Viewers : closing[w].pc = "idle"
      BY <2>4, <3>1, StopAlone DEF Undisturbed, Closers
    <3>4. Closers' /\ ClosedSoFar'
      BY <2>1, <2>2, <3>1, <3>3 DEF Undisturbed, Closers, ClosedSoFar, Threads, VideoConstants
    <3> QED BY <3>1, <3>2, <3>4
  <2> QED BY <1>2, <2>2, <2>3, <2>4
<1>3. ASSUME NEW v \in Viewers, command = v, TuneAnswered(v, ok)
      PROVE  /\ viewer' \in [Viewers -> ViewerRecords] /\ stop' \in Stops
             /\ closing' \in [Threads -> CloseRecords] /\ recordPath' \in 0..nextId
             /\ ~overlap =>
                  /\ Owned' /\ ShutDown' /\ Closers' /\ ClosedSoFar' /\ Progress'
                  /\ stop' = stop /\ stop.pc = "idle"
  <2>1. /\ viewer' \in [Viewers -> ViewerRecords]
        /\ \A w \in Viewers : w # v => viewer'[w] = viewer[w]
        /\ viewer'[v].pc = (IF ok THEN "restart" ELSE "leave")
        /\ viewer'[v].reset = ok
        /\ viewer'[v].id = viewer[v].id
        /\ recordPath' = (IF ok THEN viewer[v].id ELSE recordPath)
        /\ recordPath' \in 0..nextId
        /\ closing' \in [Threads -> CloseRecords]
        /\ \A u \in Threads : u # v => closing'[u] = closing[u]
        /\ IF ok THEN closing'[v].pc = "cancel" ELSE closing'[v] = closing[v]
    BY <1>3, TuneAnsweredTypes DEF VideoInv
  <2>2. stop' = stop /\ stop' \in Stops
    BY <1>3, TypesOf DEF TuneAnswered, VideoInv
  <2>3. ASSUME ~overlap
        PROVE  Owned' /\ ShutDown' /\ Closers' /\ ClosedSoFar' /\ Progress' /\ stop.pc = "idle"
    <3>1. Undisturbed /\ viewer[v].pc = "tuning"
      BY <1>3, <2>3 DEF VideoInv, Undisturbed, Commands
    <3>2. Starting(v)
      BY <3>1 DEF Starting
    <3>3. /\ Owned' /\ ShutDown' /\ shut = "no" /\ stop.pc = "idle" /\ session = viewer[v].id
          /\ session # 0
          /\ \A w \in Viewers : w # v => ~Serving(w) /\ ~Serving(w)' /\ ~Starting(w) /\ ~Starting(w)'
      BY <2>1, <2>2, <2>3, <3>2, StartingGoes
    <3>4. \A t \in Threads : closing[t].pc = "idle"
      BY <3>1, <3>3 DEF Undisturbed, Closers, Starting, Threads
    <3>5. Closers'
      BY <2>1, <3>4 DEF Closers, Threads, VideoConstants
    <3>6. ClosedSoFar'
      BY <2>1, <3>4 DEF ClosedSoFar
    <3>7. Clean /\ recordPath # viewer[v].id
      BY <3>1, <3>2 DEF Undisturbed, Progress
    <3>8. Progress'
      <4>1. \A w \in Viewers : w # v =>
              /\ viewer'[w].pc \in {"restart", "start", "wait", "unreachable", "stream"} => viewer'[w].reset
              /\ viewer'[w].pc \in {"idle", "stream"}
        BY <2>1, <3>1, <3>3 DEF Undisturbed, Progress, Starting
      <4>2. Clean'
        BY <3>7 DEF Clean
      <4>3. CASE ok
        BY <2>1, <3>3, <4>1, <4>3 DEF Progress, Starting
      <4>4. CASE ~ok
        BY <2>1, <3>3, <3>7, <4>1, <4>2, <4>4 DEF Progress, Starting
      <4> QED BY <4>3, <4>4
    <3> QED BY <3>3, <3>5, <3>6, <3>8
  <2> QED BY <2>1, <2>2, <2>3
<1>4. Answered(ok) => \/ UNCHANGED <<viewer, stop, closing, recordPath>>
                      \/ command = "stop" /\ OffAnswered(ok)
                      \/ \E v \in Viewers : command = v /\ TuneAnswered(v, ok)
  BY DEF Answered
<1> QED BY <1>1, <1>2, <1>3, <1>4

LEMMA Elements == \A S, s : s \in Seq(S) => \A k \in 1..Len(s) : s[k] \in S
OBVIOUS

LEMMA Shortened ==
  ASSUME NEW S, NEW s \in Seq(S), s # <<>>
  PROVE  /\ Tail(s) \in Seq(S) /\ Len(Tail(s)) = Len(s) - 1 /\ Len(s) \in Nat \ {0}
         /\ Head(s) = s[1] /\ s[1] \in S
         /\ \A k \in 1..Len(Tail(s)) : Tail(s)[k] = s[k + 1]
         /\ Len(s) = 1 => Tail(s) = <<>>
<1>1. Len(s) \in Nat \ {0}
  OBVIOUS
<1>2. Tail(s) \in Seq(S) /\ Len(Tail(s)) = Len(s) - 1 /\ Head(s) = s[1] /\ s[1] \in S
  BY <1>1
<1>3. \A k \in 1..Len(Tail(s)) : Tail(s)[k] = s[k + 1]
  BY <1>1
<1>4. \A t \in Seq(S) : Len(t) = 0 => t = <<>>
  OBVIOUS
<1> QED BY <1>1, <1>2, <1>3, <1>4

LEMMA AnswerStep ==
  ASSUME VideoConstants, VideoInv, NEW ok \in BOOLEAN, Answer(ok)
  PROVE  VideoInv'
<1>1. /\ pipe # <<>> /\ pipe' = Tail(pipe) /\ tuned' = (IF ok THEN Head(pipe) ELSE tuned)
      /\ command' = None /\ Answered(ok) /\ events' \in 0..MaxEvents
      /\ UNCHANGED <<session, nextId, shut, link, process, publisher, rtmp, records, overlap>>
  BY DEF Answer, Quiet, Event, converter, VideoInv, TypeOK, VideoConstants
<1>2. misread' \in BOOLEAN /\ (misread' <=> misread \/ (command # None /\ Len(pipe) > 1))
  BY DEF Answer
<1>3. pipe \in Seq(0..nextId) /\ tuned \in 0..nextId
  BY DEF VideoInv, TypeOK
<1>4. /\ pipe' \in Seq(0..nextId) /\ Len(pipe) \in Nat \ {0} /\ Len(pipe') = Len(pipe) - 1
      /\ \A k \in 1..Len(pipe') : pipe'[k] = pipe[k + 1]
      /\ Head(pipe) = pipe[1] /\ pipe[1] \in 0..nextId
      /\ Len(pipe) = 1 => pipe' = <<>>
  BY <1>1, <1>3, Shortened
<1>5. tuned' \in 0..nextId
  BY <1>1, <1>3, <1>4
<1>6. /\ viewer' \in [Viewers -> ViewerRecords] /\ stop' \in Stops
      /\ closing' \in [Threads -> CloseRecords] /\ recordPath' \in 0..nextId
      /\ ~overlap =>
           /\ Owned' /\ ShutDown' /\ Closers' /\ ClosedSoFar' /\ Progress'
           /\ \/ stop' = stop /\ (recordPath' = recordPath \/ stop.pc = "idle")
              \/ stop.pc = "offing" /\ stop'.pc \in {"off", "close"}
                   /\ (stop'.pc = "close" => stop'.failed)
              \/ stop.pc = "offing" /\ ok /\ command = "stop" /\ stop'.pc = "shutdown"
  BY <1>1, AnsweredStep
<1>7. TypeOK'
  BY <1>1, <1>2, <1>4, <1>5, <1>6 DEF VideoInv, TypeOK, ViewerRecords, Steps, Stops, StopSteps, CloseRecords
<1>8. SUFFICES ASSUME ~overlap PROVE Undisturbed'
  BY <1>1, <1>7 DEF VideoInv
<1>9. Undisturbed
  BY <1>8 DEF VideoInv
<1>10. StopProgress'
  <2>1. Clean <=> Clean'
    BY <1>1 DEF Clean
  <2>2. CASE stop' = stop /\ (recordPath' = recordPath \/ stop.pc = "idle")
    <3>1. Off => Off' 
      BY <1>1, <1>2 DEF Off
    <3> QED BY <1>1, <1>9, <2>1, <2>2, <3>1 DEF Undisturbed, StopProgress
  <2>3. CASE stop.pc = "offing" /\ stop'.pc \in {"off", "close"}
                   /\ (stop'.pc = "close" => stop'.failed)
    BY <1>1, <1>9, <2>1, <2>3 DEF Undisturbed, StopProgress, Owned
  <2>4. CASE stop.pc = "offing" /\ ok /\ command = "stop" /\ stop'.pc = "shutdown"
    <3>1. ASSUME ~misread' PROVE pipe' = <<>> /\ tuned' = 0
      <4>1. command # None
        BY <2>4 DEF VideoConstants
      <4>2. Len(pipe) = 1
        BY <1>2, <1>4, <3>1, <4>1
      <4>3. pipe[1] = 0
        BY <1>1, <1>9, <2>4, <4>2 DEF Undisturbed, Commands
      <4> QED BY <1>1, <1>4, <2>4, <4>2, <4>3
    <3> QED BY <1>1, <1>9, <2>1, <2>4, <3>1 DEF Undisturbed, StopProgress, Off, Owned
  <2> QED BY <1>6, <1>8, <2>2, <2>3, <2>4
<1>11. Commands'
  BY <1>1 DEF Commands, VideoConstants
<1>12. Recorded'
  <2>1. \A i \in Sessions : (\A k \in 1..Len(pipe) : pipe[k] # i) /\ tuned # i
          => (\A k \in 1..Len(pipe') : pipe'[k] # i) /\ tuned' # i
    BY <1>1, <1>4
  <2> QED BY <1>1, <1>2, <1>9, <2>1 DEF Undisturbed, Recorded
<1> QED BY <1>6, <1>8, <1>10, <1>11, <1>12 DEF Undisturbed

LEMMA TimeoutStep ==
  ASSUME VideoConstants, VideoInv, Timeout
  PROVE  VideoInv'
<1>0. events' \in 0..MaxEvents
  <2>1. Quiet \/ Event
    BY DEF Timeout
  <2> QED BY <2>1 DEF Quiet, Event, VideoInv, TypeOK, VideoConstants
<1>1. /\ command' = None /\ Answered(FALSE) /\ events' \in 0..MaxEvents
      /\ UNCHANGED <<session, nextId, shut, link, pipe, tuned, misread, process, publisher,
                     rtmp, records, overlap>>
  BY <1>0 DEF Timeout, converter
<1>2. /\ viewer' \in [Viewers -> ViewerRecords] /\ stop' \in Stops
      /\ closing' \in [Threads -> CloseRecords] /\ recordPath' \in 0..nextId
      /\ ~overlap =>
           /\ Owned' /\ ShutDown' /\ Closers' /\ ClosedSoFar' /\ Progress'
           /\ \/ stop' = stop /\ (recordPath' = recordPath \/ stop.pc = "idle")
              \/ stop.pc = "offing" /\ stop'.pc \in {"off", "close"}
                   /\ (stop'.pc = "close" => stop'.failed)
  BY <1>1, AnsweredStep
<1>3. TypeOK'
  BY <1>1, <1>2 DEF VideoInv, TypeOK, ViewerRecords, Steps, Stops, StopSteps, CloseRecords
<1>4. SUFFICES ASSUME ~overlap PROVE Undisturbed'
  BY <1>1, <1>3 DEF VideoInv
<1>5. Undisturbed
  BY <1>4 DEF VideoInv
<1>6. StopProgress'
  <2>1. (Clean <=> Clean') /\ (Off <=> Off')
    BY <1>1 DEF Clean, Off
  <2> QED BY <1>1, <1>2, <1>4, <1>5, <2>1 DEF Undisturbed, StopProgress, Owned
<1>7. Commands' /\ Recorded'
  BY <1>1, <1>5 DEF Undisturbed, Commands, Recorded, VideoConstants
<1> QED BY <1>2, <1>4, <1>6, <1>7 DEF Undisturbed

LEMMA LinkStep ==
  ASSUME VideoConstants, VideoInv, Disconnects \/ Connects
  PROVE  VideoInv'
<1>1. /\ link' \in BOOLEAN /\ events' \in 0..MaxEvents /\ (pipe' = pipe \/ pipe' = <<>>)
      /\ tuned' = tuned \/ \E k \in 1..Len(pipe) : tuned' = pipe[k]
      /\ UNCHANGED <<Served, closing, command, misread, process, publisher>>
  <2>1. CASE Disconnects
    <3>1. PICK k \in 0..Len(pipe) : tuned' = IF k = 0 THEN tuned ELSE pipe[k]
      BY <2>1 DEF Disconnects
    <3>2. pipe \in Seq(0..nextId)
      BY DEF VideoInv, TypeOK
    <3>3. tuned' = tuned \/ \E j \in 1..Len(pipe) : tuned' = pipe[j]
      BY <3>1, <3>2
    <3>4. link' \in BOOLEAN /\ pipe' = <<>> /\ UNCHANGED <<Served, closing, command, misread, process, publisher>>
      BY <2>1 DEF Disconnects, converter
    <3>5. events' \in 0..MaxEvents
      BY <2>1 DEF Disconnects, Event, VideoInv, TypeOK, VideoConstants
    <3> QED BY <3>3, <3>4, <3>5
  <2>2. CASE Connects
    BY <2>2 DEF Connects, Quiet, converter, VideoInv, TypeOK
  <2> QED BY <2>1, <2>2
<1>2. pipe \in Seq(0..nextId) /\ tuned \in 0..nextId
  BY DEF VideoInv, TypeOK
<1>3. pipe' \in Seq(0..nextId) /\ tuned' \in 0..nextId
  <2>1. \A k \in 1..Len(pipe) : pipe[k] \in 0..nextId
    BY <1>2, Elements
  <2>2. <<>> \in Seq(0..nextId)
    OBVIOUS
  <2> QED BY <1>1, <1>2, <2>1, <2>2
<1>4. TypeOK'
  BY <1>1, <1>3 DEF VideoInv, TypeOK, Served
<1>5. SUFFICES ASSUME ~overlap PROVE Undisturbed'
  BY <1>1, <1>4 DEF VideoInv, Served
<1>6. Undisturbed
  BY <1>5 DEF VideoInv
<1>7. Owned' /\ ShutDown' /\ Closers' /\ ClosedSoFar' /\ Progress'
  BY <1>1, <1>6 DEF Undisturbed, Served, Owned, ShutDown, Closers, ClosedSoFar, Progress, Serving, Starting, Clean
<1>8. StopProgress'
  <2>1. (Clean <=> Clean')
    BY <1>1 DEF Clean
  <2>2. Off => Off'
    <3>1. pipe = <<>> => Len(pipe) = 0
      BY <1>2
    <3> QED BY <1>1, <3>1 DEF Off
  <2> QED BY <1>1, <1>6, <2>1, <2>2 DEF Undisturbed, StopProgress, Served
<1>9. Commands'
  BY <1>1, <1>6 DEF Undisturbed, Commands, Served
<1>10. Recorded'
  <2>1. <<>>' = <<>> /\ Len(<<>>) = 0
    OBVIOUS
  <2>2. \A i \in Sessions : (\A k \in 1..Len(pipe) : pipe[k] # i) /\ tuned # i
          => (\A k \in 1..Len(pipe') : pipe'[k] # i) /\ tuned' # i
    BY <1>1, <1>2, <2>1
  <2> QED BY <1>1, <1>6, <2>2 DEF Undisturbed, Recorded, Served
<1> QED BY <1>7, <1>8, <1>9, <1>10 DEF Undisturbed

LEMMA SetRTMPStep ==
  ASSUME VideoConstants, VideoInv, SetRTMP
  PROVE  VideoInv'
<1>1. /\ rtmp' \in BOOLEAN /\ events' \in 0..MaxEvents
      /\ UNCHANGED <<session, nextId, viewer, stop, shut, closing, Device, recordPath,
                     process, publisher, records, overlap>>
  BY DEF SetRTMP, Event, converter, VideoInv, TypeOK, VideoConstants
<1>2. TypeOK'
  BY <1>1 DEF VideoInv, TypeOK, Device
<1>3. SUFFICES ASSUME ~overlap PROVE Undisturbed'
  BY <1>1, <1>2 DEF VideoInv
<1>4. Owned' /\ ShutDown' /\ Closers' /\ ClosedSoFar' /\ Progress'
  BY <1>1, <1>3 DEF VideoInv, Undisturbed, Owned, ShutDown, Closers, ClosedSoFar, Progress, Serving, Starting, Clean
<1>5. StopProgress' /\ Commands' /\ Recorded'
  BY <1>1, <1>3 DEF VideoInv, Undisturbed, StopProgress, Commands, Recorded, Clean, Off, Device
<1> QED BY <1>4, <1>5 DEF Undisturbed

-----------------------------------------------------------------------------
LEMMA VideoStep ==
  ASSUME VideoConstants, VideoInv, [Next]_vars
  PROVE  VideoInv'
<1>1. CASE UNCHANGED vars
  <2>1. TypeOK'
    BY <1>1 DEF vars, VideoInv, TypeOK
  <2>2. Undisturbed => Undisturbed'
    <3>1. Owned' = Owned /\ ShutDown' = ShutDown
      BY <1>1 DEF vars, Owned, ShutDown, Serving, Starting
    <3>2. Closers' = Closers /\ ClosedSoFar' = ClosedSoFar
      BY <1>1 DEF vars, Closers, ClosedSoFar
    <3>3. Progress' = Progress
      BY <1>1 DEF vars, Progress, Serving, Starting, Clean
    <3>4. StopProgress' = StopProgress /\ Commands' = Commands /\ Recorded' = Recorded
      BY <1>1 DEF vars, StopProgress, Commands, Recorded, Clean, Off
    <3> QED BY <3>1, <3>2, <3>3, <3>4 DEF Undisturbed
  <2> QED BY <1>1, <2>1, <2>2 DEF vars, VideoInv
<1>2. ASSUME NEW t \in Threads, Close(t)
      PROVE  VideoInv'
  BY <1>2, CancelStep, KillStep, KilledStep DEF Close
<1>3. ASSUME NEW v \in Viewers, Handler(v)
      PROVE  VideoInv'
  BY <1>3, TuneStep, ClosedStep, StartStep, WaitStep, LeaveStep DEF Handler
<1>4. CASE Stopper
  BY <1>4, TurnOffStep, StopClosedStep, ReleaseStep, ShutdownClosesStep DEF Stopper
<1>5. ASSUME NEW v \in Viewers, Begin(v) \/ ClientGoes(v) \/ CloseByToken(v)
      PROVE  VideoInv'
  BY <1>5, BeginStep, GoesAwayStep, CloseByTokenStep
<1>6. CASE Answer(TRUE) \/ Answer(FALSE) \/ Timeout
  BY <1>6, AnswerStep, TimeoutStep
<1> QED BY <1>1, <1>2, <1>3, <1>4, <1>5, <1>6, BeginShutdownStep, EndStep, LinkStep, SetRTMPStep DEF Next, Work

LEMMA InitVideo == VideoConstants /\ Init => VideoInv
<1> SUFFICES ASSUME VideoConstants, Init PROVE VideoInv
  OBVIOUS
<1>1. NoViewer.pc = "idle" /\ NoViewer.id = 0 /\ NoStop.pc = "idle" /\ NoStop.id = 0 /\ NoClose.pc = "idle"
  BY DEF NoViewer, NoStop, NoClose
<1>2. /\ session = 0 /\ nextId = 0 /\ viewer = [v \in Viewers |-> NoViewer]
      /\ stop = NoStop /\ shut = "no" /\ closing = [t \in Threads |-> NoClose]
      /\ link = TRUE /\ pipe = <<>> /\ tuned = 0 /\ command = None
      /\ recordPath = 0 /\ process = None /\ publisher = "none"
      /\ rtmp \in BOOLEAN /\ records = [i \in Sessions |-> "none"]
      /\ events = 0 /\ overlap = FALSE /\ misread = FALSE
  BY DEF Init
<1>3. TypeOK
  <2>1. /\ NoViewer \in [pc : {"idle", "tune", "tuning", "restart", "unreachable", "start",
             "wait", "stream", "leave"}, id : 0..0, gone : BOOLEAN, reset : BOOLEAN, closed : BOOLEAN]
        /\ NoStop \in [pc : {"idle", "off", "offing", "shutdown", "close", "release"}, id : 0..0,
             tries : 0..Attempts, failed : BOOLEAN, last : BOOLEAN]
        /\ NoClose \in [pc : Closes, ok : BOOLEAN]
    BY DEF NoViewer, NoStop, NoClose, Attempts, Closes
  <2>2. 0 \in 0..MaxSessions /\ 0 \in 0..MaxEvents
    BY DEF VideoConstants
  <2>3. /\ viewer \in [Viewers -> [pc : {"idle", "tune", "tuning", "restart", "unreachable",
             "start", "wait", "stream", "leave"}, id : 0..nextId, gone : BOOLEAN, reset : BOOLEAN,
             closed : BOOLEAN]]
        /\ closing \in [Threads -> [pc : Closes, ok : BOOLEAN]]
        /\ records \in [Sessions -> {"none", "ready", "failed"}]
    BY <1>2, <2>1
  <2>4. pipe \in Seq(0..nextId)
    BY <1>2
  <2>5. stop \in [pc : {"idle", "off", "offing", "shutdown", "close", "release"}, id : 0..nextId,
             tries : 0..Attempts, failed : BOOLEAN, last : BOOLEAN]
    BY <1>2, <2>1
  <2>6. session \in 0..nextId /\ nextId \in 0..MaxSessions /\ tuned \in 0..nextId /\ recordPath \in 0..nextId
    BY <1>2, <2>2
  <2>7. /\ shut \in {"no", "stopping", "closing", "closed"} /\ link \in BOOLEAN
        /\ command \in Viewers \cup {None, "stop"}
        /\ process \in [path : 0..nextId, told : BOOLEAN] \cup {None}
        /\ publisher \in {"none", "running", "cancelled"} /\ rtmp \in BOOLEAN
        /\ events \in 0..MaxEvents /\ overlap \in BOOLEAN /\ misread \in BOOLEAN
    BY <1>2, <2>2
  <2> QED BY <2>3, <2>4, <2>5, <2>6, <2>7 DEF TypeOK
<1>4. \A v \in Viewers : viewer[v].pc = "idle"
  BY <1>1, <1>2
<1>5. \A t \in Threads : closing[t].pc = "idle"
  BY <1>1, <1>2
<1>6. Owned /\ ShutDown
  BY <1>1, <1>2, <1>4 DEF Owned, ShutDown, Serving, Starting
<1>7. Closers /\ ClosedSoFar
  BY <1>5 DEF Closers, ClosedSoFar, Threads
<1>8. Progress
  BY <1>4 DEF Progress, Serving, Starting
<1>9. StopProgress /\ Commands /\ Recorded
  BY <1>1, <1>2 DEF StopProgress, Commands, Recorded, Clean, VideoConstants
<1> QED BY <1>2, <1>3, <1>6, <1>7, <1>8, <1>9 DEF VideoInv, Undisturbed

LEMMA VideoSafe ==
  ASSUME VideoInv
  PROVE  TypeOK /\ NothingLeftRunning /\ ViewerKeepsStream /\ ReadyRecordComplete
<1>1. TypeOK
  BY DEF VideoInv
<1>2. NothingLeftRunning
  BY DEF VideoInv, Undisturbed, StopProgress, Clean, NothingLeftRunning
<1>3. ViewerKeepsStream
  BY DEF VideoInv, Undisturbed, Owned, Progress, Serving, ViewerKeepsStream
<1>4. ReadyRecordComplete
  BY DEF VideoInv, Undisturbed, Recorded, ReadyRecordComplete
<1> QED BY <1>1, <1>2, <1>3, <1>4
=============================================================================
