------------------------------ MODULE FPVVideo ------------------------------
(***************************************************************************)
(* Watching an FPV target: one viewer at a time holds the video session, in  *)
(* which the A3-F9 receiver is tuned over its TCP connection, a MediaMTX     *)
(* process converts and records the stream, and an RTMP publisher pushes it  *)
(* on (httpapi/server.go, fpv/service.go, fpvvideo).                         *)
(*                                                                         *)
(* A viewer's handler and whoever holds fpvVideoStopMu are threads that wait *)
(* for the device, the process and the publisher, all of which may be slow,  *)
(* fail or end by themselves.  A session is known by its id; its token is    *)
(* known to the client from the ready event on.  Recordings are configured,  *)
(* as the application always wires them, and a path is that of its session.  *)
(***************************************************************************)
EXTENDS Naturals, Sequences

CONSTANTS None, Viewers, MaxSessions, MaxEvents
VideoConstants ==
  /\ MaxSessions \in Nat /\ MaxEvents \in Nat
  /\ Viewers \cap {None, "stop", "shutdown"} = {} /\ None \notin {"stop", "shutdown"}

VARIABLES
  session,    \* activeFPVVideoSession, 0 when nobody watches
  nextId,     \* nextFPVVideoSessionID
  viewer,     \* the handlers of the session requests
  stop,       \* what the holder of fpvVideoStopMu does
  shut,       \* how far Server.Shutdown is
  closing,    \* who is inside Service.Close or Shutdown, and where
  link,       \* an FPV device is connected
  pipe,       \* the AT commands it has not answered, oldest first; 0 is off
  tuned,      \* the session the device is tuned for, 0 when it is off
  command,    \* who holds commandMu and waits for the answer
  recordPath, \* options.RecordPath
  process,    \* the MediaMTX process: cmd and what it records
  publisher,  \* the RTMP publisher's run and its cancellation
  rtmp,       \* options.RTMPEnabled
  records,    \* fpv_video_records by session
  events,     \* bound: failures, changes and late answers so far
  overlap,    \* history: a shutdown met a viewer that was starting
  misread     \* history: an answer was taken for another command's

vars == <<session, nextId, viewer, stop, shut, closing, link, pipe, tuned,
          command, recordPath, process, publisher, rtmp, records, events,
          overlap, misread>>

Sessions == 1..MaxSessions
Threads == Viewers \cup {"stop", "shutdown"}
NoViewer == [pc |-> "idle", id |-> 0, gone |-> FALSE, reset |-> FALSE,
             closed |-> FALSE]
NoStop == [pc |-> "idle", id |-> 0, tries |-> 0, failed |-> FALSE,
           last |-> FALSE]
NoClose == [pc |-> "idle", ok |-> TRUE]
Calling == [pc |-> "cancel", ok |-> TRUE]

Init ==
  /\ session = 0 /\ nextId = 0 /\ viewer = [v \in Viewers |-> NoViewer]
  /\ stop = NoStop /\ shut = "no" /\ closing = [t \in Threads |-> NoClose]
  /\ link = TRUE /\ pipe = <<>> /\ tuned = 0 /\ command = None
  /\ recordPath = 0 /\ process = None /\ publisher = "none"
  /\ rtmp \in BOOLEAN /\ records = [i \in Sessions |-> "none"]
  /\ events = 0 /\ overlap = FALSE /\ misread = FALSE

Event == events < MaxEvents /\ events' = events + 1
Quiet == UNCHANGED events
------------------------------------------------------------------------------
(* The converter: Service.Close and Shutdown, one after the other cancelling *)
(* the publisher and ending the process, whatever the first one returned.    *)

converter == <<process, publisher>>
Served == <<session, nextId, viewer, stop, shut, recordPath, rtmp, 
            records, overlap>>
Device == <<link, pipe, tuned, command, misread>>

\* publisher.Stop begins: it cancels the run.
Cancel(t) ==
  /\ closing[t].pc = "cancel"
  /\ publisher' = IF publisher = "running" THEN "cancelled" ELSE publisher
  /\ closing' = [closing EXCEPT ![t].pc = "cancelled"]
  /\ Quiet /\ UNCHANGED <<Served, Device, process>>

\* The run is over, and markStopped forgets it (a publisher that was started
\* meanwhile too), or the wait for it is; then stop tells the process to end.
Told == IF process = None THEN None ELSE [process EXCEPT !.told = TRUE]
Kill(t) ==
  /\ closing[t].pc = "cancelled"
  /\ \/ publisher # "cancelled" /\ Quiet /\ publisher' = "none"
        /\ closing' = [closing EXCEPT ![t].pc = "killed"]
     \/ publisher = "cancelled" /\ Event /\ UNCHANGED publisher
        /\ closing' = [closing EXCEPT ![t] = [pc |-> "killed", ok |-> FALSE]]
  /\ process' = Told
  /\ UNCHANGED <<Served, Device>>

\* The process has ended, or the wait for it has.
Ended == process # None => ~process.told
Killed(t) ==
  /\ closing[t].pc = "killed"
  /\ \/ Ended /\ Quiet /\ closing' = [closing EXCEPT ![t].pc = "done"]
     \/ ~Ended /\ Event
        /\ closing' = [closing EXCEPT ![t] = [pc |-> "done", ok |-> FALSE]]
  /\ UNCHANGED <<Served, Device, converter>>

\* The goroutine that waits for the process clears cmd when it ends, on
\* request or by itself.
ProcessEnds ==
  /\ process # None
  /\ IF process.told THEN Quiet ELSE Event
  /\ process' = None
  /\ UNCHANGED <<Served, Device, closing, publisher>>

\* A publisher's run ends when cancelled, or when it meets a codec it cannot
\* push; any other failure it retries.
PublisherEnds ==
  /\ publisher # "none" /\ publisher' = "none"
  /\ IF publisher = "cancelled" THEN Quiet ELSE Event
  /\ UNCHANGED <<Served, Device, closing, process>>
------------------------------------------------------------------------------
(* A viewer: handleScreenFPVVideoSession.                                    *)

Starting(v) == viewer[v].pc \notin {"idle", "stream"}
Go(v, pc) == viewer' = [viewer EXCEPT ![v].pc = pc]

\* tryBeginFPVVideoSessionWithRecording: nobody else is watching.
Free == session = 0
Begin(v) ==
  /\ viewer[v].pc = "idle" /\ shut # "closed" /\ Free
  /\ nextId < MaxSessions
  /\ nextId' = nextId + 1 /\ session' = nextId'
  /\ viewer' = [viewer EXCEPT ![v] =
       [NoViewer EXCEPT !.pc = "tune", !.id = nextId']]
  /\ overlap' = (overlap \/ shut # "no")
  /\ Quiet /\ UNCHANGED <<stop, shut, closing, Device, recordPath, converter,
                          rtmp, records>>

\* The client goes away: its request's context is cancelled.
ClientGoes(v) ==
  /\ viewer[v].pc # "idle" /\ ~viewer[v].gone
  /\ viewer' = [viewer EXCEPT ![v].gone = TRUE]
  /\ Quiet /\ UNCHANGED <<session, nextId, stop, shut, closing, Device,
                          recordPath, converter, rtmp, records,
                          overlap>>

\* SetVideoFrequency, once commandMu is free, sends the command if a device is
\* connected.
Tune(v) ==
  /\ viewer[v].pc = "tune" /\ command = None
  /\ \/ ~link /\ Go(v, "leave") /\ UNCHANGED <<pipe, command>>
     \/ link /\ Go(v, "tuning") /\ command' = v
        /\ pipe' = Append(pipe, viewer[v].id)
  /\ Quiet /\ UNCHANGED <<session, nextId, stop, shut, closing, link, tuned,
                          misread, recordPath, converter, rtmp, 
                          records, overlap>>

\* The answer has come: SetRecordPath, and Restart calls Close first.
TuneAnswered(v, ok) ==
  /\ viewer' = [viewer EXCEPT ![v].pc = IF ok THEN "restart" ELSE "leave",
                              ![v].reset = ok]
  /\ recordPath' = IF ok THEN viewer[v].id ELSE recordPath
  /\ closing' = IF ok THEN [closing EXCEPT ![v] = Calling] ELSE closing
  /\ UNCHANGED stop

\* Close has returned in Restart, or at the end of waitForWHEPEndpoint.
Closed(v) ==
  /\ viewer[v].pc \in {"restart", "unreachable"} /\ closing[v].pc = "done"
  /\ Go(v, IF viewer[v].pc = "restart" /\ closing[v].ok THEN "start"
           ELSE "leave")
  /\ closing' = [closing EXCEPT ![v] = NoClose]
  /\ Quiet /\ UNCHANGED <<session, nextId, stop, shut, Device, recordPath,
                          converter, rtmp, records, overlap>>

\* ensureStarted and startLocked: no process is started beside another one; a
\* binary, directory or configuration that cannot be had fails.
Start(v) ==
  /\ viewer[v].pc = "start"
  /\ \/ process = None /\ Quiet /\ Go(v, "wait")
        /\ process' = [path |-> recordPath, told |-> FALSE]
     \/ process # None /\ Quiet /\ Go(v, "wait")
        /\ UNCHANGED process
     \/ process = None /\ Event /\ Go(v, "leave")
        /\ UNCHANGED process
  /\ UNCHANGED <<session, nextId, stop, shut, closing, Device, recordPath,
                 publisher, rtmp, records, overlap>>

\* waitForWHEPEndpoint: the process is gone, the endpoint answers and the
\* publisher is started, the client has left, or the wait is over, which closes
\* the converter.
Reached(v) ==
  /\ process # None /\ Quiet
  /\ publisher' = IF rtmp /\ publisher = "none" THEN "running" ELSE publisher
  /\ Go(v, IF viewer[v].gone THEN "leave" ELSE "stream")
  /\ UNCHANGED closing
Wait(v) ==
  /\ viewer[v].pc = "wait"
  /\ \/ Reached(v)
     \/ (process = None \/ viewer[v].gone) /\ Quiet /\ Go(v, "leave")
        /\ UNCHANGED <<publisher, closing>>
     \/ process # None /\ Event /\ Go(v, "unreachable")
        /\ closing' = [closing EXCEPT ![v] = Calling]
        /\ UNCHANGED publisher
  /\ UNCHANGED <<session, nextId, stop, shut, Device, recordPath, process,
                 rtmp, records, overlap>>
------------------------------------------------------------------------------
(* The end of a session, under fpvVideoStopMu.                               *)

\* What a stop does first; without a reset it only releases.
Stopping(id, reset) ==
  stop' = [NoStop EXCEPT !.pc = IF reset THEN "off" ELSE "release", !.id = id]

\* stopFPVVideoSessionByID, deferred by the handler: only its own session.
\* Mutant: whatever session there is.
OwnAny(v) == session # 0
Own(v) == session = viewer[v].id
Leave(v) ==
  /\ viewer[v].pc = "leave" \/ (viewer[v].pc = "stream" /\ viewer[v].gone)
  /\ stop.pc = "idle"
  /\ viewer' = [viewer EXCEPT ![v] = NoViewer]
  /\ IF Own(v) THEN Stopping(session, viewer[v].reset) ELSE UNCHANGED stop
  /\ Quiet /\ UNCHANGED <<session, nextId, shut, closing, Device, recordPath,
                          converter, rtmp, records, overlap>>

\* stopFPVVideoSessionByToken: the client of a session that is ready.
CloseByToken(v) ==
  /\ viewer[v].pc = "stream" /\ session = viewer[v].id /\ stop.pc = "idle"
  /\ Stopping(session, TRUE)
  /\ viewer' = [viewer EXCEPT ![v].closed = TRUE]
  /\ Quiet /\ UNCHANGED <<session, nextId, shut, closing, Device, recordPath,
                          converter, rtmp, records, overlap>>

\* StopVideo tries three times at most, and fewer when its context ends; then
\* the converter is closed all the same.
Attempts == 3
\* Mutant: the session is released without the close.
OffFailedReleasesOnly(tried) ==
  \/ tried < Attempts /\ stop' = [stop EXCEPT !.pc = "off", !.tries = tried]
     /\ UNCHANGED closing
  \/ stop' = [stop EXCEPT !.pc = "release", !.failed = TRUE]
     /\ UNCHANGED closing
\* Mutant: a session whose stop failed stays.
OffFailedKeeps(tried) ==
  \/ tried < Attempts /\ stop' = [stop EXCEPT !.pc = "off", !.tries = tried]
     /\ UNCHANGED closing
  \/ stop' = NoStop /\ UNCHANGED closing
OffFailed(tried) ==
  \/ tried < Attempts /\ UNCHANGED closing
     /\ stop' = [stop EXCEPT !.pc = "off", !.tries = tried]
  \/ stop' = [stop EXCEPT !.pc = "close", !.failed = TRUE]
     /\ closing' = [closing EXCEPT !["stop"] = Calling]

TurnOff ==
  /\ stop.pc = "off" /\ command = None
  /\ \/ ~link /\ OffFailed(stop.tries + 1) /\ UNCHANGED <<pipe, command>>
     \/ link /\ command' = "stop" /\ pipe' = Append(pipe, 0)
        /\ stop' = [stop EXCEPT !.pc = "offing"] /\ UNCHANGED closing
  /\ Quiet /\ UNCHANGED <<session, nextId, viewer, shut, link, tuned, misread,
                          recordPath, converter, rtmp, records,
                          overlap>>

OffAnswered(ok) ==
  /\ IF ok THEN /\ stop' = [stop EXCEPT !.pc = "shutdown"]
                /\ closing' = [closing EXCEPT !["stop"] = Calling]
     ELSE OffFailed(stop.tries + 1)
  /\ UNCHANGED <<viewer, recordPath>>

\* stopFPVVideo has shut the converter down; if that failed it is closed too,
\* and whatever that returns the session is released.
StopClosed ==
  /\ stop.pc \in {"shutdown", "close"} /\ closing["stop"].pc = "done"
  /\ LET again == stop.pc = "shutdown" /\ ~closing["stop"].ok
     IN /\ stop' = [stop EXCEPT !.pc = IF again THEN "close" ELSE "release",
                                !.failed = @ \/ again]
        /\ closing' = [closing EXCEPT !["stop"] =
                         IF again THEN Calling ELSE NoClose]
  /\ Quiet /\ UNCHANGED <<session, nextId, viewer, shut, Device, recordPath,
                          converter, rtmp, records, overlap>>

\* releaseFPVVideoSessionAfterStop and persistFPVVideoRecord: ready if nothing
\* failed and a file of the session is found, which only a process that had
\* its path has written.
\* Mutant: the error of the stop is not recorded.
OutcomesUnchecked(i) ==
  IF recordPath = i THEN {"ready", "failed"} ELSE {"failed"}
Outcomes(i) ==
  IF ~stop.failed /\ recordPath = i THEN {"ready", "failed"} ELSE {"failed"}
Release ==
  /\ stop.pc = "release"
  /\ session' = 0 /\ stop' = NoStop
  /\ \E o \in Outcomes(stop.id) : records' = [records EXCEPT ![stop.id] = o]
  /\ Quiet /\ UNCHANGED <<nextId, viewer, shut, closing, Device, recordPath,
                          converter, rtmp, overlap>>

\* Server.Shutdown stops the active session, if there is one, ...
BeginShutdown ==
  /\ shut = "no" /\ stop.pc = "idle" /\ Event
  /\ shut' = "stopping"
  /\ IF session = 0 THEN UNCHANGED stop
     ELSE stop' = [NoStop EXCEPT !.pc = "off", !.id = session, !.last = TRUE]
  /\ overlap' = (overlap \/ \E v \in Viewers : Starting(v))
  /\ UNCHANGED <<session, nextId, viewer, closing, Device, recordPath,
                 converter, rtmp, records>>

\* ... and closes the converter after that, without a lock.
ShutdownCloses ==
  /\ \/ shut = "stopping" /\ ~stop.last /\ shut' = "closing"
        /\ closing' = [closing EXCEPT !["shutdown"] = Calling]
     \/ shut = "closing" /\ closing["shutdown"].pc = "done"
        /\ shut' = "closed"
        /\ closing' = [closing EXCEPT !["shutdown"] = NoClose]
  /\ Quiet /\ UNCHANGED <<session, nextId, viewer, stop, Device, recordPath,
                          converter, rtmp, records, overlap>>
------------------------------------------------------------------------------
(* The device: it answers what was sent to it in order, whoever waits.       *)

Answered(ok) ==
  \/ command = None /\ UNCHANGED <<viewer, stop, closing, recordPath>>
  \/ command = "stop" /\ OffAnswered(ok)
  \/ \E v \in Viewers : command = v /\ TuneAnswered(v, ok)

Answer(ok) ==
  /\ link /\ pipe # <<>> /\ IF ok THEN Quiet ELSE Event
  /\ pipe' = Tail(pipe) /\ tuned' = IF ok THEN Head(pipe) ELSE tuned
  /\ misread' = (misread \/ (command # None /\ Len(pipe) > 1))
  /\ command' = None /\ Answered(ok)
  /\ UNCHANGED <<session, nextId, shut, link, converter, rtmp, records,
                 overlap>>

\* The waiter's context ends first; the command stays on its way.
Timeout ==
  /\ command # None
  /\ IF pipe = <<>> \/ (\E v \in Viewers : command = v /\ viewer[v].gone)
     THEN Quiet ELSE Event
  /\ command' = None /\ Answered(FALSE)
  /\ UNCHANGED <<session, nextId, shut, link, pipe, tuned, misread, converter,
                 rtmp, records, overlap>>

\* The connection ends, by itself or because SetPort closes it: of what was
\* sent the device has carried out a part, and nobody is answered.
Disconnects ==
  /\ link /\ Event
  /\ link' = FALSE /\ pipe' = <<>>
  /\ \E k \in 0..Len(pipe) : tuned' = IF k = 0 THEN tuned ELSE pipe[k]
  /\ UNCHANGED <<Served, closing, command, misread, converter>>
Connects ==
  /\ ~link /\ link' = TRUE
  /\ Quiet /\ UNCHANGED <<Served, closing, pipe, tuned, command, misread,
                          converter>>

\* RTMP publishing is switched between sessions only.
SetRTMP ==
  /\ session = 0 /\ process = None /\ Event
  /\ rtmp' = ~rtmp
  /\ UNCHANGED <<session, nextId, viewer, stop, shut, closing, Device,
                 recordPath, converter, records, overlap>>
------------------------------------------------------------------------------
Close(t) == Cancel(t) \/ Kill(t) \/ Killed(t)
Handler(v) == Tune(v) \/ Closed(v) \/ Start(v) \/ Wait(v) \/ Leave(v)
Stopper == TurnOff \/ StopClosed \/ Release \/ ShutdownCloses
Work ==
  \/ \E t \in Threads : Close(t)
  \/ \E v \in Viewers : Handler(v)
  \/ Stopper

Next ==
  \/ Work
  \/ \E v \in Viewers : Begin(v) \/ ClientGoes(v) \/ CloseByToken(v)
  \/ BeginShutdown
  \/ ProcessEnds \/ PublisherEnds
  \/ Answer(TRUE) \/ Answer(FALSE) \/ Timeout \/ Disconnects \/ Connects
  \/ SetRTMP

\* Threads go on, a process told to end and a cancelled publisher end, and a
\* command is answered or times out.
Ending == (process # None /\ process.told /\ ProcessEnds)
          \/ (publisher = "cancelled" /\ PublisherEnds)
Answering == command # None /\ (Answer(TRUE) \/ Timeout)
Fairness == WF_vars(Work) /\ WF_vars(Ending) /\ WF_vars(Answering)

Spec == Init /\ [][Next]_vars
FairSpec == Spec /\ Fairness
------------------------------------------------------------------------------
Closes == {"idle", "cancel", "cancelled", "killed", "done"}
TypeOK ==
  /\ session \in 0..nextId /\ nextId \in 0..MaxSessions
  /\ viewer \in [Viewers -> [pc : {"idle", "tune", "tuning", "restart",
       "unreachable", "start", "wait", "stream", "leave"}, id : 0..nextId,
       gone : BOOLEAN, reset : BOOLEAN, closed : BOOLEAN]]
  /\ stop \in [pc : {"idle", "off", "offing", "shutdown", "close", "release"},
               id : 0..nextId, tries : 0..Attempts, failed : BOOLEAN,
               last : BOOLEAN]
  /\ shut \in {"no", "stopping", "closing", "closed"}
  /\ closing \in [Threads -> [pc : Closes, ok : BOOLEAN]]
  /\ link \in BOOLEAN /\ pipe \in Seq(0..nextId) /\ tuned \in 0..nextId
  /\ command \in Viewers \cup {None, "stop"} /\ recordPath \in 0..nextId
  /\ process \in [path : 0..nextId, told : BOOLEAN] \cup {None}
  /\ publisher \in {"none", "running", "cancelled"} /\ rtmp \in BOOLEAN
  /\ records \in [Sessions -> {"none", "ready", "failed"}]
  /\ events \in 0..MaxEvents
  /\ overlap \in BOOLEAN /\ misread \in BOOLEAN

\* While nobody holds the session no converter and no publisher runs on: each
\* has been told to end, however the session ended and whatever failed (the
\* close after a failed stop).  Only a shutdown that meets a viewer still
\* starting leaves a process behind.
NothingLeftRunning ==
  session = 0 /\ ~overlap =>
    (process = None \/ process.told) /\ publisher # "running"

\* A viewer that is watching keeps its session and the process that serves it
\* until its own client leaves or closes it: neither the handler of an earlier
\* session nor a late close takes the present one away.
ViewerKeepsStream ==
  \A v \in Viewers :
    viewer[v].pc = "stream" /\ ~viewer[v].closed /\ shut = "no" =>
      /\ session = viewer[v].id
      /\ process # None => process.path = session /\ ~process.told

\* A recording shown as ready is complete: its process has ended and the
\* device has left its frequency, unless an answer was misread or a shutdown
\* stopped the session while it started.
ReadyRecordComplete ==
  \A i \in Sessions :
    records[i] = "ready" /\ ~overlap =>
      /\ process # None => process.path # i
      /\ ~misread => tuned # i

\* A session whose clients have gone does not stay, so that the next viewer gets
\* in, whatever the device, the process or the publisher do.
Abandoned == session # 0 /\ \A v \in Viewers : viewer[v].id = session => viewer[v].gone
SessionReleased == []<>~Abandoned
==============================================================================
