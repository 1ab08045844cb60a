------------------------------ MODULE Station -------------------------------
(***************************************************************************)
(* The parts of the station beside strikes, FPV targets and connectors: the  *)
(* FPV video and its receiver, the positions, their decoder and archive, the *)
(* relay's two connections, and what the web interface manages (network,     *)
(* settings, offline maps, location).  None of them acts on another's state  *)
(* while it works: the video settings look at the video session through two  *)
(* flags that Settings has of its own, the receiver's port is set by whoever *)
(* sets it, a result of the decoder is any result in Positions, and what the *)
(* relay reports to the interference service is in Interference.  So a       *)
(* behaviour follows one of them, and their states add up.                   *)
(***************************************************************************)
EXTENDS Naturals

CONSTANTS
  None, Clients, MaxSessions, MaxEvents, Drones, Uuids, MaxPositions, TTL, MaxTime,
  MaxLines, MaxCommands, MaxFrames, MaxChanges, Documents, Rejected,
  MaxUpdates, MaxSaves, Packages, Invalid, MaxUploads, MaxSeconds, Ports,
  Addresses, Conns, MaxPorts, MaxFaults, Intruders, Uncracked, MaxLive,
  Retention, MaxDay, MaxFailures, Points, Unreadable, CipherIds, Sensors,
  MaxPackets, KeyTTL, MaxClock

VARIABLES
  subject,   \* the part the behaviour follows
  vdSession, vdNextId, vdViewer, vdStop, vdShut, vdClosing, vdLink, vdPipe,
  vdTuned, vdCommand, vdRecordPath, vdProcess, vdPublisher, vdRtmp,
  vdRecords, vdEvents, vdOverlap, vdMisread, poPositions, poLine, poJobs,
  poCrossed, poNow, poLines, rlMu, rlVersion, rlConnected, rlOutput,
  rlExecuted, rlWrites, rlLink, rlAsked, rlFrames, rlAwaiting,
  rlQueryVersion, rlSeen, rlPushed, rlCommands, rlChanges, ntManaged,
  ntBackups, ntCloudInit, ntManagers, ntScript, ntRunning, ntRequest,
  ntDisturbed, ntRequests, stSaved, stRuntime, stLock, stSession, stProcess,
  stRequest, stDisturbed, stRequests, omDt, omManifest, omBackups, omUpload,
  omSecond, omWanted, omDisturbed, omUploads,
  frPort, frVersion, frListener, frStatus, frClients, frActive, frLoop,
  frSocket, frConns, frClosing, frCancelled, frLoose, frTaken, frFaults,
  frCommand, frWaiter, inLive, inExpired, inCaller, inDb, inDay,
  inSeen, inTried, inLost, inDeleted, inFailures, dlFix, dlManual, dlSaved,
  dlRequest, dlDisturbed, dlFaults, ddJobs, ddKeys, ddClient, ddAbandoned,
  ddMu, ddSubMu, ddSubscriptions, ddResponses, ddRoutes, ddAsked,
  ddAnswers, ddKnown, ddNow, ddFaults

vdVars == <<vdSession, vdNextId, vdViewer, vdStop, vdShut, vdClosing,
            vdLink, vdPipe, vdTuned, vdCommand, vdRecordPath, vdProcess,
            vdPublisher, vdRtmp, vdRecords, vdEvents, vdOverlap, vdMisread>>
poVars == <<poPositions, poLine, poJobs, poCrossed, poNow, poLines>>
rlVars == <<rlMu, rlVersion, rlConnected, rlOutput, rlExecuted, rlWrites,
            rlLink, rlAsked, rlFrames, rlAwaiting, rlQueryVersion, rlSeen,
            rlPushed, rlCommands, rlChanges>>
ntVars == <<ntManaged, ntBackups, ntCloudInit, ntManagers, ntScript,
            ntRunning, ntRequest, ntDisturbed, ntRequests>>
stVars == <<stSaved, stRuntime, stLock, stSession, stProcess, stRequest,
            stDisturbed, stRequests>>
omVars == <<omDt, omManifest, omBackups, omUpload, omSecond, omWanted,
            omDisturbed, omUploads>>
frVars == <<frPort, frVersion, frListener, frStatus, frClients, frActive,
            frLoop, frSocket, frConns, frClosing, frCancelled, frLoose,
            frTaken, frFaults, frCommand, frWaiter>>
inVars == <<inLive, inExpired, inCaller, inDb, inDay, inSeen, inTried,
            inLost, inDeleted, inFailures>>
dlVars == <<dlFix, dlManual, dlSaved, dlRequest, dlDisturbed, dlFaults>>
ddVars == <<ddJobs, ddKeys, ddClient, ddAbandoned, ddMu, ddSubMu,
            ddSubscriptions, ddResponses, ddRoutes, ddAsked, ddAnswers,
            ddKnown, ddNow, ddFaults>>
vars == <<subject, vdVars, frVars, poVars, inVars, rlVars, ntVars, stVars,
          omVars, dlVars, ddVars>>

VD == INSTANCE FPVVideo WITH
  Viewers <- Clients,
  session <- vdSession, nextId <- vdNextId, viewer <- vdViewer,
  stop <- vdStop, shut <- vdShut, closing <- vdClosing, link <- vdLink,
  pipe <- vdPipe, tuned <- vdTuned, command <- vdCommand,
  recordPath <- vdRecordPath, process <- vdProcess,
  publisher <- vdPublisher, rtmp <- vdRtmp, records <- vdRecords,
  events <- vdEvents, overlap <- vdOverlap, misread <- vdMisread

FR == INSTANCE FPVReceiver WITH
  MaxChanges <- MaxPorts,
  port <- frPort, version <- frVersion, listener <- frListener,
  status <- frStatus, clients <- frClients, active <- frActive,
  loop <- frLoop, socket <- frSocket, conns <- frConns,
  closing <- frClosing, cancelled <- frCancelled, loose <- frLoose,
  taken <- frTaken, faults <- frFaults, command <- frCommand,
  waiter <- frWaiter

AR == INSTANCE Intrusions WITH
  Targets <- Intruders, Callers <- Clients,
  live <- inLive, expired <- inExpired, caller <- inCaller, db <- inDb, day <- inDay,
  seen <- inSeen, tried <- inTried, lost <- inLost, deleted <- inDeleted,
  failures <- inFailures

DL == INSTANCE DeviceLocation WITH
  Broken <- Unreadable, Callers <- Clients,
  fix <- dlFix, manual <- dlManual, saved <- dlSaved,
  request <- dlRequest, disturbed <- dlDisturbed, faults <- dlFaults

PO == INSTANCE Positions WITH
  positions <- poPositions, line <- poLine, jobs <- poJobs,
  crossed <- poCrossed, now <- poNow, lines <- poLines

DD == INSTANCE DIDDecoder WITH
  Ids <- CipherIds, Devices <- Sensors, MaxTime <- MaxClock,
  jobs <- ddJobs, keys <- ddKeys, client <- ddClient,
  abandoned <- ddAbandoned, mu <- ddMu, subMu <- ddSubMu,
  subscriptions <- ddSubscriptions, responses <- ddResponses,
  routes <- ddRoutes, asked <- ddAsked, answers <- ddAnswers,
  known <- ddKnown, now <- ddNow, faults <- ddFaults

RL == INSTANCE RelayMonitor WITH
  mu <- rlMu, version <- rlVersion, connected <- rlConnected,
  output <- rlOutput, executed <- rlExecuted, writes <- rlWrites,
  link <- rlLink, asked <- rlAsked, frames <- rlFrames,
  awaiting <- rlAwaiting, queryVersion <- rlQueryVersion, seen <- rlSeen,
  pushed <- rlPushed, commands <- rlCommands, changes <- rlChanges

NT == INSTANCE Network WITH
  MaxRequests <- MaxUpdates,
  managed <- ntManaged, backups <- ntBackups, cloudInit <- ntCloudInit,
  managers <- ntManagers, script <- ntScript, running <- ntRunning,
  request <- ntRequest, disturbed <- ntDisturbed, requests <- ntRequests

ST == INSTANCE Settings WITH
  MaxRequests <- MaxSaves,
  saved <- stSaved, runtime <- stRuntime, lock <- stLock,
  session <- stSession, process <- stProcess, request <- stRequest,
  disturbed <- stDisturbed, requests <- stRequests

OM == INSTANCE OfflineMap WITH
  MaxTime <- MaxSeconds,
  dt <- omDt, manifest <- omManifest, backups <- omBackups,
  upload <- omUpload, second <- omSecond, wanted <- omWanted,
  disturbed <- omDisturbed, uploads <- omUploads

ASSUME StationConstants ==
  /\ VD!VideoConstants /\ FR!ListenerConstants
  /\ PO!PositionConstants /\ AR!IntrusionConstants /\ RL!RelayConstants
  /\ NT!NetworkConstants /\ ST!SettingsConstants /\ OM!MapConstants
  /\ DL!LocationConstants /\ DD!DecoderConstants
------------------------------------------------------------------------------
Parts ==
  {"video", "receiver", "positions", "intrusions", "relay", "network",
   "settings", "maps", "location", "decoder"}

\* What a part finds at the start is left open only while it is followed.
Init ==
  /\ VD!Init /\ FR!Init /\ PO!Init /\ AR!Init
  /\ RL!Init /\ NT!Init /\ ST!Init /\ OM!Init /\ DL!Init /\ DD!Init
  /\ subject \in Parts
  /\ subject # "video" => ~vdRtmp
  /\ subject # "relay" => rlOutput = 0
  /\ subject # "network" => ntManaged = None
  /\ subject # "location" => dlSaved = None

Next ==
  \/ /\ subject = "video" /\ VD!Next
     /\ UNCHANGED <<subject, frVars, poVars, inVars, rlVars, ntVars, stVars, omVars, dlVars, ddVars>>
  \/ /\ subject = "receiver" /\ FR!Next
     /\ UNCHANGED <<subject, vdVars, poVars, inVars, rlVars, ntVars, stVars, omVars, dlVars, ddVars>>
  \/ /\ subject = "positions" /\ PO!Next
     /\ UNCHANGED <<subject, vdVars, frVars, inVars, rlVars, ntVars, stVars, omVars, dlVars, ddVars>>
  \/ /\ subject = "intrusions" /\ AR!Next
     /\ UNCHANGED <<subject, vdVars, frVars, poVars, rlVars, ntVars, stVars, omVars, dlVars, ddVars>>
  \/ /\ subject = "relay" /\ RL!Next
     /\ UNCHANGED <<subject, vdVars, frVars, poVars, inVars, ntVars, stVars, omVars, dlVars, ddVars>>
  \/ /\ subject = "network" /\ NT!Next
     /\ UNCHANGED <<subject, vdVars, frVars, poVars, inVars, rlVars, stVars, omVars, dlVars, ddVars>>
  \/ /\ subject = "settings" /\ ST!Next
     /\ UNCHANGED <<subject, vdVars, frVars, poVars, inVars, rlVars, ntVars, omVars, dlVars, ddVars>>
  \/ /\ subject = "maps" /\ OM!Next
     /\ UNCHANGED <<subject, vdVars, frVars, poVars, inVars, rlVars, ntVars, stVars, dlVars, ddVars>>
  \/ /\ subject = "location" /\ DL!Next
     /\ UNCHANGED <<subject, vdVars, frVars, poVars, inVars, rlVars, ntVars, stVars, omVars, ddVars>>
  \/ /\ subject = "decoder" /\ DD!Next
     /\ UNCHANGED <<subject, vdVars, frVars, poVars, inVars, rlVars, ntVars, stVars, omVars, dlVars>>

Spec == Init /\ [][Next]_vars

\* The fairness of the video's threads, which have nothing to do while another
\* part is followed; nothing else here promises to come about.
FairSpec == Spec /\ VD!Fairness
------------------------------------------------------------------------------
\* The types of the followed part's state; the others rest where they started.
TypeOK ==
  /\ subject = "video" => VD!TypeOK
  /\ subject = "receiver" => FR!TypeOK
  /\ subject = "positions" => PO!TypeOK
  /\ subject = "intrusions" => AR!TypeOK
  /\ subject = "relay" => RL!TypeOK
  /\ subject = "network" => NT!TypeOK
  /\ subject = "settings" => ST!TypeOK
  /\ subject = "maps" => OM!TypeOK
  /\ subject = "location" => DL!TypeOK
  /\ subject = "decoder" => DD!TypeOK

\* No converter, recorder or publisher runs on after its session.
NothingLeftRunning == VD!NothingLeftRunning

\* Nobody but its own client takes a viewer's stream away.
ViewerKeepsStream == VD!ViewerKeepsStream

\* A recording shown as ready is complete.
ReadyRecordComplete == VD!ReadyRecordComplete

\* A session whose client has gone makes way for the next.
SessionReleased == VD!SessionReleased

\* A drone that has been decoded is one row of the list.
DecodedIsOneRow == PO!DecodedIsOneRow

\* A receiver that accepts does so on the port it was told last.
ListensWhereTold == FR!ListensWhereTold

\* An expired target is handed to the archive once.
HandedOverOnce == AR!HandedOverOnce

\* An answer is taken for the question it answers: the monitor passes on no
\* output from before a command that succeeded, and what the decrypting platform
\* answers reaches the packet that waits for it, and no key counts that it has
\* not accepted.
AnswersMatch ==
  RL!FreshAnswers /\ DD!AnswerArrives /\ []DD!KeyAccepted

\* Between updates the managed document is one netplan accepts.
AcceptedAtRest == NT!AcceptedAtRest

\* Between requests the program runs with what a restart would load.
RuntimeIsSaved == ST!RuntimeIsSaved /\ DL!ManualIsSaved

\* An installed map is not lost, and its manifest names it.
MapKept == OM!MapKept
==============================================================================
