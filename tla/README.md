# drone-management: models, checks and proofs

TLA+ models of the program in this repository, the TLC runs that check small
instances of them and the TLAPS proofs of what holds for every instance. Paths
and line numbers refer to the repository (`src/...` in `PROJECT.json`, which maps
every definition to its lines).

1. [The system](#1-the-system)
2. [Modules](#2-modules)
3. [What the models abstract](#3-what-the-models-abstract)
4. [Runs, bounds and what they show](#4-runs-bounds-and-what-they-show)
5. [Fairness](#5-fairness)
6. [Proofs](#6-proofs)
7. [Where the code disagrees with what is written about it](#7-where-the-code-disagrees-with-what-is-written-about-it)
8. [Known limits of the code](#8-known-limits-of-the-code)
9. [What is not modelled, and the plan](#9-what-is-not-modelled-and-the-plan)

Run everything from this directory: `tlc -workers 2 -config X.cfg M` with the
module and configuration of section 4, `tlapm P.tla` for each module `P` whose
name ends in `Proofs`.

## 1. The system

One Go process (`cmd/api/main.go`, wired in `internal/app/app.go`) hears drones
through receivers on TCP, UDP and MQTT, shows them in a web page, lets an operator
watch the analogue video of an FPV drone, drives a network relay whose outputs
switch on jammers, and reports to two platforms.

| component | state | operations | hard behaviour |
|---|---|---|---|
| interference service (`internal/interference`: `service.go`, `external.go`) | per channel the last observed level and whether the platform switched it; the active report, the field reports, the pending stop, the unattended mode with its worker | start, stop, single output, snapshots, asynchronous refresh, observation of monitor frames, retry of a pending stop, shutdown; switching the unattended mode | every relay command is a TCP exchange under one mutex while frames queue up; lost replies; the mutex released in the middle of a request; restarts with outputs closed |
| relay connection (`relay.go`, `relay_monitor.go`) | connection status, last input and output frame, the control version | commands on a connection each, a monitor that polls and hears what is sent unasked | an answer of an old query after a new command; answers carry no number |
| interference reports (`internal/interferencereport`) | one SQLite row per report | create, update, close running rows | a row left running |
| target store (`internal/store`) | FPV targets, positions, ring of targets to archive, expired positions, device location, subscribers | add, merge, absorb, prune, sweep, drain, publish | batches archived without the lock while the ring moves on; what expired is moved in one critical section and taken in the next; events published after the lock is released |
| intrusion archive (`internal/intrusion`) | SQLite rows, one per appearance | insert-or-ignore, list, delete, retention | insertion that fails after being carried out, or after the row was deleted |
| position listener (`internal/position`, `internal/diddecrypt`) | TCP and UDP sockets, the decoder's MQTT session, its keys, subscriptions and waiting requests | accept, parse, decrypt, merge, change the port | decoded results that overtake or miss their placeholder; a port change during an open or an accept; answers that come early, late or twice |
| FPV receiver (`internal/fpv`) | a TCP listener the device connects to, its connections, the waiters for AT answers | accept, scan, tune and release by AT commands, change the port | a late OK taken for the answer of the next command; a port change between acceptance and registration |
| FPV video (`internal/fpvvideo`, the session in `internal/httpapi`, `internal/fpvrecord`) | one session, the MediaMTX process, the RTMP publisher, a row per recording | begin, tune, restart, stream, stop with retries, shutdown | the process ends while it is being replaced; the client leaves during the start; the device does not answer |
| HTTP API (`internal/httpapi`) | the FPV session, server-sent event subscribers | handlers | requests that overlap |
| Lingyun and counter-strike connectors (`internal/lingyun`, `internal/counterstrike`) | settings, connection generation, MQTT session, subscriptions, pending objects, remembered answers | tick, save settings, reconnect, publish, execute commands | what was read before a connect or a publication is stale after it; callbacks of a replaced session; duplicate commands |
| network management (`internal/network`) | the managed netplan document, its backups | update with a check and a way back, apply, restart, restore | one step of several failing; overlapping updates; death between two steps |
| offline maps (`internal/offlinemap`) | tiles, manifest, backups | upload: unpack beside, switch by renaming | the same |
| settings (`internal/settings`) | the document, the running copies of it, the manual location | load-change-save, apply, put back | refusals and failures after a part was applied |

Interaction. The API calls the services directly. The relay monitor calls the
interference service back with frames and errors through a channel
(`external.go:Run`); the unattended worker asks the store whether a target is
present and calls the same start as the API; both connectors command strikes
through the same service; the service writes report rows. Receivers call the store;
the store publishes events to subscribers (web page, connectors) and a ticker in
`app.go` sweeps FPV targets into the intrusion archive, while positioning targets go
there when somebody reads or feeds the list. The video session tunes the receiver,
restarts the process and writes the recording's row. Shutdown stops the HTTP
server and the video, drains the store, and closes the running reports.

What makes each part correct, in one line each:

- *strikes*: an output the platform closed is in a report, the report ends when
  the outputs were seen open, a stop that succeeds leaves nothing on, a stop that
  cannot reach the relay is carried out later and meanwhile prevents a start;
- *unattended mode*: one worker, that the service can cancel; strikes only while
  the mode is on; no manual strike meanwhile; the saved mode is the mode;
- *FPV targets*: one target per device; each valid one is archived unless the ring
  overflowed; subscribers hear of it in order; a drain delivers;
- *relay monitor*: an answer is not taken for the state after a later command;
- *positions*: a decoded drone is one row; an expired target is archived once and a
  deleted row does not come back;
- *receivers*: they listen, and read, where they were told last;
- *decoder*: an answer reaches the packet it answers, and only accepted keys are used;
- *video*: a watching viewer keeps the stream, nothing runs on after a session, a
  session without a client is released, a ready recording is complete;
- *connectors*: a connected session has its control topics, no object is lost, no
  command executed twice, and after any trouble the connector recovers;
- *network, maps, settings, location*: what was accepted, installed or saved is what
  is in use once a request has ended, however it ended.

## 2. Modules

| module | role |
|---|---|
| `Interference` | strike lifecycle and reports: service mutex, relay, monitor queue, reports, crash and restart |
| `Unattended` | the unattended mode: worker goroutine, requests with the windows in which the mutex is free, the saved mode, restart |
| `ArchivePromise` | abstract specification: what may become of an FPV target |
| `FPVArchive` | FPV targets, events, ring, sweep, drain, archive; refines `ArchivePromise` |
| `CounterStrike` | the counter-strike connector |
| `Lingyun` | the Lingyun connector |
| `Connectors` | composes the two |
| `FPVVideo` | the video session, its device, process, publisher and recording |
| `Listener` | a TCP receiver whose port can be changed; the position receiver is nothing else |
| `FPVReceiver` | `Listener` and the AT commands over its connections |
| `Positions` | the live list of positioning targets and the lines and decoded packets that feed it |
| `DIDDecoder` | the decoder of encrypted packets and its MQTT session |
| `Intrusions` | the way of a positioning target into the archive |
| `DeviceLocation` | the receiver's place, its own or the operator's |
| `RelayMonitor` | commands, queries and frames between the platform and the relay |
| `Network` | the managed netplan document |
| `Settings` | the settings document and its running copies |
| `OfflineMap` | the installation of map packages |
| `Station` | composes the ten modules from `FPVVideo` to `OfflineMap` (the listener through the FPV receiver) |
| `InterferenceProofs`, `UnattendedProofs`, `FPVArchiveProofs` | theorems about the module of that name |
| `ConnectorsProofs` | theorems about `Connectors`: Lingyun in place, the other from `CounterStrikeProofs` |
| `StationProofs` | theorems about `Station`: archive, network, decoder, settings, location, maps, relay and positions in place, the receiver from `FPVReceiverProofs`, the video from `FPVVideoProofs` |
| `MCInterference`, `MCUnattended`, `MCFPVArchive`, `MCConnectors`, `MCStation` | constants for TLC, nothing else |

### Interference

`op` is the program counter of whoever holds `Service.mu`: an operation takes it
(`Begin`), reads channels one by one (`ReadOk`, `ReadFail`, `ReadOffline`),
switches them (`HighOk`, `LowOk`, ...) and concludes (`StopEnd`, `StartDone`, ...).
One relay exchange, with the offline check before it, is one step, because the
relay, the field, the link and the monitor queue move on between two exchanges.
`wire` is the frame the relay has sent and the monitor has not received: the outputs are
those at its sending, its time that of its reception (`relay_monitor.go:111-135`), and
an ASCII read on a connection of its own may fall between the two. `queue` and `callback`
are the monitor's channel and callback (`external.go:19-35`), `refresh` the asynchronous refresh (`service.go:371-380`),
`db` the rows with status running, `active` and `ext` the reports in memory.
Manual and unattended starts are the same `Start`; a request that validation
refuses, and `ListChannels`, only take a snapshot (`Look`).

### Unattended

Each worker is `runUnattended` with a step per lock and per look at its context
(`wpc`), each request is `setUnattended`/`disableUnattended` cut where the mutex is
free (`cpc`): before the wait for the worker ends (`service.go:514-517`) and while
the mode is saved. What happens inside a start or a stop is one step here, with
the outcomes that `Interference` gives it: carried out, refused, failed, pending, and
for a stop that finds the relay offline again and no report running, ended without an
error with the pending stop cleared and the output as it was (`service.go:735-750`).

### FPVArchive

`live` is the list of targets in the order of their last signal, `slots`/`head` the
ring, `outbox` the events a caller still has to publish, `flush` the program counter
of the sweeper and of the drain, `db` the archive. `ArchivePromise` gives every
target a fate (live, owed, archived, dropped, ended); the refinement mapping `fate`
reads it off the store, and `Promise` says that every step of the store is a step of
the promise: a target that was valid is never lost except when the ring is full, one
that never was valid is not archived, none comes back.

### CounterStrike, Lingyun, Connectors

Both connectors read settings and generation under the lock, talk to the broker
without it, and look at the generation again before they book the result. `tick` is
the loop between two of these points, with what it has read; `caller` a settings
handler between its critical section and its `Disconnect`; `lost` a callback of
the client that has not run yet. `client` is the MQTT session: what it was opened
with, whether it is alive, and the topics subscribed on it.
`CounterStrike` has the control handler (`control`, one at a time under `controlMu`)
with the remembered answers (`responses`); `Lingyun` has the publishing goroutines
(`jobs`) with the settings key they carry (`inFlight`), the objects waiting
(`pending`) and the client that reconnects by itself (`Library`). In either, `client.late`
remembers of a session that it was opened with settings already replaced: `Connect` keeps
any connected client (`transport.go:47`, the finding `connectors_stale_session`), so
`Recovers` requires the session of the saved settings of all others. `Connectors` follows
one of the two (`subject`): they share no state but the interference service, which
each treats as answering anything.

### FPVVideo

`viewer` is `handleScreenFPVVideoSession` per client with a step wherever it waits
(tuning, restart, the stream); `stop` is whoever holds `fpvVideoStopMu`, with its
attempts to switch the device off; `closing` is the close of the process, cut at its
locks and waits (`fpvvideo/service.go:224-296`). The device is `pipe`, `tuned` and
`command`: an answer belongs to no request, so a late one is taken by the next
command (`misread`). `process` and `publisher` end when they are told to, or by
themselves; `records` is the row of a session with its outcome.

### Listener, FPVReceiver

`loop` is `Run` between its critical sections, with the port and the configuration
version it has read; `socket` the only listener there can be; `conns` the
connections' goroutines between acceptance, registration and cleanup; `closing` what
`SetPort` has taken away and closes after it has released the lock. The position
service and the FPV service have the same code here; `FPVReceiver` adds
`commandMu` and the waiter for an answer, and is what `Station` instantiates.

### Positions, DIDDecoder, Intrusions, DeviceLocation

`Positions` is `AddPosition` with its matching, merging, absorption, TTL and limit (a
list too long is sorted by last sight before it is cut, and those seen at one time may come
in any order). A target's `corr` is its correlation: the id of the packet it came from, or
the uuid its sender gave when there was none (`parser.go:353-361`, `424-431`), which is never
such an id and which two drones may share. `IngestLine` is cut where it leaves the lock
between the check for a decoded drone and the addition of a placeholder, and where a
decoder's goroutine removes the placeholder before it adds its result. `DIDDecoder` has what those goroutines do
meanwhile: one client, one subscription per device, a channel per request, cached
keys. `Intrusions` follows expired targets: moved aside while the list is locked,
taken away in a second critical section, inserted one by one. `DeviceLocation` is the
fix, the manual place and its file.

### RelayMonitor

A command holds `RelayController.mu` (`mu`), raises the control version before and
after its write and its answer; the monitor remembers the version of its query and
drops an answer that a command has overtaken. `executed` and `seen` record which
command a frame is later than.

### Network, Settings, OfflineMap

Each client's request is a program counter with one step per effect on a file or on a
service (`request`, `upload`); every step can fail, two requests can overlap because
nothing serialises them, and `Crash` or `Restart` may fall between any two. A start takes
the saved settings but for a streaming host that is no address of the machine any more
(`app.go:206-222`), or none when the document cannot be read (`app.go:57`).

### Station

A behaviour follows one part (`subject`). The parts do not act on each other's state:
where one reads another (the video settings look at the session, a result of the
decoder enters the list, the relay's update reaches the interference service) the
reading module has an abstraction of what it reads that may change at any time. So
nothing is lost by not interleaving them, and their state spaces add up instead of
multiplying.

## 3. What the models abstract

- *Time.* `Interference` keeps of the timestamps only what they decide: `fresh` in a
  queued update is the set of channels on which no read or command finished since it
  was received (`ObserveRelayState`, `external.go:68-82`). `FPVArchive` keeps the order
  of last signals; expiry of the longest unseen may happen at any moment, in any
  order of the slice. `Positions`, `DIDDecoder`, `Intrusions` and `OfflineMap` have a
  clock of their own in the unit that matters there (a TTL, the life of a key, a day,
  the second in a backup's name). In the connectors an interval that has passed is a
  flag (`retryLater`, `due`).
- *Relay.* In `Interference` an output is open, closed by the platform or closed by
  somebody else. A frame is sent, with the outputs of that moment, and received later; it is
  an answer to the monitor's query, dropped when a switching command finished in between
  (`NewVersion`), or one the relay sent unasked, which nothing drops (`Overtake`). One
  frame is on the wire at a time; the protocol behind it is `RelayMonitor`, where the
  outputs are one value. Input updates are ignored by the service. After a restart a closed output counts as field
  operation, as `docs/relay-input-control.md:28` defines it.
- *Database.* Only running report rows; a failed report was never running. One flag
  decides whether the writes of one step succeed. `CloseRunning` at startup may fail, for
  its error is only logged. An archived target is a row with its day.
- *Requests.* The offline check of a request precedes its wait for the mutex, so a
  request may begin while the relay is offline.
- *Publishing* drops events for a subscriber whose channel is full. Dropping does not
  reorder, so `FPVArchive` leaves it out.
- *Archive failures.* `Refused` are targets that the database always refuses; other
  failures are bounded, and one that fails may have been carried out.
- *A crash* loses the store's memory; it is not modelled for `FPVArchive`, where nothing
  is promised about it. `DrainFPV` that returns nil because its context ended right
  after a batch is excluded from `DrainDelivers` and listed as a hazard.
- *Connectors.* A fingerprint of settings is the settings themselves. Encryption, the
  layout of payloads, publish logs and debug publications are left out; a strike
  command is accepted or refused by the interference service as it likes. Settings,
  requests and targets are records of what decisions look at. `told`, `reported`,
  `answered` and `owed` are history.
- *Video.* A recording's path is its session's number, the device is tuned for a session
  or off, and the stream itself is not there. Recordings are always configured, as the
  application wires them.
- *Receivers.* What is read is not looked at. A fault is a failed accept or a port that
  somebody else has. The address of a connection matters because the services register
  connections under it.
- *Positions.* A drone stands for its serial number and for the id its packets are
  encrypted under; a uuid is a value of its own. Coordinates, models but for whether they say anything, and the
  trajectory are left out. A result names both serial and model, one of them or neither.
- *Decoder.* The request id, drawn at random, is the packet's number: ids do not collide.
- *Archive of positions.* A target is one appearance of a drone; which reports make one
  is in `Positions`.
- *Network, settings, maps.* A document, a section or a package is a value; `Rejected` and
  `Invalid` are those that netplan or the scan of the archive refuse. A rename onto a
  directory with tiles in it fails, and removing a directory is one step. The settings are
  those a request changes in several steps (host, RTMP, the rest): the ports are saved only
  together and validated, so that only a document edited by hand has ports a start
  ignores (`app.go:251`), which is left out. The flags
  `disturbed` record that requests met, that one was cut off, or that putting back failed:
  the properties say what holds without that, and `MapKept` also what holds with it.

## 4. Runs, bounds and what they show

| run | instance | shows |
|---|---|---|
| `interference_safety` | two channels, two requests, one fault of any kind except a lost reply, queue of 1 | `RunningRowsTracked`, `NoStartWhilePending`, `StopLeavesNoStrike`, `CompletionObserved`, `PlatformStrikeNotRecordedAsField` |
| `interference_liveness` | one channel, two requests, one fault of any kind, queue of 1 | `QuietEndsReports`: the monitor alone ends every report; `PendingStopResolved` |
| `interference_pending_stop` | one channel, two link failures | finding: `PendingStopCarriedOut` is violated |
| `interference_lost_reply` | one channel, one lost reply | finding: `PlatformStrikeNotRecordedAsField` is violated |
| `interference_late_frame` | one channel, no fault, a start and a poll | finding: `FieldReportIsField` is violated by a frame that was on the wire |
| `unattended_safety` | two clients that may overlap, three requests, one failure or restart | `EnabledHasWorker`; `OneWorker`, `ManualExclusive`, `SavedAgrees`, `StrikesWhileEnabledAlone` while requests do not overlap |
| `unattended_liveness` | one client, three requests, one failure | `DisableReturns`, `TargetIsStruck` |
| `unattended_disable` | one client, no failure | finding: `DisableStops` is violated |
| `fpvarchive` | three signals on three frequencies with and without serial number, two live targets, ring of two, batches of one, a sweeper and a drain, one target always refused, one failure that may have been carried out | `UniqueSerial`, `ToldInOrder`, refinement `Promise`, `DrainDelivers`, `EventuallyArchived` |
| `connectors` | either connector, two outside events each (settings saved, reconnects, broker faults, commands, targets), one remembered answer, a queue of one | `ControlChannelOpen`, `RegisteredMeansTold`, `ExecutedOnce`, `NothingLost`, `Recovers` |
| `connectors_stale_session` | one change of settings | finding: `SessionMatchesSettings` is violated |
| `station` | two clients of every part, one failure each, see below | `NothingLeftRunning`, `ViewerKeepsStream`, `ReadyRecordComplete`, `SessionReleased` (video), `ListensWhereTold` (receiver), `DecodedIsOneRow` (positions), `HandedOverOnce` (archive), `AnswersMatch` (relay and decoder), `AcceptedAtRest` (network), `RuntimeIsSaved` (settings and location), `MapKept` (maps) |

Every run of `pass` also checks a type invariant, except the two liveness runs, which
explore instances of the same modules.

Why the bounds are enough.

- `Interference`: two channels distinguish partial from full snapshots, an output that
  is switched from one that is not yet, and a report of one channel from one of two.
  Two requests are a start and what follows it (stop, second start, shutdown),
  besides the monitor, the refresh and the field, which are unbounded. Two faults are
  needed only for the pending stop, and that run has them; a frame the relay sends unasked
  counts as a fault, one that answers the monitor does not. One frame on the wire and one
  in the queue are one older and one younger than what an operation reads. Two rows per kind
  (`RowIdsTwo`) are one running row and one that a failed write left behind.
- `Unattended`: three requests are on, off and a third that overlaps, and `MaxWorkers` is
  larger than requests and faults together, so it never binds (`UnattendedAssumption`).
- `FPVArchive`: three signals make three targets, or two and a merge, or an ambiguity; a
  ring of two is full with two of them and overwrites with the third. A batch is one
  target, so that a drain needs several while the sweeper and the failing archive meet it.
  Batches that are refused in part are beyond the run; the theorems hold for every size.
- `Connectors`: two events are a change and what meets it (a second change, a broken
  connection, a command); the loop, the callbacks and the retries are unbounded. One
  remembered answer makes the second task evict the first.
- `Station`: two sessions of the video are one that ends and one that follows, one event
  is a failure in either; one port change meets every place of the loop and of two
  connections under one address; three lines make a drone known in three ways with a
  list of two rows, and one uuid is one that two drones share or that stands beside a
  packet's id; two packets are one waiting and one that comes meanwhile, one fault
  delays, loses or doubles an answer; three targets with room for two live are one that
  is trimmed; two commands and two frames are a query that a command overtakes; three
  updates of the network and three uploads are one that is accepted, one that is cut off
  or fails, and one that overlaps it or comes after; two settings requests overlap.

Every property of a passing run has a mutant in `PROJECT.json`: a plausible mistake in
a mapped definition (a dropped guard, a condition on the wrong field, a missing
reset) with which TLC finds the property violated under the same configuration.

## 5. Fairness

Only what the scheduler and the environment owe the program is fair.

- `Interference`: relay exchanges have timeouts, so an operation that holds the mutex
  goes on (WF). `sync.RWMutex` does not starve a waiter, so whoever waits for the mutex
  again and again gets it (SF on the observation, the retry and the refresh). The
  monitor polls each second and receives what the relay answers (WF on `Sent(TRUE)` and
  `Frame`); frames that nobody asked for are faults and owed to nobody. No request, field operation or fault is
  fair; requests and faults are bounded, which is the situation `external.go:18` is
  written for (no screen, no API client).
- `Unattended`: goroutines run (WF on worker and request steps), the relay's own timer
  ends every strike, the monitor delivers frames and retries. Targets, the link and
  requests are not fair: `TargetIsStruck` assumes that the mode, a target and the link
  stay.
- `FPVArchive`: the ticker sweeps every second, the backoff is at most a minute, events
  are published. Signals, reads, drains and failures are not fair.
- `Connectors`: the loop runs, a handler or callback that was entered is finished, a retry
  delay and a report interval pass. Lingyun's library, which reconnects by itself, is not
  fair: `Recovers` holds without it. The condition for one thread of either connector is
  one WF for both, because a behaviour follows one of them for good.
- `Station`: only the video is fair (`FPVVideo!Fairness`): its threads go on, a process
  that was told to end and a cancelled publisher end (the code kills the process after a
  delay, `fpvvideo/service.go:224-259`), and an AT command is answered or times out.
  Clients, the device, the process ending by itself and settings are not fair.

## 6. Proofs

The proof modules prove their theorems for every value of the constants, from the
named assumptions of the modules only, which TLC evaluates on every run.

`InterferenceProofs`:

- `TypeCorrect`: `Spec => []TypeOK`.
- `ReportsTracked`: `Spec => []RunningRowsTracked`. Alone the invariant is not inductive:
  a start that has passed its checks overwrites `active`. `ReportInv` adds what the code
  relies on: the rows in memory are running rows of their own kind (`RowsInMemory`), a
  snapshot that calls itself full has seen every channel already read (`FullySeen`), a
  start beyond its checks has no report (`StartHasNoReport`, by `StartRefused` and the
  completion in between), and a dead process remembers none. One lemma per group of
  actions.
- `PendingBlocksStarts`: `NoStartWhilePending` is inductive together with the types: a stop
  becomes pending in a step after which nobody holds the mutex, and a start looks first.
- `CompletionsObserved`: `Spec => CompletionObserved`, by the same invariant: each way of
  closing a row has the evidence the property asks for.
- `StopsLeaveNoStrike`: `StopKnows` says what a stop knows at each of its stages. During the
  first snapshot every platform output already read was seen closed; while it opens
  channels, a platform output that was seen is still to be opened, unless an error was
  noted; at the last snapshot, with all seen and no error, there is none. Field switches,
  timers and the link move in between: they close no platform output.
- `PlatformIsNotField`: `PlatformStrikeNotRecordedAsField`, assuming `"lost" 
otin Faults`:
  with a lost reply it is false, as `interference_lost_reply` shows. Without exception it is
  false even with no fault: a frame has the outputs of its sending and the time of its
  reception, and a read on a connection of its own gives up control of an output seen open
  without moving the version by which the monitor drops late answers. The property names
  what that leaves (`overtaken`: a read saw the output open while the frame was on the
  wire; `misled`: an unasked frame outlived a switching command), `interference_late_frame`
  shows the strict form violated, and the theorem says that nothing else goes wrong.
  `OwnStrikes` ties the frames on the wire and those that wait for the mutex to the
  outputs and to what the service controls: it controls every output the platform closed
  (`StrikesKnown`); a frame that still counts for an output and shows it closed by the
  platform is of one the service controls or was overtaken (`AnnouncedBy`), and after a
  frame that shows it open no later one shows it closed by the platform (`FramesInOrder`,
  `WireInOrder`). `Supersede`, by which a finished exchange takes its channel out of the
  frames already queued, and `NewVersion`, by which a command drops the answer on the wire,
  are what makes this inductive.

`UnattendedProofs`:

- `TypeCorrect`, `EnabledIsServed`, `WorkerIsUnique`, `ManualIsExclusive`, `ModeIsSaved`,
  `StrikesOnlyWhileEnabled`. One inductive invariant, `IInv`:
  `WorkersInv` (workers not started yet do nothing; the one the service can cancel runs
  and was not cancelled) and `Served` hold whatever overlaps. `AloneInv` says that as
  long as requests have not overlapped at most one is under way: either none (`Quiet`:
  every worker is the one the service can cancel, and the saved mode is the mode) or
  one (`Busy(c)`: every worker is the service's or the one `c` waits for, and what `c` has
  left to do will make the saved mode the mode). With it `ModeKnown`: the mode is on
  while it has a worker, and no manual strike runs. A worker at its start is unfinished,
  so it is known, so the mode is on: that is `StrikesOnlyWhileEnabled`.

`FPVArchiveProofs`:

- `TypeCorrect`, `SerialIsUnique`, `RemovalIsLast` and `PromiseKept`: every step of the store
  is a step of `ArchivePromise` or a stutter. One inductive invariant, `ArchiveInv`. `Lives`:
  a target is known once, and knows whether it was ever valid. `Places`: a target that was
  valid is live, or pending or overwritten, or archived, and a live one is none of the
  others; without it a retirement could put a candidate into the ring twice. `Flushing`:
  only the flush that holds the gate has a batch, its batch was pending, and what is about
  to be taken out of the ring is in the archive. `Telling`: events wait only with the one
  that holds `fpvEventMu`, a removal is of a target that is gone and an update of a live one.
- Every change of the list (a read, a sweep, a drain, a signal that merges or that starts a
  target) is shown to have the shape `Changes`: of the targets that were live, and at most
  one that appeared, each is live or has retired. What follows from it is proved once.
- `retireFPVLocked` and `applyFPVArchiveBatch` loop over a slice. Their models are recursive
  functions (`QueueAfter`, `Among`), and what they compute for every slice is proved by
  induction over the set of the lengths for which it holds (`SetInduction`, from the
  well-foundedness of the naturals; `Recursion` for the existence of the function).
- `DrainsDeliver`: a drain takes as many candidates as there were when it began, counted and
  not named, while others queue behind them and the full ring drops the oldest. Its
  invariant, `Draining`, is about places: read from its head (`Order`), the ring has what
  the drain owes (`Owed`) within the first `left` candidates that its batch does not hold
  (`InTime`). A retirement moves the ring up and adds candidates at its end (`Shifted`,
  `RetireShifts`), which can only bring what is owed nearer; a batch is what comes first
  (`InTimeBatch`); and `applyFPVArchiveBatch` keeps the order of what it leaves
  (`AmongInPlace`, `InTimeWithout`). With `left` at zero nothing is owed (`InTimeOver`).
- One more thing the proof needed and TLC had not shown with batches of one: a batch is
  never longer than what is in the ring (`nextFPVArchiveBatch`, `store.go:557`).

`StationProofs` and `ConnectorsProofs` prove the properties that the runs of these two
modules check. A step of the composition is a step of each part or leaves its variables
alone (`StepsOfParts`, `StepsOfConnectors`), and the initial states are initial for each
part (`StartOfParts`), so an invariant of a part is one of the composition. The parts
`CounterStrike`, `FPVReceiver` and `FPVVideo` have proof modules of their
own, which are instantiated with the composition's variables; the others are proved in
place.

| theorem (property) | inductive invariant, and why the property alone is not inductive |
|---|---|
| `ExpiredHandedOver` (`HandedOverOnce`): no expired target is lost between the two critical sections or taken twice, no deleted row returns | `ArchiveInv`: `CallerTypes`, `Apart` (what callers hold, what is waiting and what is in rows are disjoint), `RowsLeft` |
| `DocumentAccepted` (`AcceptedAtRest`): between updates that did not meet, the document is one netplan accepts | `NetworkInv`: one request at a time and `PreviousAccepted` (the copy to put back was accepted when it was read), each under "not disturbed" |
| `RunsWithSaved` (`RuntimeIsSaved`): between requests that did not overlap the program runs with what a restart would load | `SettingsInv`: at each stage of the request under way, `Before` and `After` say which settings are already applied, which are already saved, and that the copy to put back is the one a restart would load; `LocationInv` the same for the manual location (`Written`) |
| `Listens` (`ListensWhereTold`): who accepts does so on the port told last, and what is read came from there | `OpensWhatItRead`, `KeptWhileServed`, `KeptIsPresent`, `EntriesServed`, `ReadersRegistered`: an entry belongs to the connection being served, so that its cleanup removes its own |
| `MapsAreKept` (`MapKept`): there are always tiles, in use or in a backup; between uploads that did not meet they are the ones the manifest names | `MapInv`: `BackupsOwned` (a backup belongs to one upload), `SpareBackup`, `MapOrdered` (what an upload has reached tells where the tiles are) |
| `AnswersMatchQuestions` (`AnswersMatch`): a relay output from before a succeeded command is not passed on, a decrypted answer reaches its packet, a key counts only once accepted | relay, `RelayInv`: `RelayCounts`, `FramesQueued`, `OneAnswer`, `AnswerIsFresh`, `RelayRests` (at most one answer is on its way, and it is younger than the version the monitor noted); decoder, `DecoderInv`: a packet that waits is `Registered`, and an acceptance on its way or received is of a known key (`Accepted`) |
| `NothingRunsOn` (`NothingLeftRunning`): while nobody watches nothing runs that was not told to end; `StreamIsKept` (`ViewerKeepsStream`): a viewer keeps its stream until its own client ends it; `ReadyIsComplete` (`ReadyRecordComplete`): a recording shown as ready is complete | `VideoInv` says, until a shutdown meets a viewer that starts: the session belongs to the viewer that serves it or to the stop that ends it, never to both (`Owned`, `ShutDown`); only they close the converter, and each stage of a close has ended what it says (`Closers`, `ClosedSoFar`); before its device is tuned a viewer finds nothing running, after that what runs is its own (`Progress`); a stop that reaches its release has ended both (`StopProgress`); the last command sent while a stop waits is the one that turns the device off (`Commands`); nothing on its way leads back to a recording that is ready (`Recorded`) |
| `RowIsOne` (`DecodedIsOneRow`): a drone whose result is added is one row of the list | `PositionsInv`: but for the drones in `crossed`, only the placeholder of a packet lacks the serial and a row under a packet's id is of its drone (`Own`), each drone has at most one such placeholder and one other row beside the placeholders under uuids (`Alike`), none of which could merge with a placeholder of a packet for their serial (`Clash`), together `Orderly`; and while a result waits to be added the placeholder is gone for good (`Decoding`). Two rows of one drone may be ones `samePositionIdentity` tells apart, so that "no two rows are the same" is not enough: a merge can make a row the same as a third one. `Fits` is what each report has to be for `Orderly` to survive its addition, and `Crosses` is exactly what makes it so; `Thins` says what pruning, sorting with trimming, and removing have in common, that rows are left out; `MergeSame` and `MergeDecoded` what `mergePosition` makes of two reports |
| `ChannelsAreOpen` (`ControlChannelOpen`): a connected live session has the control topics of the saved device | for one connector `Types`, `LoopKnows`, `Channel`; for Lingyun `SessionInv`: `TickKnows` (the settings of a tick are the saved ones as long as its generation is) and `Subscribed`. Between two steps of a tick the session may be replaced: the invariant ties each stage to the generation it read |
| `RegistrationsAreTold` (`RegisteredMeansTold`): a registration time belongs to settings that were registered | `Registrations`: a late answer of an old generation is not booked |
| `CommandsExecutedOnce` (`ExecutedOnce`): a command is executed again only after as many others as the cache remembers | `TasksInv`: a handler about to execute holds a task that is not remembered (`Handler`); a task answered is remembered, followed only by what was answered after it, or has been overtaken by as many different tasks as there are places (`CacheFollows`). The number of tasks in between is a cardinality, which the answers that follow it in the cache bound from below when it is evicted |
| `NoObjectLost` (`NothingLost`): an object taken in waits, or is held by a job, until it was published | `JobsInv`: a job that only has its status left to mark holds no objects |
| `TypesAreKept` of `StationProofs` (`TypeOK`): every part stays within its types and the limits of its queues and lists | the invariants above, and for each part what they leave open. Not obvious are `QueriesCounted` (of the relay's queries every one under way or answered is the one awaited or made up for by a report that nobody asked for: queries do not pile up on the link), `CommandsCounted` (a command moves the version twice and is carried out once at most), `ArchiveRest` (the list is cut after whatever filled it) and `Documented` (a request for settings has a whole document from its stages on) |
| `TypesAreKept` of `ConnectorsProofs` (`TypeOK`): no step works for a generation to come or for settings nobody saved, the cache and the event channel keep their sizes | for one connector `LoopKnows`, `Channel` and `Rest`; for Lingyun `LingyunTypes`, one lemma per group of variables |

Only model-checked:

- all liveness (out of the prover's reach): `QuietEndsReports`, `PendingStopResolved`,
  `DisableReturns`, `TargetIsStruck`, `EventuallyArchived`, the liveness of `Station` and
  `Connectors`.

## 7. Where the code disagrees with what is written about it

- `interference_pending_stop`: a retried stop that finds the relay offline again before
  its first snapshot, with no report running, stops nothing, has no error and clears
  `pendingStrikeStop` (`service.go:735-750`). The recovery tests expect the flag to be kept
  until the output is open (`service_test.go:990`, `:1019`).
- `interference_lost_reply`: `softwareControlled` is set after the relay's answer
  (`service.go:915-920`). A start whose reply is lost leaves an output that the monitor
  records as a field operation; `docs/relay-input-control.md:26` says that platform
  strikes are not recorded again as field control.
- `interference_late_frame`: `monitorConnection` stamps a frame when it has been read
  (`relay_monitor.go:111-135`), and an ASCII read on another connection moves no version. A
  frame sent during a platform strike, received after a poll read the output open and the
  service gave up control, is accepted (`external.go:53`) and opens a field report, against
  the same line of `docs/relay-input-control.md`.
- `unattended_disable`: `disableUnattended` decides whether to stop a strike before it waits
  for the worker (`service.go:465-469`). A worker past its last look at its context starts
  a strike in between, and disable returns without an error with the outputs closed;
  `service_test.go:940` expects a disable to have opened them.
- `connectors_stale_session`: the Lingyun transport keeps any client that is connected
  (`lingyun/transport.go:47`). Settings saved between a tick's look at the generation
  (`service.go:401`) and its call of the transport (`:407`) leave a session with the old
  broker and Client ID, which every later tick finds connected; `docs/user-manual.md:470`
  says that it reconnects with the new Client ID.

## 8. Known limits of the code

What was seen while modelling, none of it against a text of the repository except where
said. A flag in parentheses is the variable that restricts a property to the other case,
so that the property says exactly what holds.

- *Unattended mode* (`overlap`): the mutex is free while a request waits for the worker
  (`service.go:514-517`), and nothing keeps a second request from switching the mode in that
  window. A worker may survive that neither the service nor a request knows, and strike
  after the mode is off. `EnabledHasWorker` says what holds even then. `SavedAgrees` leaves out
  (`unsaved`) a save or a restore that failed: the document is then wrong until the next save.
- *Strikes*: the rollback of a failed start gives up at once, for the failure has marked
  the relay offline (`service.go:783-785`); a relay that goes offline in the middle of a
  start leaves outputs to the relay's timer, with no pending stop (`:777-782`);
  `finishActiveReportLocked` forgets a row whose update failed (`:1274`), which is why
  `RunningRowsTracked` excludes `unclosed`, as it does rows whose closing failed at
  startup (`app.go:83`, the error is only logged); that outputs stay on without a report is
  caught by no property; `pendingStrikeStop` does not survive a restart.
- *Relay monitor*: an answer that was already on its way when the relay reported unasked is
  passed on after the report, although the comment at `relay.go:225-226` has the version
  counter reject it: the counter counts commands only.
- *FPV receiver*: a tuning that timed out may still tune the device after the release, and
  its late answer is taken for the one of a later command (`misread`). A connection
  accepted before a change of the port and registered after it survives, and an entry
  under a reused address is removed by the cleanup of the earlier connection (`loose`).
- *FPV video* (`overlap`): a shutdown that meets the start of a video leaves a MediaMTX
  process.
- *Positions* (`crossed`): a placeholder added again between the removal and the addition of
  its decoded row stays; a result without a serial replaces the one of a named row and
  makes twins; two drones under one uuid are taken for each other; a drone of no known
  model heard with a packet and with a uuid has the two merged, and the correlation with
  which it ends decides which of them a result removes. A placeholder under the sender's
  own uuid (`Apart`) stays beside the decoded row of the same serial until it expires:
  `samePositionIdentity` keeps the two apart before it compares serials (`store.go:710`), and
  removal and absorption compare correlations. `DecodedIsOneRow` does not count it. What is trimmed by the limit, absorbed or live at shutdown is never
  archived, an insertion that fails is not tried again, and expired positioning targets
  are archived only when somebody reads or feeds the list.
- *Settings and network* (`disturbed`): load, change and save are not under a lock, so that overlapping requests lose
  updates, overlapping changes of the port interleave their two calls, and overlapping
  manual locations leave the memory different from the file. Putting back the streaming
  host is refused once the process has started. `RuntimeIsSaved` and `AcceptedAtRest` say
  nothing of overlapping requests, of a start that left a saved host or an unreadable
  document aside, and of a network update in which the process died or the old document
  could not be put back; of the connectors `RuntimeIsSaved` compares the program's copy of
  the settings, and a session may differ (`connectors_stale_session`). Events of the device location are
  published after the lock is released and may arrive out of order.
- *Connectors*: a reconnect of the MQTT client by itself drops the Lingyun subscriptions
  until the next tick. The decoder leaves a client behind for each attempt while the
  broker is down, and subscribes no more after the broker lost its session
  (`o4_mqtt.go:391`).

## 9. What is not modelled, and the plan

`PROJECT.json` lists every component with its status.

Not modelled, because they are conversions without state or configuration: the texts of
the receivers' protocols and the parsers beyond their case distinctions, coordinate
conversion, the model types, listings, filters and CSV exports, the configuration, the
license check (one comparison at start), the debug ring and the publication logs (bounded
lists for display). Not modelled, because they only pass bytes: the UDP receiver beyond
its line splitting, the WHEP proxy, the network diagnostics and `FixDNS`, the frontend and
the deployment tool.

Every invariant and every action property a passing run checks is a theorem too; liveness
is only model-checked (section 6).
