---------------------------- MODULE RelayMonitor ----------------------------
(***************************************************************************)
(* The two ways the platform talks to the network relay                     *)
(* (internal/interference/relay.go and relay_monitor.go): commands, one at a *)
(* time, each on a TCP connection of its own; and the monitor, a connection  *)
(* that asks for the outputs once a second and listens for what the relay    *)
(* sends unasked.  A reply has no request number, so that the monitor has    *)
(* only the control version to tell an answer from before a command from one *)
(* after it.                                                                *)
(*                                                                         *)
(* The eight outputs are one; what an update does to the strike state, and   *)
(* the channel it waits in, is in Interference.  An invalid frame is         *)
(* discarded, which is the same as not being sent.                           *)
(***************************************************************************)
EXTENDS Naturals, Sequences

CONSTANTS None, MaxCommands, MaxFrames, MaxChanges
RelayConstants ==
  MaxCommands \in Nat /\ MaxFrames \in Nat \ {0} /\ MaxChanges \in Nat

VARIABLES
  mu,         \* RelayController.mu: None, or the command that holds it
  version,    \* controlVersion
  connected,  \* connected, of the relay's status
  output,     \* the relay's output
  executed,   \* history: the control writes executed whose answer has come
  writes,     \* history: the control writes the relay has executed
  link,       \* the monitor's connection: up or down
  asked,      \* the queries on their way to the relay
  frames,     \* the frames on their way to the monitor
  awaiting,   \* awaitingOutput
  queryVersion,
  seen,       \* the last update given to observe, those of the inputs apart
  pushed,     \* history: the outputs were reported unasked on this connection
  commands,   \* bound: control writes so far, up to MaxCommands
  changes     \* bound: changes in the field and unasked reports, up to
              \* MaxChanges

controlVars == <<mu, version, executed, commands>>
relayVars == <<output, writes>>
monitorVars == <<link, asked, frames, awaiting, queryVersion, seen,
                 pushed>>
vars == <<controlVars, relayVars, monitorVars, connected, changes>>

Values == {0, 1}

Init ==
  /\ mu = None /\ version = 0 /\ connected = FALSE
  /\ output \in Values /\ executed = 0 /\ writes = 0
  /\ link = "down" /\ asked = 0 /\ frames = <<>>
  /\ awaiting = FALSE /\ queryVersion = 0 /\ seen = None
  /\ pushed = FALSE
  /\ commands = 0 /\ changes = 0
------------------------------------------------------------------------------
(* Commands: setValueWithDelay and sendASCII.                                *)

\* The lock is taken and the version made odd.
BeginSet ==
  /\ mu = None /\ commands < MaxCommands
  /\ \E v \in Values : mu' = [value |-> v, at |-> "dial"]
  /\ version' = version + 1 /\ commands' = commands + 1
  /\ UNCHANGED <<executed, relayVars, monitorVars, connected, changes>>

Send ==
  /\ mu # None /\ mu.at = "dial"
  /\ mu' = [mu EXCEPT !.at = "sent"]
  /\ UNCHANGED <<version, executed, commands, relayVars, monitorVars, connected,
                 changes>>

\* The relay switches and answers.
Execute ==
  /\ mu # None /\ mu.at = "sent"
  /\ output' = mu.value /\ writes' = writes + 1
  /\ mu' = [mu EXCEPT !.at = "answered"]
  /\ UNCHANGED <<version, executed, commands, monitorVars, connected, changes>>

\* The answer is read, the version made even and the lock given back.
EndSet ==
  /\ mu # None /\ mu.at = "answered"
  /\ mu' = None /\ version' = version + 1 /\ executed' = writes
  /\ connected' = TRUE
  /\ UNCHANGED <<commands, relayVars, monitorVars, changes>>

\* Dialling, writing or reading fails; the relay may have executed it.
FailSet ==
  /\ mu # None
  /\ mu' = None /\ version' = version + 1 /\ connected' = FALSE
  /\ UNCHANGED <<executed, commands, relayVars, monitorVars, changes>>
------------------------------------------------------------------------------
(* The relay.                                                                *)

\* An output is switched in the field, or by the relay's own timer, or by a
\* command whose sender has given up.
Field ==
  /\ changes < MaxChanges /\ changes' = changes + 1
  /\ output' = 1 - output
  /\ UNCHANGED <<controlVars, writes, monitorVars, connected>>

Frame(kind, unasked) ==
  [kind |-> kind, value |-> output, after |-> writes, unasked |-> unasked]

\* It answers a query ...
Answer ==
  /\ link = "up" /\ asked > 0 /\ Len(frames) < MaxFrames
  /\ asked' = asked - 1 /\ frames' = Append(frames, Frame("outputs", FALSE))
  /\ UNCHANGED <<controlVars, relayVars, connected, link, awaiting,
                 queryVersion, seen, pushed, changes>>

\* ... and reports a change of an input or an output unasked.
Report ==
  /\ link = "up" /\ Len(frames) < MaxFrames
  /\ changes < MaxChanges /\ changes' = changes + 1
  /\ \E kind \in {"inputs", "outputs"} :
       /\ frames' = Append(frames, Frame(kind, TRUE))
       /\ pushed' = (pushed \/ kind = "outputs")
  /\ UNCHANGED <<controlVars, relayVars, connected, link, asked, awaiting,
                 queryVersion, seen>>
------------------------------------------------------------------------------
(* Monitor and monitorConnection.                                            *)

\* Connecting and the first query, which is due at once.
Connect ==
  /\ link = "down"
  /\ link' = "up" /\ asked' = 1 /\ frames' = <<>>
  /\ awaiting' = TRUE /\ queryVersion' = version /\ pushed' = FALSE
  /\ UNCHANGED <<controlVars, relayVars, connected, seen, changes>>

\* A query, which the poll asks for once a second.
Query ==
  /\ asked' = asked + 1 /\ awaiting' = TRUE /\ queryVersion' = version
Poll ==
  /\ link = "up" /\ ~awaiting /\ Query
  /\ UNCHANGED <<controlVars, relayVars, connected, link, frames, seen, pushed,
                 changes>>

\* What leaving monitorConnection leaves behind: nothing of the connection.
Down ==
  /\ link' = "down" /\ asked' = 0 /\ frames' = <<>>
  /\ awaiting' = FALSE /\ queryVersion' = 0 /\ pushed' = FALSE

\* A failure, or no answer in time: the status and the service are told.
Lose ==
  /\ link = "up" /\ Down
  /\ connected' = FALSE /\ seen' = None
  /\ UNCHANGED <<controlVars, relayVars, changes>>

\* The check that tells an answer from before a command.
\* Mutant: only a command still under way is noticed.
SupersededNow == version % 2 # 0
Superseded == version % 2 # 0 \/ (awaiting /\ queryVersion # version)

ReceiveInputs ==
  /\ link = "up" /\ frames # <<>> /\ Head(frames).kind = "inputs"
  /\ frames' = Tail(frames)
  /\ IF awaiting THEN UNCHANGED <<asked, awaiting, queryVersion>> ELSE Query
  /\ UNCHANGED <<controlVars, relayVars, connected, link, seen, pushed, changes>>

ReceiveOutputs ==
  /\ link = "up" /\ frames # <<>> /\ Head(frames).kind = "outputs"
  /\ ~Superseded
  /\ frames' = Tail(frames) /\ seen' = Head(frames)
  /\ awaiting' = FALSE /\ connected' = TRUE
  /\ UNCHANGED <<controlVars, relayVars, link, asked, queryVersion, pushed,
                 changes>>

\* errRelayMonitorResync: the connection is given up, nobody is told.
Resync ==
  /\ link = "up" /\ frames # <<>> /\ Head(frames).kind = "outputs"
  /\ Superseded /\ Down
  /\ UNCHANGED <<controlVars, relayVars, connected, seen, changes>>

Next ==
  \/ BeginSet \/ Send \/ Execute \/ EndSet \/ FailSet
  \/ Field \/ Answer \/ Report
  \/ Connect \/ Poll \/ Lose
  \/ ReceiveInputs \/ ReceiveOutputs \/ Resync

Spec == Init /\ [][Next]_vars
------------------------------------------------------------------------------
Frames ==
  [kind : {"inputs", "outputs"}, value : Values, after : 0..MaxCommands,
   unasked : BOOLEAN]
TypeOK ==
  /\ mu \in [value : Values, at : {"dial", "sent", "answered"}] \cup {None}
  /\ version \in 0..2 * MaxCommands /\ connected \in BOOLEAN
  /\ output \in Values /\ executed \in 0..MaxCommands /\ writes \in 0..MaxCommands
  /\ link \in {"up", "down"} /\ asked \in 0..MaxFrames + MaxChanges + 1
  /\ frames \in Seq(Frames) /\ Len(frames) <= MaxFrames
  /\ awaiting \in BOOLEAN /\ queryVersion \in 0..2 * MaxCommands
  /\ seen \in Frames \cup {None} /\ pushed \in BOOLEAN
  /\ commands \in 0..MaxCommands /\ changes \in 0..MaxChanges

\* What the monitor passes on is from after every command that had succeeded
\* when it arrived, whatever the order of commands, answers, reports of inputs
\* and reconnects: "a monitoring query spanning this write must be retried
\* instead of applied" (relay.go:225).  It is so while the relay reports no
\* output unasked: such a report is taken for the answer awaited, and the
\* answer that follows it is then passed on unchecked.
FreshAnswers ==
  [][ReceiveOutputs /\ ~pushed => seen'.after >= executed]_vars
==============================================================================
