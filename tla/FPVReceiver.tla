----------------------------- MODULE FPVReceiver ------------------------------
(***************************************************************************)
(* The receiver of the A3-F9 (internal/fpv/service.go): a listener over whose *)
(* connections AT commands go out.  A command is written to one of them and  *)
(* takes the first answer that arrives on any; SetPort closes them and        *)
(* forgets who waits for an answer.  The frames read and the effect of a      *)
(* command are in FPVArchive and FPVVideo.                                   *)
(***************************************************************************)
EXTENDS Listener

VARIABLES
  command,  \* who holds commandMu: the connection and how far it is
  waiter    \* whether its channel is among commandWaiters

cvars == <<command, waiter>>
vars == <<lvars, cvars>>

Init == LInit /\ command = None /\ waiter = FALSE
------------------------------------------------------------------------------
\* Run and its listener are those of the position receiver.
Run == LoopStep /\ UNCHANGED cvars
Used(k) == command # None /\ command.conn = k
Serve ==
  /\ \/ \E k \in Conns, a \in Addresses : ~Used(k) /\ Accept(k, a)
     \/ AcceptFails
  /\ UNCHANGED cvars

\* SetPort also drops the waiters.
SetFPVPort ==
  /\ \E p \in Ports : SetPort(p)
  /\ waiter' = FALSE /\ UNCHANGED command
CloseOld ==
  /\ CloseListener \/ \E k \in Conns : CloseConnection(k)
  /\ UNCHANGED cvars

RegisterSource == (\E k \in Conns : Register(k)) /\ UNCHANGED cvars
HandleConnection == (\E k \in Conns : ReadEnds(k)) /\ UNCHANGED cvars
UnregisterSource == (\E k \in Conns : Unregister(k)) /\ UNCHANGED cvars
EndListener == ContextClosesListener /\ UNCHANGED cvars
EndConnection ==
  /\ \E k \in Conns : ContextClosesConnection(k)
  /\ UNCHANGED cvars
Environment ==
  /\ Cancel \/ \E p \in Ports : Take(p) \/ Leave(p)
  /\ UNCHANGED cvars
------------------------------------------------------------------------------
(* sendATCommand, for one caller at a time (commandMu).                     *)

\* activeCommandConnection: the active one, or else any.
CommandConnections ==
  IF active # None /\ clients[active] # None THEN {clients[active]}
  ELSE Registered
Pick ==
  /\ command = None /\ ~cancelled
  /\ \E k \in CommandConnections : command' = [at |-> "picked", conn |-> k]
  /\ UNCHANGED <<waiter, lvars>>
RegisterWaiter ==
  /\ command # None /\ command.at = "picked"
  /\ command' = [command EXCEPT !.at = "write"] /\ waiter' = TRUE
  /\ UNCHANGED lvars

\* The write fails if the connection has been closed meanwhile.
End == command' = None /\ waiter' = FALSE /\ UNCHANGED lvars
Write ==
  /\ command # None /\ command.at = "write" /\ At(command.conn, "reading")
  /\ command' = [command EXCEPT !.at = "wait"]
  /\ UNCHANGED <<waiter, lvars>>
WriteFails == command # None /\ command.at = "write" /\ End

\* ingestCommandResponse and notifyCommandResponse: an answer on a connection
\* ends the wait of whoever is registered.
Respond ==
  /\ command # None /\ command.at = "wait" /\ waiter
  /\ \E k \in Conns : At(k, "reading")
  /\ End
CommandTimeout == command # None /\ command.at = "wait" /\ End

SendATCommand ==
  \/ RegisterWaiter \/ Write \/ WriteFails \/ Respond \/ CommandTimeout
------------------------------------------------------------------------------
Next ==
  \/ Run \/ Serve \/ SetFPVPort \/ CloseOld
  \/ RegisterSource \/ HandleConnection \/ UnregisterSource
  \/ EndListener \/ EndConnection \/ Environment
  \/ Pick \/ SendATCommand

Spec == Init /\ [][Next]_vars
------------------------------------------------------------------------------
TypeOK ==
  /\ LTypeOK
  /\ command \in [at : {"picked", "write", "wait"}, conn : Conns] \cup {None}
  /\ waiter \in BOOLEAN
==============================================================================
