------------------------------ MODULE Listener -------------------------------
(***************************************************************************)
(* A TCP receiver whose port the settings can change while it listens        *)
(* (internal/position/service.go; internal/fpv/service.go does the same and  *)
(* more).  The loop of Run opens a listener and accepts, SetPort takes the   *)
(* listener and the connections away from it and closes them once it has     *)
(* released the lock, and each connection has a goroutine that registers     *)
(* itself under the sender's address and unregisters whatever is there.      *)
(*                                                                         *)
(* Only the loop opens a listener, the next one after the last was closed:   *)
(* there is one socket at most.  taken are the ports somebody else has, the  *)
(* other receiver for one.  What is read is in Positions and FPVArchive.     *)
(***************************************************************************)
EXTENDS Naturals

CONSTANTS None, Ports, Addresses, Conns, MaxChanges, MaxFaults
Connections ==
  [at : {"accepted", "reading", "left"}, address : Addresses, port : Ports]
ListenerConstants ==
  /\ None \notin Ports \cup Addresses \cup Conns \cup Connections
  /\ Ports # {}
  /\ MaxChanges \in Nat /\ MaxFaults \in Nat

VARIABLES
  port,       \* options.Port
  version,    \* configVersion
  listener,   \* whether s.listener is the socket
  status,     \* listening and listenError
  clients,    \* the connection registered under each address
  active,     \* clientAddress
  loop,       \* where Run is, and the port and version it opens
  socket,     \* the port it listens on and whether that is still open
  conns,      \* the connections' goroutines
  closing,    \* what the SetPort calls have yet to close
  cancelled,  \* the context has ended
  loose,      \* history: connections the service has no entry for
  taken,      \* the ports somebody else has
  faults      \* bound: failed accepts and ports taken so far

known == <<port, version, listener, status, clients, active>>
registered == <<clients, active, loose>>
config == <<port, version>>
env == <<cancelled, taken, faults>>
lvars == <<known, loop, socket, conns, closing, loose, env>>

Down == [listening |-> FALSE, error |-> FALSE]
Up == [listening |-> TRUE, error |-> FALSE]
Failed == [listening |-> FALSE, error |-> TRUE]
NoClients == [a \in Addresses |-> None]

LInit ==
  /\ port = CHOOSE p \in Ports : TRUE
  /\ version = 0 /\ listener = FALSE /\ status = Down
  /\ clients = NoClients /\ active = None
  /\ loop = [at |-> "top"]
  /\ socket = None /\ conns = [k \in Conns |-> None]
  /\ closing = [socket |-> FALSE, conns |-> {}]
  /\ cancelled = FALSE /\ loose = {} /\ taken = {} /\ faults = 0
------------------------------------------------------------------------------
(* runTCP.                                                                  *)

To(at) == loop' = [at |-> at]
Fault == faults < MaxFaults /\ faults' = faults + 1 /\ UNCHANGED <<cancelled, taken>>

\* openListener: the address and the version are read, ...
Top ==
  /\ loop.at = "top"
  /\ loop' = IF cancelled THEN [at |-> "end"]
             ELSE [at |-> "open", port |-> port, version |-> version]
  /\ UNCHANGED <<known, socket, conns, closing, loose, env>>

\* ... the port is opened, unless somebody has it, ...
Open ==
  /\ loop.at = "open"
  /\ IF loop.port \in taken THEN To("refused") /\ UNCHANGED socket
     ELSE /\ loop' = [loop EXCEPT !.at = "store"]
          /\ socket' = [port |-> loop.port, open |-> TRUE]
  /\ UNCHANGED <<known, conns, closing, loose, env>>

\* ... and the listener is kept, if the port was not changed meanwhile.
\* Mutant: it is kept in any case.
StoreAny ==
  /\ loop.at = "store"
  /\ To("opened") /\ listener' = TRUE /\ UNCHANGED socket
  /\ UNCHANGED <<config, status, clients, active, conns, closing, loose, env>>
Store ==
  /\ loop.at = "store"
  /\ IF version = loop.version
       THEN To("opened") /\ listener' = TRUE /\ UNCHANGED socket
       ELSE To("top") /\ socket' = None /\ UNCHANGED listener
  /\ UNCHANGED <<config, status, clients, active, conns, closing, loose, env>>

\* setListenerState, which may come after the next SetPort.
SetListenerState(before, after, s) ==
  /\ loop.at = before /\ To(after) /\ status' = s
  /\ UNCHANGED <<config, listener, clients, active, socket, conns, closing,
                 loose, env>>
Refused == SetListenerState("refused", "retry", Failed)
Opened == SetListenerState("opened", "accept", Up)
Broken == SetListenerState("broken", "retry", Failed)

\* serveListener: a connection is accepted, ...
Accept(k, a) ==
  /\ loop.at = "accept" /\ socket.open /\ conns[k] = None
  /\ conns' = [conns EXCEPT ![k] =
       [at |-> "accepted", address |-> a, port |-> socket.port]]
  /\ UNCHANGED <<known, loop, socket, closing, loose, env>>

\* ... accepting fails, or the listener has been closed: it is closed and
\* clearListener forgets it.
Clear(after) ==
  /\ socket' = None /\ closing' = [closing EXCEPT !.socket = FALSE]
  /\ listener' = FALSE
  /\ status' = [status EXCEPT !.listening = FALSE]
  /\ To(IF cancelled THEN "end" ELSE after)
  /\ UNCHANGED <<config, clients, active, conns, loose>>
AcceptFails ==
  /\ loop.at = "accept" /\ socket.open /\ Clear("broken") /\ Fault
Closed ==
  /\ loop.at = "accept" /\ ~socket.open /\ Clear("top") /\ UNCHANGED env

\* sleepOrDone.
Retry ==
  /\ loop.at = "retry" /\ To(IF cancelled THEN "end" ELSE "top")
  /\ UNCHANGED <<known, socket, conns, closing, loose, env>>

LoopStep ==
  Top \/ Open \/ Store \/ Refused \/ Opened \/ Broken \/ Closed \/ Retry
------------------------------------------------------------------------------
(* SetPort, by a request: the web server is shut down before the context     *)
(* ends (App.Shutdown).                                                     *)

Registered == {clients[a] : a \in Addresses} \ {None}
SetPort(p) ==
  /\ p # port /\ version < MaxChanges /\ ~cancelled
  /\ port' = p /\ version' = version + 1
  /\ listener' = FALSE /\ status' = Down
  /\ clients' = NoClients /\ active' = None
  /\ closing' = [socket |-> closing.socket \/ listener,
                 conns |-> closing.conns \cup Registered]
  /\ UNCHANGED <<loop, socket, conns, loose, env>>

\* What it took is closed after the lock has been released; reading from a
\* closed connection ends.
Shut(k) ==
  conns' = [conns EXCEPT ![k].at = IF @ = "reading" THEN "left" ELSE @]
CloseListener ==
  /\ closing.socket /\ closing' = [closing EXCEPT !.socket = FALSE]
  /\ socket' = [socket EXCEPT !.open = FALSE]
  /\ UNCHANGED <<known, loop, conns, loose, env>>
CloseConnection(k) ==
  /\ k \in closing.conns /\ Shut(k)
  /\ closing' = [closing EXCEPT !.conns = @ \ {k}]
  /\ UNCHANGED <<known, loop, socket, loose, env>>
------------------------------------------------------------------------------
(* handleConnection.                                                        *)

At(k, at) == conns[k] # None /\ conns[k].at = at

\* setSourceConnection(true): an entry under the same address is replaced.  A
\* connection of the port before the last SetPort is registered all the same.
Register(k) ==
  /\ At(k, "accepted")
  /\ LET a == conns[k].address
     IN /\ clients' = [clients EXCEPT ![a] = k] /\ active' = a
        /\ loose' = loose \cup ({clients[a]} \ {None})
                          \cup (IF conns[k].port = port THEN {} ELSE {k})
  /\ conns' = [conns EXCEPT ![k].at = "reading"]
  /\ UNCHANGED <<config, listener, status, loop, socket, closing, env>>

\* The sender goes or falls silent.
ReadEnds(k) ==
  /\ At(k, "reading")
  /\ conns' = [conns EXCEPT ![k].at = "left"]
  /\ UNCHANGED <<known, loop, socket, closing, loose, env>>

\* setSourceConnection(false): the entry under the address goes, also one that
\* a later connection has made; if it was the active one another takes over.
Unregister(k) ==
  /\ At(k, "left")
  /\ LET a == conns[k].address
         rest == [clients EXCEPT ![a] = None]
         others == {b \in Addresses : rest[b] # None}
     IN /\ clients' = rest
        /\ active' \in IF active # a THEN {active}
                       ELSE IF others = {} THEN {None} ELSE others
        /\ loose' = (loose \cup ({clients[a]} \ {None})) \ {k}
  /\ conns' = [conns EXCEPT ![k] = None]
  /\ closing' = [closing EXCEPT !.conns = @ \ {k}]
  /\ UNCHANGED <<config, listener, status, loop, socket, env>>

\* The goroutines that wait for the end of the context close what they watch.
ContextClosesListener ==
  /\ cancelled /\ loop.at = "accept" /\ socket.open
  /\ socket' = [socket EXCEPT !.open = FALSE]
  /\ UNCHANGED <<known, loop, conns, closing, loose, env>>
ContextClosesConnection(k) ==
  /\ cancelled /\ At(k, "reading") /\ Shut(k)
  /\ UNCHANGED <<known, loop, socket, closing, loose, env>>

Cancel ==
  /\ ~cancelled /\ cancelled' = TRUE
  /\ UNCHANGED <<known, loop, socket, conns, closing, loose, taken, faults>>

\* Somebody takes a port nobody listens on, or leaves it.
Take(p) ==
  /\ ~cancelled /\ p \notin taken /\ socket # [port |-> p, open |-> TRUE]
  /\ faults < MaxFaults /\ faults' = faults + 1 /\ taken' = taken \cup {p}
  /\ UNCHANGED <<known, loop, socket, conns, closing, loose, cancelled>>
Leave(p) ==
  /\ p \in taken /\ taken' = taken \ {p}
  /\ UNCHANGED <<known, loop, socket, conns, closing, loose, cancelled, faults>>
------------------------------------------------------------------------------
LTypeOK ==
  /\ port \in Ports /\ version \in 0..MaxChanges /\ listener \in BOOLEAN
  /\ status \in {Down, Up, Failed}
  /\ clients \in [Addresses -> Conns \cup {None}]
  /\ active \in Addresses \cup {None}
  /\ loop \in [at : {"open", "store"}, port : Ports, version : 0..MaxChanges]
              \cup [at : {"top", "refused", "opened", "accept", "broken",
                          "retry", "end"}]
  /\ socket \in [port : Ports, open : BOOLEAN] \cup {None}
  /\ conns \in [Conns -> Connections \cup {None}]
  /\ closing \in [socket : BOOLEAN, conns : SUBSET Conns]
  /\ cancelled \in BOOLEAN /\ loose \subseteq Conns
  /\ taken \subseteq Ports /\ faults \in 0..MaxFaults

\* It listens where it was told last and says so, as soon as it accepts on a
\* listener that nobody is about to close, and what it reads comes from there
\* and is registered, so that the next change reaches it: whatever was changed
\* while the port was being opened, and except for connections that a change met
\* between being accepted and being registered and those whose entry another
\* one under the same address has replaced or removed.
ListensWhereTold ==
  /\ loop.at = "accept" /\ socket.open /\ ~closing.socket
       => socket.port = port /\ listener /\ status = Up
  /\ \A k \in Conns :
       At(k, "reading") /\ k \notin loose \cup closing.conns
         => conns[k].port = port /\ clients[conns[k].address] = k
==============================================================================
