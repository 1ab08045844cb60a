-------------------------- MODULE FPVReceiverProofs ---------------------------
(***************************************************************************)
(* Proofs about FPVReceiver and the Listener it extends, for every set of    *)
(* ports, addresses and connections and any number of changes and failures.  *)
(***************************************************************************)
EXTENDS FPVReceiver, TLAPS

\* What the loop opens is what it was told at the version it looked at, ...
OpensWhatItRead ==
  /\ loop.at \in {"open", "store"} =>
       loop.version <= version /\ (loop.version = version => loop.port = port)
  /\ loop.at = "store" => socket = [port |-> loop.port, open |-> TRUE]

\* ... the listener is kept, or about to be closed, only between there and the end
\* of the accepting, ...
Kept == loop.at \in {"opened", "accept"}
KeptWhileServed ==
  /\ listener \/ closing.socket => Kept
  /\ Kept => socket \in [port : Ports, open : BOOLEAN]

\* ... and one that nobody is about to close is that of the present port.
KeptIsPresent ==
  /\ Kept /\ socket.open /\ ~closing.socket => socket.port = port /\ listener
  /\ loop.at = "accept" /\ socket.open /\ ~closing.socket => status = Up

\* The second half of ListensWhereTold.
ReadersRegistered ==
  \A k \in Conns :
    At(k, "reading") /\ k \notin loose \cup closing.conns
      => conns[k].port = port /\ clients[conns[k].address] = k

\* Whose entry there is, or whom a change is about to close, is still served.
Served(k) == At(k, "reading") \/ At(k, "left")
EntriesServed ==
  /\ \A a \in Addresses :
       clients[a] # None => Served(clients[a]) /\ conns[clients[a]].address = a
  /\ \A k \in closing.conns : Served(k)

IInv ==
  /\ TypeOK /\ OpensWhatItRead /\ KeptWhileServed /\ KeptIsPresent
  /\ EntriesServed /\ ReadersRegistered

-----------------------------------------------------------------------------
(* Types.                                                                   *)

LoopTypes ==
  [at : {"open", "store"}, port : Ports, version : 0..MaxChanges]
    \cup [at : {"top", "refused", "opened", "accept", "broken", "retry", "end"}]

LEMMA ToType ==
  ASSUME NEW at \in {"top", "refused", "opened", "accept", "broken", "retry", "end"}, To(at)
  PROVE  loop' \in LoopTypes /\ loop'.at = at
BY DEF To, LoopTypes

LEMMA ConstantTypes ==
  ASSUME ListenerConstants
  PROVE  None \notin Ports /\ None \notin Addresses /\ None \notin Conns
         /\ None \notin Connections /\ Ports # {} /\ MaxChanges \in Nat /\ MaxFaults \in Nat
BY DEF ListenerConstants

\* What the types of the listener are made of, one conjunct each.
OtherTypes ==
  /\ port \in Ports /\ version \in 0..MaxChanges /\ listener \in BOOLEAN
  /\ clients \in [Addresses -> Conns \cup {None}]
  /\ active \in Addresses \cup {None}
  /\ cancelled \in BOOLEAN /\ loose \subseteq Conns
  /\ taken \subseteq Ports /\ faults \in 0..MaxFaults
  /\ conns \in [Conns -> Connections \cup {None}]
  /\ closing \in [socket : BOOLEAN, conns : SUBSET Conns]
CommandTypes ==
  /\ command \in [at : {"picked", "write", "wait"}, conn : Conns] \cup {None}
  /\ waiter \in BOOLEAN
States == {Down, Up, Failed}
Sockets == [port : Ports, open : BOOLEAN] \cup {None}

LEMMA Types ==
  TypeOK <=> OtherTypes /\ CommandTypes /\ status \in States
               /\ loop \in LoopTypes /\ socket \in Sockets
BY DEF TypeOK, LTypeOK, OtherTypes, CommandTypes, States, LoopTypes, Sockets

LEMMA TypesPrime ==
  TypeOK' <=> OtherTypes' /\ CommandTypes' /\ status' \in States
               /\ loop' \in LoopTypes /\ socket' \in Sockets
BY DEF TypeOK, LTypeOK, OtherTypes, CommandTypes, States, LoopTypes, Sockets

\* The end of the accepting.
LEMMA ClearTypes ==
  ASSUME TypeOK, NEW after \in {"broken", "top"}, Clear(after), UNCHANGED <<cancelled, taken>>,
         faults' \in 0..MaxFaults, UNCHANGED cvars
  PROVE  TypeOK'
<1>0. /\ OtherTypes /\ CommandTypes /\ status \in States
      /\ loop \in LoopTypes /\ socket \in Sockets
  BY Types
<1>1. status' \in States
  <2>1. CASE status = Down
    BY <2>1 DEF Clear, Down, States
  <2>2. CASE status = Up
    BY <2>2 DEF Clear, Down, Up, States
  <2>3. CASE status = Failed
    BY <2>3 DEF Clear, Failed, States
  <2> QED BY <1>0, <2>1, <2>2, <2>3 DEF States
<1>2. closing' \in [socket : BOOLEAN, conns : SUBSET Conns]
  BY <1>0 DEF Clear, OtherTypes
<1>3. loop' \in LoopTypes
  BY ToType DEF Clear
<1>4. socket' \in Sockets /\ listener' \in BOOLEAN
  BY DEF Clear, Sockets
<1>5. OtherTypes' /\ CommandTypes'
  BY <1>0, <1>2, <1>4 DEF Clear, OtherTypes, CommandTypes, config, cvars
<1> QED BY <1>1, <1>3, <1>4, <1>5, TypesPrime

\* A step of the loop.
LEMMA LoopTypesStep ==
  ASSUME ListenerConstants, TypeOK, LoopStep, UNCHANGED cvars
  PROVE  TypeOK'
<1> USE DEF known, config, env, cvars
<1>0. /\ OtherTypes /\ CommandTypes /\ status \in States
      /\ loop \in LoopTypes /\ socket \in Sockets
  BY Types
<1>1. CASE Top
  <2>1. OtherTypes' /\ CommandTypes' /\ status' \in States /\ socket' \in Sockets
    BY <1>0, <1>1 DEF Top, OtherTypes, CommandTypes, States, Sockets
  <2>2. loop' \in LoopTypes
    BY <1>0, <1>1 DEF Top, LoopTypes, OtherTypes
  <2> QED BY <2>1, <2>2, TypesPrime
<1>2. CASE Open
  <2>1. OtherTypes' /\ CommandTypes' /\ status' \in States
    BY <1>0, <1>2 DEF Open, OtherTypes, CommandTypes, States
  <2>2. loop \in [at : {"open", "store"}, port : Ports, version : 0..MaxChanges]
    BY <1>0, <1>2 DEF Open, LoopTypes
  <2>3. loop' \in LoopTypes /\ socket' \in Sockets
    <3>1. CASE loop.port \in taken
      BY <1>0, <1>2, <3>1, ToType DEF Open, Sockets
    <3>2. CASE loop.port \notin taken
      <4>1. loop' = [loop EXCEPT !.at = "store"] /\ socket' = [port |-> loop.port, open |-> TRUE]
        BY <1>2, <3>2 DEF Open
      <4>2. loop' \in [at : {"open", "store"}, port : Ports, version : 0..MaxChanges]
        BY <4>1, <2>2
      <4>3. socket' \in Sockets
        BY <4>1, <2>2 DEF Sockets
      <4> QED BY <4>2, <4>3 DEF LoopTypes
    <3> QED BY <3>1, <3>2
  <2> QED BY <2>1, <2>3, TypesPrime
<1>3. CASE Store
  <2>1. OtherTypes' /\ CommandTypes' /\ status' \in States /\ socket' \in Sockets
    <3>1. listener' \in BOOLEAN /\ socket' \in Sockets
      BY <1>0, <1>3 DEF Store, OtherTypes, Sockets
    <3> QED BY <1>0, <1>3, <3>1 DEF Store, OtherTypes, CommandTypes, States
  <2>2. loop' \in LoopTypes
    BY <1>3, ToType DEF Store
  <2> QED BY <2>1, <2>2, TypesPrime
<1>4. CASE Refused \/ Opened \/ Broken
  <2>1. OtherTypes' /\ CommandTypes' /\ socket' \in Sockets
    BY <1>0, <1>4 DEF Refused, Opened, Broken, SetListenerState, OtherTypes, CommandTypes, Sockets
  <2>2. status' \in States
    BY <1>4 DEF Refused, Opened, Broken, SetListenerState, States
  <2>3. loop' \in LoopTypes
    BY <1>4, ToType DEF Refused, Opened, Broken, SetListenerState
  <2> QED BY <2>1, <2>2, <2>3, TypesPrime
<1>5. CASE Closed
  BY <1>0, <1>5, ClearTypes, TypesPrime DEF Closed, OtherTypes, CommandTypes
<1>6. CASE Retry
  <2>1. OtherTypes' /\ CommandTypes' /\ status' \in States /\ socket' \in Sockets
    BY <1>0, <1>6 DEF Retry, OtherTypes, CommandTypes, States, Sockets
  <2>2. loop' \in LoopTypes
    BY <1>6, ToType DEF Retry
  <2> QED BY <2>1, <2>2, TypesPrime
<1> QED BY <1>1, <1>2, <1>3, <1>4, <1>5, <1>6 DEF LoopStep

-----------------------------------------------------------------------------
(* The loop and the listener on one side, the connections on the other.     *)

Listening == OpensWhatItRead /\ KeptWhileServed /\ KeptIsPresent
Connected == EntriesServed /\ ReadersRegistered

LEMMA IInvIs == IInv <=> TypeOK /\ Listening /\ Connected
BY DEF IInv, Listening, Connected

LEMMA IInvIsPrime == IInv' <=> TypeOK' /\ Listening' /\ Connected'
BY DEF IInv, Listening, Connected

LEMMA SameListening ==
  ASSUME Listening, UNCHANGED <<loop, socket, listener, closing.socket, status, config>>
  PROVE  Listening'
BY DEF Listening, OpensWhatItRead, KeptWhileServed, KeptIsPresent, Kept, config

LEMMA SameConnected ==
  ASSUME Connected, UNCHANGED <<clients, conns, closing.conns, loose, port>>
  PROVE  Connected'
BY DEF Connected, EntriesServed, ReadersRegistered, Served, At

LEMMA InitIInv == ListenerConstants /\ Init => IInv
<1> SUFFICES ASSUME ListenerConstants, Init PROVE IInv
  OBVIOUS
<1>1. port \in Ports /\ taken \subseteq Ports
  BY ConstantTypes DEF Init, LInit
<1>2. version \in 0..MaxChanges /\ faults \in 0..MaxFaults
  BY ConstantTypes DEF Init, LInit
<1>3. OtherTypes
  BY <1>1, <1>2 DEF Init, LInit, NoClients, OtherTypes
<1>4. CommandTypes /\ status \in States /\ loop \in LoopTypes /\ socket \in Sockets
  BY DEF Init, LInit, CommandTypes, States, LoopTypes, Sockets
<1>5. Listening
  BY DEF Init, LInit, Listening, OpensWhatItRead, KeptWhileServed, KeptIsPresent, Kept
<1>6. Connected
  BY DEF Init, LInit, NoClients, Connected, EntriesServed, ReadersRegistered, At
<1> QED BY <1>3, <1>4, <1>5, <1>6, Types, IInvIs

\* The end of the accepting: nothing is kept any more.
LEMMA ClearStep ==
  ASSUME IInv, NEW after \in {"broken", "top"}, Clear(after)
  PROVE  Listening' /\ Connected'
<1>1. closing' = [closing EXCEPT !.socket = FALSE] /\ closing \in [socket : BOOLEAN, conns : SUBSET Conns]
  BY DEF Clear, IInv, TypeOK, LTypeOK
<1>2. ~closing'.socket /\ closing'.conns = closing.conns
  BY <1>1
<1>3. loop'.at \in {"broken", "top", "end"}
  BY DEF Clear, To
<1>4. Listening'
  BY <1>2, <1>3 DEF Clear, Listening, OpensWhatItRead, KeptWhileServed, KeptIsPresent, Kept
<1> QED BY <1>2, <1>4, SameConnected, IInvIs DEF Clear, config

LEMMA LoopInvStep ==
  ASSUME ListenerConstants, IInv, LoopStep, UNCHANGED cvars
  PROVE  IInv'
<1> USE DEF known, config, env
<1>0. TypeOK'
  BY LoopTypesStep DEF IInv
<1> USE DEF IInv, Listening, OpensWhatItRead, KeptWhileServed, KeptIsPresent, Kept
<1>1. CASE Top
  <2>1. Listening'
    BY <1>1, ConstantTypes DEF Top, TypeOK, LTypeOK
  <2> QED BY <1>0, <1>1, <2>1, SameConnected, IInvIs, IInvIsPrime DEF Top
<1>2. CASE Open
  <2>1. Listening'
    <3>1. CASE loop.port \in taken
      BY <1>2, <3>1 DEF Open, To
    <3>2. CASE loop.port \notin taken
      <4>1. loop' = [loop EXCEPT !.at = "store"] /\ loop.at = "open"
            /\ socket' = [port |-> loop.port, open |-> TRUE]
            /\ UNCHANGED <<port, version, listener, closing>>
        BY <1>2, <3>2 DEF Open
      <4>2. loop \in [at : {"open", "store"}, port : Ports, version : 0..MaxChanges]
        BY <4>1, Types DEF LoopTypes
      <4>3. loop'.at = "store" /\ loop'.port = loop.port /\ loop'.version = loop.version
        BY <4>1, <4>2
      <4> QED BY <4>1, <4>3
    <3> QED BY <3>1, <3>2
  <2> QED BY <1>0, <1>2, <2>1, SameConnected, IInvIs, IInvIsPrime DEF Open
<1>3. CASE Store
  <2>1. Listening'
    <3>1. loop \in [at : {"open", "store"}, port : Ports, version : 0..MaxChanges]
      BY <1>3, Types DEF Store, LoopTypes
    <3>2. CASE version = loop.version
      <4>1. /\ loop'.at = "opened" /\ listener' /\ loop.at = "store"
            /\ UNCHANGED <<port, version, socket, status, closing>>
        BY <1>3, <3>2 DEF Store, To
      <4>2. socket = [port |-> port, open |-> TRUE] /\ port \in Ports
        BY <3>2, <4>1, Types DEF OtherTypes
      <4> QED BY <4>1, <4>2
    <3>3. CASE version # loop.version
      BY <1>3, <3>3 DEF Store, To
    <3> QED BY <3>2, <3>3
  <2> QED BY <1>0, <1>3, <2>1, SameConnected, IInvIs, IInvIsPrime DEF Store
<1>4. CASE Refused \/ Opened \/ Broken
  <2>1. Listening'
    BY <1>4 DEF Refused, Opened, Broken, SetListenerState, To, Up
  <2> QED BY <1>0, <1>4, <2>1, SameConnected, IInvIs, IInvIsPrime
            DEF Refused, Opened, Broken, SetListenerState
<1>5. CASE Closed
  BY <1>0, <1>5, ClearStep, IInvIsPrime DEF Closed
<1>6. CASE Retry
  <2>1. Listening'
    BY <1>6 DEF Retry, To
  <2> QED BY <1>0, <1>6, <2>1, SameConnected, IInvIs, IInvIsPrime DEF Retry
<1> QED BY <1>1, <1>2, <1>3, <1>4, <1>5, <1>6 DEF LoopStep

-----------------------------------------------------------------------------
(* The other steps.                                                         *)

\* Accepting.
LEMMA AcceptStep ==
  ASSUME ListenerConstants, IInv, NEW k \in Conns, NEW a \in Addresses, Accept(k, a),
         UNCHANGED cvars
  PROVE  IInv'
<1> USE DEF known, env
<1>1. /\ conns[k] = None /\ UNCHANGED <<known, loop, socket, closing, loose, env>>
      /\ conns' = [conns EXCEPT ![k] = [at |-> "accepted", address |-> a, port |-> socket.port]]
  BY DEF Accept
<1>2. socket.port \in Ports
  BY DEF Accept, IInv, KeptWhileServed, Kept
<1>3. TypeOK'
  <2>1. conns' \in [Conns -> Connections \cup {None}]
    BY <1>1, <1>2, Types DEF IInv, OtherTypes, Connections
  <2> QED BY <1>1, <2>1, Types, TypesPrime DEF IInv, OtherTypes, CommandTypes, cvars
<1>4. Listening'
  BY <1>1, SameListening, IInvIs DEF config
<1>5. \A j \in Conns : j # k => conns'[j] = conns[j]
  BY <1>1, Types DEF IInv, OtherTypes
<1>6. conns'[k].at = "accepted"
  BY <1>1, Types DEF IInv, OtherTypes
<1>7. \A j \in Conns : Served(j) => j # k
  BY <1>1 DEF Served, At
<1>8. EntriesServed'
  <2>1. \A b \in Addresses : clients[b] # None => clients[b] \in Conns
    BY Types DEF IInv, OtherTypes
  <2>2. closing.conns \subseteq Conns
    BY Types DEF IInv, OtherTypes
  <2> QED BY <1>1, <1>5, <1>7, <2>1, <2>2 DEF IInv, EntriesServed, Served, At
<1>9. ReadersRegistered'
  BY <1>1, <1>5, <1>6 DEF IInv, ReadersRegistered, At
<1> QED BY <1>3, <1>4, <1>8, <1>9, IInvIsPrime DEF Connected

LEMMA AcceptFailsStep ==
  ASSUME ListenerConstants, IInv, AcceptFails, UNCHANGED cvars
  PROVE  IInv'
<1>1. faults' \in 0..MaxFaults
  <2>1. faults \in 0..MaxFaults /\ faults < MaxFaults /\ faults' = faults + 1
    BY Types DEF AcceptFails, Fault, IInv, OtherTypes
  <2> QED BY <2>1, ConstantTypes
<1>2. TypeOK'
  BY <1>1, ClearTypes DEF AcceptFails, Fault, IInv
<1> QED BY <1>2, ClearStep, IInvIsPrime DEF AcceptFails

\* Changing the port.
LEMMA SetPortStep ==
  ASSUME ListenerConstants, IInv, NEW p \in Ports, SetPort(p), waiter' = FALSE, UNCHANGED command
  PROVE  IInv'
<1> USE DEF env
<1>0. OtherTypes /\ CommandTypes /\ loop \in LoopTypes /\ socket \in Sockets
  BY Types DEF IInv
<1>1. /\ closing'.socket = (closing.socket \/ listener)
      /\ closing'.conns = closing.conns \cup Registered
  BY DEF SetPort
<1>2. \A k : k \in Registered <=> k # None /\ \E a \in Addresses : clients[a] = k
  BY DEF Registered
<1>3. Registered \subseteq Conns
  BY <1>0, <1>2 DEF OtherTypes
<1>4. version' \in 0..MaxChanges
  <2>1. version \in 0..MaxChanges /\ version < MaxChanges /\ version' = version + 1
    BY <1>0 DEF SetPort, OtherTypes
  <2> QED BY <2>1, ConstantTypes
<1>5. TypeOK'
  <2>1. closing' \in [socket : BOOLEAN, conns : SUBSET Conns]
    BY <1>0, <1>3 DEF SetPort, OtherTypes
  <2>2. status' \in States /\ clients' \in [Addresses -> Conns \cup {None}]
    BY DEF SetPort, States, NoClients
  <2>3. OtherTypes'
    BY <1>0, <1>4, <2>1, <2>2 DEF SetPort, OtherTypes
  <2> QED BY <1>0, <2>2, <2>3, TypesPrime DEF SetPort, CommandTypes
<1>6. Listening'
  <2>1. OpensWhatItRead'
    <3>1. loop.at \in {"open", "store"} => loop.version \in 0..MaxChanges
      BY <1>0 DEF LoopTypes
    <3> QED BY <1>0, <3>1, ConstantTypes DEF SetPort, IInv, OpensWhatItRead, OtherTypes
  <2>2. KeptWhileServed' /\ KeptIsPresent'
    BY <1>1 DEF SetPort, IInv, KeptWhileServed, KeptIsPresent, Kept
  <2> QED BY <2>1, <2>2 DEF Listening
<1>7. Connected'
  <2>1. EntriesServed'
    BY <1>1, <1>2 DEF SetPort, NoClients, IInv, EntriesServed, Served, At
  <2>2. ReadersRegistered'
    <3>1. \A k \in Conns : At(k, "reading") /\ k \notin loose \cup closing.conns => k \in Registered
      BY <1>0, <1>2, ConstantTypes DEF IInv, ReadersRegistered, At, OtherTypes, Connections
    <3> QED BY <1>1, <3>1 DEF SetPort, ReadersRegistered, At
  <2> QED BY <2>1, <2>2 DEF Connected
<1> QED BY <1>5, <1>6, <1>7, IInvIsPrime

\* Closing the listener, for the change or for the end of the context.
LEMMA SocketClosedStep ==
  ASSUME IInv, Kept, socket' = [socket EXCEPT !.open = FALSE],
         UNCHANGED <<known, loop, conns, loose, env, cvars, closing.conns>>,
         closing' = closing \/ closing' = [closing EXCEPT !.socket = FALSE]
  PROVE  IInv'
<1> USE DEF known, env
<1>0. /\ OtherTypes /\ CommandTypes /\ status \in States /\ loop \in LoopTypes
      /\ socket \in [port : Ports, open : BOOLEAN]
  BY Types DEF IInv, KeptWhileServed
<1>1. socket' \in [port : Ports, open : BOOLEAN] /\ ~socket'.open
  BY <1>0
<1>2. closing' \in [socket : BOOLEAN, conns : SUBSET Conns]
  BY <1>0 DEF OtherTypes
<1>3. TypeOK'
  BY <1>0, <1>1, <1>2, TypesPrime DEF OtherTypes, CommandTypes, Sockets, cvars
<1>4. Listening'
  BY <1>1 DEF IInv, Kept, Listening, OpensWhatItRead, KeptWhileServed, KeptIsPresent
<1> QED BY <1>3, <1>4, SameConnected, IInvIs, IInvIsPrime

LEMMA CloseListenerStep ==
  ASSUME IInv, CloseListener \/ ContextClosesListener, UNCHANGED cvars
  PROVE  IInv'
<1>1. closing'.conns = closing.conns
  BY Types DEF IInv, OtherTypes, CloseListener, ContextClosesListener
<1> QED BY <1>1, SocketClosedStep
  DEF CloseListener, ContextClosesListener, IInv, KeptWhileServed, Kept

\* A connection goes on: at most its place changes, and it is served still.
LEMMA PlaceTypes ==
  ASSUME IInv, NEW k \in Conns, Served(k),
         NEW at \in {"accepted", "reading", "left"}, conns' = [conns EXCEPT ![k].at = at]
  PROVE  /\ conns' \in [Conns -> Connections \cup {None}]
         /\ conns'[k] \in Connections /\ conns'[k].at = at
         /\ conns'[k].address = conns[k].address /\ conns'[k].port = conns[k].port
         /\ \A j \in Conns : j # k => conns'[j] = conns[j]
<1>1. conns[k] \in Connections /\ conns \in [Conns -> Connections \cup {None}]
  BY Types DEF IInv, OtherTypes, Served, At
<1>2. conns' = [conns EXCEPT ![k] = [conns[k] EXCEPT !.at = at]]
  OBVIOUS
<1>3. [conns[k] EXCEPT !.at = at] \in Connections
  BY <1>1 DEF Connections
<1> QED BY <1>1, <1>2, <1>3 DEF Connections

\* Reading ends: by itself, by a change or with the context.
LEMMA LeftStep ==
  ASSUME ListenerConstants, IInv, NEW k \in Conns, Served(k),
         conns' = [conns EXCEPT ![k].at = "left"],
         UNCHANGED <<known, loop, socket, loose, env, cvars, closing.socket>>,
         closing' = closing \/ closing' = [closing EXCEPT !.conns = closing.conns \ {k}]
  PROVE  IInv'
<1> USE DEF known, env
<1>0. OtherTypes /\ CommandTypes /\ status \in States /\ loop \in LoopTypes /\ socket \in Sockets
  BY Types DEF IInv
<1>1. /\ conns' \in [Conns -> Connections \cup {None}]
      /\ conns'[k] \in Connections /\ conns'[k].at = "left"
      /\ conns'[k].address = conns[k].address
      /\ \A j \in Conns : j # k => conns'[j] = conns[j]
  BY PlaceTypes
<1>2. closing' \in [socket : BOOLEAN, conns : SUBSET Conns] /\ closing.conns \ {k} \subseteq closing'.conns
      /\ closing'.conns \subseteq closing.conns
  BY <1>0 DEF OtherTypes
<1>3. TypeOK'
  BY <1>0, <1>1, <1>2, TypesPrime DEF OtherTypes, CommandTypes, cvars
<1>4. Listening'
  BY SameListening, IInvIs DEF config
<1>5. EntriesServed'
  <2>1. \A j \in Conns : Served(j) => Served(j)'
    BY <1>1, ConstantTypes DEF Served, At
  <2>2. \A a \in Addresses : clients[a] # None => clients[a] \in Conns
    BY <1>0 DEF OtherTypes
  <2>3. \A j \in Conns : conns'[j].address = conns[j].address
    BY <1>1
  <2> QED BY <1>0, <1>2, <2>1, <2>2, <2>3 DEF IInv, EntriesServed, OtherTypes
<1>6. ReadersRegistered'
  BY <1>1, <1>2 DEF IInv, ReadersRegistered, At
<1> QED BY <1>3, <1>4, <1>5, <1>6, IInvIsPrime DEF Connected

LEMMA ReadEndsStep ==
  ASSUME ListenerConstants, IInv, NEW k \in Conns, UNCHANGED cvars,
         ReadEnds(k) \/ ContextClosesConnection(k) \/ CloseConnection(k)
  PROVE  IInv'
<1>1. Served(k)
  BY Types DEF ReadEnds, ContextClosesConnection, CloseConnection, Served, IInv, EntriesServed
<1>2. \/ conns' = [conns EXCEPT ![k].at = "left"]
      \/ conns' = [conns EXCEPT ![k].at = conns[k].at] /\ conns[k].at # "reading"
  BY DEF ReadEnds, ContextClosesConnection, CloseConnection, Shut
<1>3. conns' = [conns EXCEPT ![k].at = "left"]
  BY <1>1, <1>2 DEF Served, At
<1>4. UNCHANGED closing.socket
  BY Types DEF ReadEnds, ContextClosesConnection, CloseConnection, IInv, OtherTypes
<1> QED BY <1>1, <1>3, <1>4, LeftStep DEF ReadEnds, ContextClosesConnection, CloseConnection

LEMMA RegisterStep ==
  ASSUME ListenerConstants, IInv, NEW k \in Conns, Register(k), UNCHANGED cvars
  PROVE  IInv'
<1> USE DEF config, env
<1> DEFINE a == conns[k].address
<1>0. OtherTypes /\ CommandTypes /\ status \in States /\ loop \in LoopTypes /\ socket \in Sockets
  BY Types DEF IInv
<1>1. /\ conns[k] \in Connections /\ conns[k].at = "accepted" /\ a \in Addresses
      /\ clients' = [clients EXCEPT ![a] = k] /\ active' = a
      /\ loose' = loose \cup ({clients[a]} \ {None})
                        \cup (IF conns[k].port = port THEN {} ELSE {k})
      /\ conns' = [conns EXCEPT ![k].at = "reading"]
  BY <1>0 DEF Register, At, OtherTypes, Connections
<1> HIDE DEF a
<1>2. /\ conns' \in [Conns -> Connections \cup {None}]
      /\ conns'[k] \in Connections /\ conns'[k].at = "reading"
      /\ conns'[k].address = a /\ conns'[k].port = conns[k].port
      /\ \A j \in Conns : j # k => conns'[j] = conns[j]
  <2>1. [conns[k] EXCEPT !.at = "reading"] \in Connections
    BY <1>1 DEF Connections
  <2>2. conns' = [conns EXCEPT ![k] = [conns[k] EXCEPT !.at = "reading"]]
    BY <1>1
  <2> QED BY <1>0, <1>1, <2>1, <2>2 DEF OtherTypes, Connections, a
<1>3. \A b \in Addresses : clients'[b] = IF b = a THEN k ELSE clients[b]
  BY <1>0, <1>1 DEF OtherTypes
<1>4. TypeOK'
  <2>1. clients' \in [Addresses -> Conns \cup {None}] /\ loose' \subseteq Conns
    BY <1>0, <1>1 DEF OtherTypes
  <2> QED BY <1>0, <1>1, <1>2, <2>1, TypesPrime DEF Register, OtherTypes, CommandTypes, cvars
<1>5. Listening'
  BY SameListening, IInvIs DEF Register
<1>6. EntriesServed'
  <2>1. \A j \in Conns : Served(j) \/ j = k => Served(j)'
    BY <1>1, <1>2, ConstantTypes DEF Served, At
  <2>2. \A b \in Addresses : clients[b] # None => clients[b] \in Conns
    BY <1>0 DEF OtherTypes
  <2>3. \A j \in Conns : Served(j) => conns'[j].address = conns[j].address
    BY <1>1, <1>2 DEF Served, At
  <2> QED BY <1>0, <1>2, <1>3, <2>1, <2>2, <2>3 DEF Register, IInv, EntriesServed, OtherTypes
<1>7. ReadersRegistered'
  <2> SUFFICES ASSUME NEW j \in Conns, At(j, "reading")', j \notin loose' \cup closing'.conns
               PROVE  conns'[j].port = port' /\ clients'[conns'[j].address] = j
    BY DEF ReadersRegistered
  <2>1. CASE j = k
    BY <1>1, <1>2, <1>3, <2>1 DEF Register
  <2>2. CASE j # k
    <3>1. At(j, "reading") /\ j \notin loose \cup closing.conns /\ conns'[j] = conns[j]
      BY <1>1, <1>2, <2>2 DEF Register, At
    <3>2. conns[j].port = port /\ clients[conns[j].address] = j /\ conns[j].address \in Addresses
      BY <1>0, <3>1 DEF IInv, ReadersRegistered, At, OtherTypes, Connections
    <3>3. conns[j].address # a
      BY <1>1, <3>2, ConstantTypes
    <3> QED BY <1>3, <3>1, <3>2, <3>3 DEF Register
  <2> QED BY <2>1, <2>2
<1> QED BY <1>4, <1>5, <1>6, <1>7, IInvIsPrime DEF Connected

LEMMA UnregisterStep ==
  ASSUME ListenerConstants, IInv, NEW k \in Conns, Unregister(k), UNCHANGED cvars
  PROVE  IInv'
<1> USE DEF config, env
<1> DEFINE a == conns[k].address
<1>0. OtherTypes /\ CommandTypes /\ status \in States /\ loop \in LoopTypes /\ socket \in Sockets
  BY Types DEF IInv
<1>1. /\ a \in Addresses /\ conns' = [conns EXCEPT ![k] = None]
      /\ clients' = [clients EXCEPT ![a] = None]
      /\ loose' = (loose \cup ({clients[a]} \ {None})) \ {k}
      /\ closing' = [closing EXCEPT !.conns = closing.conns \ {k}]
      /\ UNCHANGED <<config, listener, status, loop, socket, env>>
  BY <1>0 DEF Unregister, At, OtherTypes, Connections
<1>2. active' \in Addresses \cup {None}
  BY <1>0 DEF Unregister, OtherTypes
<1> HIDE DEF a
<1>3. /\ \A b \in Addresses : clients'[b] = IF b = a THEN None ELSE clients[b]
      /\ conns'[k] = None /\ \A j \in Conns : j # k => conns'[j] = conns[j]
      /\ closing'.conns = closing.conns \ {k} /\ UNCHANGED closing.socket
  BY <1>0, <1>1 DEF OtherTypes
<1>4. TypeOK'
  <2>1. clients' \in [Addresses -> Conns \cup {None}] /\ loose' \subseteq Conns
    BY <1>0, <1>1 DEF OtherTypes
  <2>2. closing' \in [socket : BOOLEAN, conns : SUBSET Conns]
    BY <1>0, <1>1 DEF OtherTypes
  <2>3. conns' \in [Conns -> Connections \cup {None}]
    BY <1>0, <1>1 DEF OtherTypes
  <2> QED BY <1>0, <1>1, <1>2, <2>1, <2>2, <2>3, TypesPrime DEF OtherTypes, CommandTypes, cvars
<1>5. Listening'
  BY <1>1, <1>3, SameListening, IInvIs
<1>6. \A j \in Conns : Served(j) /\ j # k => Served(j)' /\ conns'[j] = conns[j]
  BY <1>3 DEF Served, At
<1>7. EntriesServed'
  <2>1. \A b \in Addresses : clients'[b] # None => clients'[b] \in Conns /\ clients'[b] # k
    BY <1>0, <1>3 DEF IInv, EntriesServed, OtherTypes, a
  <2>2. closing.conns \subseteq Conns
    BY <1>0 DEF OtherTypes
  <2> QED BY <1>3, <1>6, <2>1, <2>2 DEF IInv, EntriesServed
<1>8. ReadersRegistered'
  <2> SUFFICES ASSUME NEW j \in Conns, At(j, "reading")', j \notin loose' \cup closing'.conns
               PROVE  conns'[j].port = port' /\ clients'[conns'[j].address] = j
    BY DEF ReadersRegistered
  <2>1. j # k /\ At(j, "reading") /\ j \notin loose \cup closing.conns /\ conns'[j] = conns[j]
    BY <1>1, <1>3 DEF At
  <2>2. conns[j].port = port /\ clients[conns[j].address] = j /\ conns[j].address \in Addresses
    BY <1>0, <2>1 DEF IInv, ReadersRegistered, At, OtherTypes, Connections
  <2>3. conns[j].address # a
    BY <1>1, <2>1, <2>2, ConstantTypes
  <2> QED BY <1>1, <1>3, <2>1, <2>2, <2>3
<1> QED BY <1>4, <1>5, <1>7, <1>8, IInvIsPrime DEF Connected

\* The end of the context, the ports of others, and the commands.
LEMMA EnvironmentStep ==
  ASSUME ListenerConstants, IInv, Environment
  PROVE  IInv'
<1> USE DEF known, config
<1>1. /\ UNCHANGED <<known, loop, socket, conns, closing, loose, cvars>>
      /\ cancelled' \in BOOLEAN /\ taken' \subseteq Ports
  BY Types DEF IInv, OtherTypes, Environment, Cancel, Take, Leave
<1>2. faults' \in 0..MaxFaults
  <2>1. faults \in 0..MaxFaults /\ (faults' = faults \/ (faults < MaxFaults /\ faults' = faults + 1))
    BY Types DEF IInv, OtherTypes, Environment, Cancel, Take, Leave
  <2> QED BY <2>1, ConstantTypes
<1>3. TypeOK'
  BY <1>1, <1>2, Types, TypesPrime DEF IInv, OtherTypes, CommandTypes, cvars
<1> QED BY <1>1, <1>3, SameListening, SameConnected, IInvIs, IInvIsPrime

LEMMA CommandStep ==
  ASSUME ListenerConstants, IInv, Pick \/ SendATCommand
  PROVE  IInv'
<1> USE DEF lvars, known, config, env
<1>0. OtherTypes /\ CommandTypes
  BY Types DEF IInv
<1>1. UNCHANGED lvars
  BY DEF Pick, SendATCommand, RegisterWaiter, Write, WriteFails, Respond, CommandTimeout, End
<1>2. CommandTypes'
  <2>1. CASE Pick
    <3>1. CommandConnections \subseteq Conns
      BY <1>0, ConstantTypes DEF CommandConnections, Registered, OtherTypes
    <3> QED BY <1>0, <2>1, <3>1 DEF Pick, CommandTypes
  <2>2. CASE RegisterWaiter \/ Write
    BY <1>0, <2>2 DEF RegisterWaiter, Write, CommandTypes
  <2>3. CASE WriteFails \/ Respond \/ CommandTimeout
    BY <2>3 DEF WriteFails, Respond, CommandTimeout, End, CommandTypes
  <2> QED BY <2>1, <2>2, <2>3 DEF SendATCommand
<1>3. TypeOK'
  BY <1>1, <1>2, Types, TypesPrime DEF IInv, OtherTypes
<1> QED BY <1>1, <1>3, SameListening, SameConnected, IInvIs, IInvIsPrime

LEMMA IInvStep ==
  ASSUME ListenerConstants, IInv, [Next]_vars
  PROVE  IInv'
<1>1. CASE UNCHANGED vars
  <2>1. UNCHANGED <<lvars, cvars>>
    BY <1>1 DEF vars
  <2>2. TypeOK'
    BY <2>1, Types, TypesPrime DEF lvars, known, env, cvars, IInv, OtherTypes, CommandTypes
  <2> QED BY <2>1, <2>2, SameListening, SameConnected, IInvIs, IInvIsPrime
           DEF lvars, known, config
<1>2. CASE Run
  BY <1>2, LoopInvStep DEF Run
<1>3. CASE Serve
  BY <1>3, AcceptStep, AcceptFailsStep DEF Serve
<1>4. CASE SetFPVPort
  BY <1>4, SetPortStep DEF SetFPVPort
<1>5. CASE CloseOld \/ HandleConnection \/ EndListener \/ EndConnection
  BY <1>5, CloseListenerStep, ReadEndsStep
  DEF CloseOld, HandleConnection, EndListener, EndConnection
<1>6. CASE RegisterSource \/ UnregisterSource
  BY <1>6, RegisterStep, UnregisterStep DEF RegisterSource, UnregisterSource
<1>7. CASE Environment
  BY <1>7, EnvironmentStep
<1>8. CASE Pick \/ SendATCommand
  BY <1>8, CommandStep
<1> QED BY <1>1, <1>2, <1>3, <1>4, <1>5, <1>6, <1>7, <1>8 DEF Next

LEMMA IInvSuffices == ASSUME ListenerConstants, IInv PROVE ListensWhereTold
BY DEF IInv, KeptIsPresent, Kept, ReadersRegistered, ListensWhereTold

-----------------------------------------------------------------------------
\* The receiver listens where it was told last, says so, and reads only from
\* there, for any number of ports, addresses, connections, changes and failures.
THEOREM ListensThere == ASSUME ListenerConstants PROVE Spec => []ListensWhereTold
<1>1. Init => IInv
  BY InitIInv
<1>2. IInv /\ [Next]_vars => IInv'
  BY IInvStep
<1>3. IInv => ListensWhereTold
  BY IInvSuffices
<1> QED BY <1>1, <1>2, <1>3, PTL DEF Spec
=============================================================================
