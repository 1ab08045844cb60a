--------------------------- MODULE DeviceLocation ----------------------------
(***************************************************************************)
(* Where the receiver stands: what it reports itself, or else the place an   *)
(* operator has entered (internal/store, internal/settings/manual_location).  *)
(* The operator's place is kept in a file and in memory; a request writes the *)
(* one and then the other, and no lock covers both.  Points are valid ones.   *)
(***************************************************************************)
EXTENDS Naturals

CONSTANTS None, Broken, Points, Callers, MaxFaults
LocationConstants ==
  /\ None # Broken /\ {None, Broken} \cap Points = {} /\ MaxFaults \in Nat

VARIABLES
  fix,        \* Store.location, None as long as it is not valid
  manual,     \* Store.manual
  saved,      \* the file, Broken if a write of it did not end
  request,    \* per client: what has been written and not been set yet
  disturbed,  \* history: a request began before another had ended
  faults      \* bound: writes that failed and crashes so far

vars == <<fix, manual, saved, request, disturbed, faults>>

Places == Points \cup {None}
Idle == [at |-> "idle"]
Fault == faults < MaxFaults /\ faults' = faults + 1

\* LoadManualDeviceLocation: a file that cannot be read is as good as none.
Load(file) == IF file = Broken THEN None ELSE file

Init ==
  /\ fix = None /\ saved \in Places /\ manual = Load(saved)
  /\ request = [c \in Callers |-> Idle] /\ disturbed = FALSE /\ faults = 0
------------------------------------------------------------------------------
\* effectiveDeviceLocationLocked.
Effective == IF fix # None THEN fix ELSE manual

\* UpdateDeviceLocation: a report without a valid point keeps the last one.
UpdateDeviceLocation ==
  /\ \E p \in Points : fix' = p
  /\ UNCHANGED <<manual, saved, request, disturbed, faults>>

\* The handlers that set and clear the manual place: first the file, ...
Alone(c) == \A d \in Callers \ {c} : request[d] = Idle
Save(c, p) ==
  /\ request[c] = Idle
  /\ saved' = p /\ request' = [request EXCEPT ![c] = [at |-> "set", point |-> p]]
  /\ disturbed' = ~Alone(c)
  /\ UNCHANGED <<fix, manual, faults>>

\* ... which may fail, whatever it leaves of the file, and then nothing else, ...
SaveFails(c) ==
  /\ request[c] = Idle /\ Fault
  /\ saved' \in {saved, Broken}
  /\ UNCHANGED <<fix, manual, request, disturbed>>

\* ... then the store.
\* Mutant: clearing forgets the store.
SetSkipsNone(c) ==
  /\ request[c] # Idle
  /\ manual' = IF request[c].point = None THEN manual ELSE request[c].point
  /\ request' = [request EXCEPT ![c] = Idle]
  /\ UNCHANGED <<fix, saved, disturbed, faults>>
Set(c) ==
  /\ request[c] # Idle
  /\ manual' = request[c].point /\ request' = [request EXCEPT ![c] = Idle]
  /\ UNCHANGED <<fix, saved, disturbed, faults>>

\* The program is killed, while it writes or not, and starts again.
Restart ==
  /\ Fault
  /\ saved' \in {saved, Broken} /\ manual' = Load(saved')
  /\ fix' = None /\ request' = [c \in Callers |-> Idle] /\ disturbed' = FALSE

Next ==
  \/ UpdateDeviceLocation \/ Restart
  \/ \E c \in Callers :
       SaveFails(c) \/ Set(c) \/ \E p \in Places : Save(c, p)

Spec == Init /\ [][Next]_vars
------------------------------------------------------------------------------
TypeOK ==
  /\ fix \in Places /\ manual \in Places /\ saved \in Places \cup {Broken}
  /\ request \in [Callers -> [at : {"set"}, point : Places] \cup {Idle}]
  /\ disturbed \in BOOLEAN /\ faults \in 0..MaxFaults

\* Between requests the place in memory is the one the next start will load,
\* after requests that did not overlap and as long as the file can be read.
ManualIsSaved ==
  (\A c \in Callers : request[c] = Idle) /\ ~disturbed /\ saved # Broken
    => manual = saved
==============================================================================
