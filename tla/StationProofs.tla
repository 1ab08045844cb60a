--------------------------- MODULE StationProofs ----------------------------
(***************************************************************************)
(* Proofs about Station, for any number of clients, targets, packets,        *)
(* updates, ports, uploads and commands.  A step of the station is a step of *)
(* one part and leaves the others' variables alone (StepsOfParts), so that   *)
(* what is an invariant of a part by itself is one of the station.           *)
(*                                                                         *)
(* The archive, the network, the decoder, the settings, the location, the    *)
(* maps, the relay and the positions are proved here; the receiver and the   *)
(* video in modules of their own, instantiated with the station's variables. *)
(***************************************************************************)
EXTENDS Station, Sequences, FiniteSetTheorems, WellFoundedInduction, NaturalsInduction, TLAPS

-----------------------------------------------------------------------------
(* Induction over the naturals, and recursion over an interval, for sets:    *)
(* the provers cannot instantiate a theorem about operators.                 *)

LEMMA SetInduction ==
  ASSUME NEW S, 0 \in S, \A n \in Nat : n \in S => n + 1 \in S
  PROVE  Nat \subseteq S
<1> SUFFICES ASSUME Nat \ S # {} PROVE FALSE
  OBVIOUS
<1>1. IsWellFoundedOn(OpToRel(<, Nat), Nat)
  BY NatLessThanWellFounded
<1>2. PICK x \in Nat \ S : \A y \in Nat \ S : ~(<<y, x>> \in OpToRel(<, Nat))
  BY <1>1, WFMin
<1>3. x # 0 /\ x - 1 \in Nat
  OBVIOUS
<1>4. <<x - 1, x>> \in OpToRel(<, Nat)
  BY <1>3 DEF OpToRel
<1>5. x - 1 \in S
  BY <1>2, <1>3, <1>4
<1>6. (x - 1) + 1 = x
  BY <1>3
<1> QED BY <1>3, <1>5, <1>6

LEMMA Recursion ==
  ASSUME NEW A, NEW a \in A, NEW m \in Nat, NEW step \in [1..m -> [A -> A]]
  PROVE  \E f \in [0..m -> A] : f[0] = a /\ \A n \in 1..m : f[n] = step[n][f[n - 1]]
<1> DEFINE Upto(k, f) == f[0] = a /\ \A n \in 1..k : f[n] = step[n][f[n - 1]]
           S == {k \in Nat : k <= m => \E f \in [0..k -> A] : Upto(k, f)}
<1>1. 0 \in S
  <2>1. [n \in 0..0 |-> a] \in [0..0 -> A] /\ Upto(0, [n \in 0..0 |-> a])
    OBVIOUS
  <2> QED BY <2>1
<1>2. ASSUME NEW k \in Nat, k \in S PROVE k + 1 \in S
  <2> SUFFICES ASSUME k + 1 <= m PROVE \E f \in [0..(k + 1) -> A] : Upto(k + 1, f)
    OBVIOUS
  <2>1. PICK f \in [0..k -> A] : Upto(k, f)
    BY <1>2
  <2> DEFINE g == [n \in 0..(k + 1) |-> IF n <= k THEN f[n] ELSE step[k + 1][f[k]]]
  <2>2. k + 1 \in 1..m /\ f[k] \in A /\ step[k + 1] \in [A -> A] /\ step[k + 1][f[k]] \in A
    BY <2>1
  <2>3. \A n \in 0..k : g[n] = f[n] /\ f[n] \in A
    BY <2>1
  <2>4. g[k + 1] = step[k + 1][f[k]] /\ g[k] = f[k]
    BY <2>3
  <2>5. g \in [0..(k + 1) -> A]
    BY <2>2, <2>3
  <2> HIDE DEF g
  <2>6. g[0] = a
    BY <2>1, <2>3
  <2>7. \A n \in 1..k : n \in 0..k /\ n - 1 \in 0..k
    OBVIOUS
  <2>8. \A n \in 1..k : g[n] = step[n][g[n - 1]]
    BY <2>1, <2>3, <2>7
  <2>9. \A n \in 1..(k + 1) : n \in 1..k \/ (n = k + 1 /\ n - 1 = k)
    OBVIOUS
  <2>10. \A n \in 1..(k + 1) : g[n] = step[n][g[n - 1]]
    BY <2>4, <2>8, <2>9
  <2> QED BY <2>5, <2>6, <2>10
<1>3. Nat \subseteq S
  <2> HIDE DEF S
  <2> QED BY <1>1, <1>2, SetInduction
<1> QED BY <1>3

Stepwise(A, a, m, step) == a \in A /\ m \in Nat /\ step \in [1..m -> [A -> A]]
HasSteps(A, a, m, step) ==
  \E f \in [0..m -> A] : f[0] = a /\ \A n \in 1..m : f[n] = step[n][f[n - 1]]

LEMMA RecursionFor ==
  \A A, a, m, step : Stepwise(A, a, m, step) => HasSteps(A, a, m, step)
<1> TAKE A, a, m, step
<1> HAVE Stepwise(A, a, m, step)
<1> QED BY Recursion DEF Stepwise, HasSteps

-----------------------------------------------------------------------------
\* The archive of positioning targets.

\* Only a caller that is inserting has a batch.
CallerTypes ==
  /\ inSeen \subseteq Intruders
  /\ inCaller \in [Clients -> [at : {"idle", "pop", "insert"}, batch : SUBSET Intruders]]
  /\ \A c \in Clients : inCaller[c].at # "insert" => inCaller[c].batch = {}

\* What was dropped from memory, or expired, is in no earlier place any more ...
Apart ==
  /\ inLive \cap inExpired = {}
  /\ (inLive \cup inExpired \cup AR!Popped) \cap inLost = {}

\* ... and rows exist, one of each, or existed, of what has left the
\* memory alone.
RowsLeft ==
  /\ \A r \in inDb : r.id \in inTried \cup inLost
  /\ inDeleted \subseteq inTried \cup inLost
  /\ \A r, s \in inDb : r.id = s.id => r = s

ArchiveInv == CallerTypes /\ Apart /\ RowsLeft /\ AR!HandedOverOnce

-----------------------------------------------------------------------------
LEMMA PoppedIs == \A x : x \in AR!Popped <=> \E c \in Clients : x \in inCaller[c].batch
BY DEF AR!Popped

LEMMA PoppedIsPrime == \A x : x \in AR!Popped' <=> \E c \in Clients : x \in inCaller'[c].batch
BY DEF AR!Popped

LEMMA InitArchive == AR!Init => ArchiveInv
<1> SUFFICES ASSUME AR!Init PROVE ArchiveInv
  OBVIOUS
<1>1. CallerTypes
  BY DEF AR!Init, AR!Idle, CallerTypes
<1>2. AR!Popped = {}
  BY <1>1, PoppedIs DEF AR!Init, AR!Idle
<1> QED BY <1>1, <1>2 DEF AR!Init, ArchiveInv, Apart, RowsLeft, AR!HandedOverOnce, AR!Idle

\* A call that reads or feeds the list and has set aside what expired.
LEMMA PruneStep ==
  ASSUME ArchiveInv, NEW c \in Clients, NEW old \in SUBSET inLive, AR!Prune(c, old)
  PROVE  /\ inSeen' \subseteq Intruders => CallerTypes'
         /\ AR!Popped' = AR!Popped
         /\ \A d \in Clients : inCaller'[d].batch = inCaller[d].batch
         /\ inCaller'[c] = AR!Popping
         /\ inExpired' = inExpired \cup old
         /\ inDb' = inDb /\ inTried' = inTried /\ inDeleted' = inDeleted
<1>1. inCaller[c].batch = {} /\ AR!Popping.batch = {}
  BY DEF AR!Prune, AR!Idle, AR!Popping
<1>2. inSeen' \subseteq Intruders => CallerTypes'
  BY DEF ArchiveInv, CallerTypes, AR!Prune, AR!Popping
<1>3. \A d \in Clients : inCaller'[d].batch = inCaller[d].batch
  BY <1>1 DEF ArchiveInv, CallerTypes, AR!Prune
<1>4. AR!Popped' = AR!Popped
  BY <1>3, PoppedIs, PoppedIsPrime
<1> QED BY <1>2, <1>3, <1>4 DEF AR!Prune, ArchiveInv, CallerTypes

LEMMA ReadStep ==
  ASSUME ArchiveInv, NEW c \in Clients, AR!Read(c)
  PROVE  ArchiveInv'
<1>1. PICK old \in SUBSET inLive : AR!Prune(c, old) /\ inLive' = inLive \ old /\ UNCHANGED <<inSeen, inLost>>
  BY DEF AR!Read
<1>2. /\ CallerTypes' /\ AR!Popped' = AR!Popped
      /\ \A d \in Clients : inCaller'[d].batch = inCaller[d].batch
      /\ inCaller'[c] = AR!Popping /\ inExpired' = inExpired \cup old
      /\ inDb' = inDb /\ inTried' = inTried /\ inDeleted' = inDeleted
  BY <1>1, PruneStep DEF ArchiveInv, CallerTypes
<1>3. Apart' /\ RowsLeft'
  BY <1>1, <1>2, PoppedIs DEF ArchiveInv, Apart, RowsLeft, AR!HandedOverOnce
<1>4. AR!HandedOverOnce'
  BY <1>1, <1>2, PoppedIs DEF ArchiveInv, AR!HandedOverOnce, Apart
<1> QED BY <1>2, <1>3, <1>4 DEF ArchiveInv

LEMMA AddStep ==
  ASSUME ArchiveInv, NEW c \in Clients, AR!AddPosition(c)
  PROVE  ArchiveInv'
<1>1. PICK t \in Intruders \ inSeen, old \in SUBSET inLive :
        /\ AR!Prune(c, old) /\ inSeen' = inSeen \cup {t}
        /\ \/ inLive' = (inLive \ old) \cup {t} /\ UNCHANGED inLost
           \/ \E d \in (inLive \ old) \cup {t} :
                inLive' = ((inLive \ old) \cup {t}) \ {d} /\ inLost' = inLost \cup {d}
  BY DEF AR!AddPosition
<1>2. /\ CallerTypes' /\ AR!Popped' = AR!Popped
      /\ \A d \in Clients : inCaller'[d].batch = inCaller[d].batch
      /\ inCaller'[c] = AR!Popping /\ inExpired' = inExpired \cup old
      /\ inDb' = inDb /\ inTried' = inTried /\ inDeleted' = inDeleted
  BY <1>1, PruneStep DEF ArchiveInv, CallerTypes
<1>3. t \notin inLive \cup inExpired \cup AR!Popped \cup inTried \cup inLost
  BY DEF ArchiveInv, AR!HandedOverOnce
<1>4. PICK gone \in SUBSET ((inLive \ old) \cup {t}) :
        inLive' = ((inLive \ old) \cup {t}) \ gone /\ inLost' = inLost \cup gone
  <2>1. CASE inLive' = (inLive \ old) \cup {t} /\ UNCHANGED inLost
    <3> WITNESS {} \in SUBSET ((inLive \ old) \cup {t})
    <3> QED BY <2>1
  <2>2. ASSUME NEW d \in (inLive \ old) \cup {t},
               inLive' = ((inLive \ old) \cup {t}) \ {d}, inLost' = inLost \cup {d}
        PROVE  \E gone \in SUBSET ((inLive \ old) \cup {t}) :
                 inLive' = ((inLive \ old) \cup {t}) \ gone /\ inLost' = inLost \cup gone
    <3> WITNESS {d} \in SUBSET ((inLive \ old) \cup {t})
    <3> QED BY <2>2
  <2> QED BY <1>1, <2>1, <2>2
<1>5. Apart'
  <2>1. inLive' \cap inExpired' = {}
    BY <1>2, <1>3, <1>4 DEF ArchiveInv, Apart
  <2>2. gone \cap (inExpired \cup old \cup AR!Popped) = {}
    BY <1>3, <1>4 DEF ArchiveInv, Apart, AR!HandedOverOnce
  <2> QED BY <1>2, <1>3, <1>4, <2>1, <2>2 DEF ArchiveInv, Apart
<1>6. RowsLeft'
  BY <1>2, <1>4 DEF ArchiveInv, RowsLeft
<1>7. AR!HandedOverOnce'
  <2>1. inSeen' = inLive' \cup inExpired' \cup AR!Popped' \cup inTried' \cup inLost'
    BY <1>1, <1>2, <1>4 DEF ArchiveInv, AR!HandedOverOnce
  <2>2. (inLive' \cup inExpired' \cup AR!Popped') \cap inTried' = {}
    BY <1>2, <1>3, <1>4 DEF ArchiveInv, AR!HandedOverOnce
  <2>3. (inLive' \cup inExpired') \cap AR!Popped' = {}
    BY <1>2, <1>3, <1>4 DEF ArchiveInv, AR!HandedOverOnce
  <2> QED BY <1>2, <2>1, <2>2, <2>3 DEF ArchiveInv, AR!HandedOverOnce
<1> QED BY <1>2, <1>5, <1>6, <1>7 DEF ArchiveInv

LEMMA PopStep ==
  ASSUME ArchiveInv, NEW c \in Clients, AR!Pop(c)
  PROVE  ArchiveInv'
<1> DEFINE new == IF inExpired = {} THEN AR!Idle ELSE [at |-> "insert", batch |-> inExpired]
<1>1. /\ inCaller[c].batch = {} /\ new.batch = inExpired
      /\ new \in [at : {"idle", "pop", "insert"}, batch : SUBSET Intruders]
      /\ new.at # "insert" => new.batch = {}
  <2>1. inExpired \subseteq Intruders
    BY DEF ArchiveInv, AR!HandedOverOnce, CallerTypes
  <2> QED BY <2>1 DEF AR!Pop, AR!Popping, AR!Idle
<1>2. /\ inCaller' = [inCaller EXCEPT ![c] = new] /\ inExpired' = {}
      /\ UNCHANGED <<inLive, inDb, inDay, AR!history, inFailures>>
  BY DEF AR!Pop
<1> HIDE DEF new
<1>3. \A d \in Clients : inCaller'[d] = IF d = c THEN new ELSE inCaller[d]
  BY <1>2 DEF ArchiveInv, CallerTypes
<1>4. CallerTypes'
  BY <1>1, <1>2 DEF ArchiveInv, CallerTypes, AR!history
<1>5. AR!Popped' = AR!Popped \cup inExpired
  BY <1>1, <1>3, PoppedIs, PoppedIsPrime
<1>6. Apart' /\ RowsLeft'
  BY <1>2, <1>5 DEF ArchiveInv, Apart, RowsLeft, AR!history
<1>7. AR!HandedOverOnce'
  <2>1. \A d, e \in Clients : d # e => inCaller'[d].batch \cap inCaller'[e].batch = {}
    BY <1>1, <1>3, PoppedIs DEF ArchiveInv, AR!HandedOverOnce
  <2> QED BY <1>2, <1>5, <2>1 DEF ArchiveInv, AR!HandedOverOnce, Apart, AR!history
<1> QED BY <1>4, <1>6, <1>7 DEF ArchiveInv

LEMMA InsertStep ==
  ASSUME ArchiveInv, NEW c \in Clients, NEW t \in Intruders,
         AR!ArchivePosition(c, t) \/ AR!ArchiveFails(c, t)
  PROVE  ArchiveInv'
<1> DEFINE new == IF inCaller[c].batch = {t} THEN AR!Idle
                  ELSE [at |-> "insert", batch |-> inCaller[c].batch \ {t}]
<1>1. /\ inCaller[c].at = "insert" /\ t \in inCaller[c].batch
      /\ inCaller' = [inCaller EXCEPT ![c] = new] /\ inTried' = inTried \cup {t}
      /\ UNCHANGED <<inLive, inExpired, inDay, inSeen, inLost, inDeleted>>
  <2>1. AR!Done(c, t)
    BY DEF AR!ArchivePosition, AR!ArchiveFails
  <2>2. /\ inCaller[c].at = "insert" /\ t \in inCaller[c].batch
        /\ inTried' = inTried \cup {t}
        /\ UNCHANGED <<inLive, inExpired, inDay, inSeen, inLost, inDeleted>>
    BY <2>1 DEF AR!Done
  <2>3. inCaller' = [inCaller EXCEPT ![c] = new]
    BY <2>1 DEF AR!Done
  <2> QED BY <2>2, <2>3
<1>2. inDb' = inDb \/ inDb' = inDb \cup {AR!Record(t)}
  BY DEF AR!ArchivePosition, AR!ArchiveFails, AR!Insert
<1>3. /\ new.batch = inCaller[c].batch \ {t}
      /\ new \in [at : {"idle", "pop", "insert"}, batch : SUBSET Intruders]
      /\ new.at # "insert" => new.batch = {}
  BY <1>1 DEF ArchiveInv, CallerTypes, AR!Idle
<1> HIDE DEF new
<1>4. \A d \in Clients : inCaller'[d] = IF d = c THEN new ELSE inCaller[d]
  BY <1>1 DEF ArchiveInv, CallerTypes
<1>5. CallerTypes'
  BY <1>1, <1>3 DEF ArchiveInv, CallerTypes
<1>6. AR!Popped' = AR!Popped \ {t}
  BY <1>1, <1>3, <1>4, PoppedIs, PoppedIsPrime DEF ArchiveInv, AR!HandedOverOnce
<1>7. t \in AR!Popped /\ t \notin inLost /\ t \notin inTried
  BY <1>1, PoppedIs DEF ArchiveInv, Apart, AR!HandedOverOnce
<1>8. AR!Record(t).id = t
  BY DEF AR!Record
<1>9. Apart' /\ RowsLeft'
  <2>1. \A r \in inDb : r.id # t
    BY <1>7 DEF ArchiveInv, RowsLeft
  <2> QED BY <1>1, <1>2, <1>6, <1>8, <2>1 DEF ArchiveInv, Apart, RowsLeft
<1>10. AR!HandedOverOnce'
  <2>1. inSeen' = inLive' \cup inExpired' \cup AR!Popped' \cup inTried' \cup inLost'
    BY <1>1, <1>6, <1>7 DEF ArchiveInv, AR!HandedOverOnce
  <2>2. /\ (inLive' \cup inExpired' \cup AR!Popped') \cap inTried' = {}
        /\ (inLive' \cup inExpired') \cap AR!Popped' = {}
    BY <1>1, <1>6, <1>7 DEF ArchiveInv, AR!HandedOverOnce
  <2>3. \A d, e \in Clients : d # e => inCaller'[d].batch \cap inCaller'[e].batch = {}
    BY <1>3, <1>4 DEF ArchiveInv, AR!HandedOverOnce
  <2>4. inExpired' # {} => \E d \in Clients : inCaller'[d] = AR!Popping
    BY <1>1, <1>4 DEF ArchiveInv, AR!HandedOverOnce, AR!Popping
  <2>5. \A r \in inDb' : r.id \notin inDeleted'
    BY <1>1, <1>2, <1>7, <1>8 DEF ArchiveInv, RowsLeft, AR!HandedOverOnce
  <2> QED BY <2>1, <2>2, <2>3, <2>4, <2>5 DEF AR!HandedOverOnce
<1> QED BY <1>5, <1>9, <1>10 DEF ArchiveInv

LEMMA RemoveStep ==
  ASSUME ArchiveInv, NEW rows \in SUBSET inDb, AR!Remove(rows)
  PROVE  ArchiveInv'
<1>1. /\ inDb' = inDb \ rows /\ inDeleted' = inDeleted \cup {r.id : r \in rows}
      /\ UNCHANGED <<inLive, inExpired, inCaller, inSeen, inTried, inLost>>
  BY DEF AR!Remove, AR!list
<1>2. AR!Popped' = AR!Popped
  BY <1>1, PoppedIs, PoppedIsPrime
<1>3. CallerTypes' /\ Apart'
  BY <1>1, <1>2 DEF ArchiveInv, CallerTypes, Apart
<1>4. RowsLeft'
  BY <1>1 DEF ArchiveInv, RowsLeft
<1>5. \A r \in inDb' : r.id \notin inDeleted'
  BY <1>1 DEF ArchiveInv, RowsLeft, AR!HandedOverOnce
<1>6. AR!HandedOverOnce'
  BY <1>1, <1>2, <1>5 DEF ArchiveInv, AR!HandedOverOnce
<1> QED BY <1>3, <1>4, <1>6 DEF ArchiveInv

LEMMA RestartStep ==
  ASSUME ArchiveInv, AR!Restart
  PROVE  ArchiveInv'
<1>1. /\ inLive' = {} /\ inExpired' = {} /\ inCaller' = [c \in Clients |-> AR!Idle]
      /\ inLost' = inLost \cup inLive \cup inExpired \cup AR!Popped
      /\ UNCHANGED <<inSeen, inTried, inDeleted>>
  BY DEF AR!Restart
<1>2. PICK late \in SUBSET AR!Popped :
        inDb' = inDb \cup {AR!Record(t) : t \in {u \in late : \A r \in inDb : r.id # u}}
  BY DEF AR!Restart
<1>3. /\ CallerTypes' /\ \A c \in Clients : inCaller'[c].batch = {}
  BY <1>1 DEF ArchiveInv, CallerTypes, AR!Idle
<1>4. AR!Popped' = {}
  BY <1>3, PoppedIsPrime
<1>5. \A t : AR!Record(t).id = t
  BY DEF AR!Record
<1>6. \A r \in inDb' : r \in inDb \/ (r.id \in AR!Popped /\ r = AR!Record(r.id)
                                    /\ \A s \in inDb : s.id # r.id)
  BY <1>2, <1>5
<1>7. RowsLeft'
  BY <1>1, <1>2, <1>5, <1>6 DEF ArchiveInv, RowsLeft
<1>8. \A r \in inDb' : r.id \notin inDeleted'
  BY <1>1, <1>6 DEF ArchiveInv, RowsLeft, AR!HandedOverOnce, Apart
<1>9. Apart' /\ AR!HandedOverOnce'
  BY <1>1, <1>3, <1>4, <1>8 DEF ArchiveInv, Apart, AR!HandedOverOnce
<1> QED BY <1>3, <1>7, <1>9 DEF ArchiveInv

LEMMA ArchiveStep ==
  ASSUME ArchiveInv, [AR!Next]_(AR!vars)
  PROVE  ArchiveInv'
<1>1. CASE UNCHANGED AR!vars \/ AR!Tick
  <2>1. UNCHANGED <<inLive, inExpired, inCaller, inDb, inSeen, inTried, inLost, inDeleted>>
    BY <1>1 DEF AR!vars, AR!list, AR!history, AR!Tick
  <2>2. AR!Popped' = AR!Popped
    BY <2>1, PoppedIs, PoppedIsPrime
  <2> QED BY <2>1, <2>2 DEF ArchiveInv, CallerTypes, Apart, RowsLeft, AR!HandedOverOnce
<1>2. ASSUME NEW c \in Clients, NEW t \in Intruders, AR!ArchivePosition(c, t) \/ AR!ArchiveFails(c, t)
      PROVE  ArchiveInv'
  BY <1>2, InsertStep
<1>3. ASSUME NEW c \in Clients, AR!Read(c) \/ AR!AddPosition(c) \/ AR!Pop(c) PROVE ArchiveInv'
  BY <1>3, ReadStep, AddStep, PopStep
<1>4. CASE AR!Delete \/ AR!PruneRetention
  <2>1. PICK rows \in SUBSET inDb : AR!Remove(rows)
    BY <1>4 DEF AR!Delete, AR!PruneRetention, AR!Old
  <2> QED BY <2>1, RemoveStep
<1>5. CASE AR!Restart
  BY <1>5, RestartStep
<1> QED BY <1>1, <1>2, <1>3, <1>4, <1>5 DEF AR!Next

------------------------------------------------------------------------------
\* The managed network document.

\* One client at most is under way, ...
OneRequest == \A c, d \in Clients : ntRequest[c] # NT!Idle /\ ntRequest[d] # NT!Idle => c = d

\* ... and what it would put back is a document netplan accepts.
PreviousAccepted ==
  \A c \in Clients :
    ntRequest[c].at \in {"backup", "write", "generate"} => ntRequest[c].previous \notin Rejected

NetworkInv == NT!TypeOK /\ (ntDisturbed \/ (OneRequest /\ PreviousAccepted /\ NT!AcceptedAtRest))

-----------------------------------------------------------------------------
\* A request that names a step of an update has its document and the former one.
LEMMA UpdateHasDocuments ==
  ASSUME NT!TypeOK, NEW c \in Clients, ntRequest[c].at \in {"backup", "write", "generate", "cloud"}
  PROVE  ntRequest[c] \in [at : {"backup", "write", "generate", "cloud"}, document : Documents,
                         previous : Documents \cup {None}]
BY DEF NT!TypeOK, NT!Requests

LEMMA IdleIsRequest == NT!Idle \in NT!Requests /\ NT!Idle.at = "idle"
BY DEF NT!Idle, NT!Requests

LEMMA BeginRequestTypes ==
  ASSUME NT!NetworkConstants, NT!TypeOK, NEW c \in Clients, NEW r \in NT!Requests, NT!Begin(c, r)
  PROVE  /\ ntRequest' \in [Clients -> NT!Requests]
         /\ ntDisturbed' \in BOOLEAN /\ ntRequests' \in 0..MaxUpdates
<1>1. ntRequest' \in [Clients -> NT!Requests]
  BY DEF NT!TypeOK, NT!Begin
<1>2. ntRequests' \in 0..MaxUpdates
  <2>1. ntRequests \in 0..MaxUpdates /\ MaxUpdates \in Nat
    BY DEF NT!NetworkConstants, NT!TypeOK
  <2>2. ntRequests < MaxUpdates /\ ntRequests' = ntRequests + 1
    BY DEF NT!Begin
  <2> QED BY <2>1, <2>2
<1>3. ntDisturbed' \in BOOLEAN
  BY Zenon DEF NT!TypeOK, NT!Begin
<1> QED BY <1>1, <1>2, <1>3

LEMMA EndRequestTypes ==
  ASSUME NT!TypeOK, NEW c \in Clients, NT!End(c)
  PROVE  ntRequest' \in [Clients -> NT!Requests]
BY IdleIsRequest DEF NT!TypeOK, NT!End

LEMMA UpdateTypes ==
  ASSUME NT!TypeOK, NEW c \in Clients,
         ntRequest[c].at \in {"backup", "write", "generate", "cloud"},
         NEW at \in {"backup", "write", "generate", "cloud"}, NT!To(c, at)
  PROVE  ntRequest' \in [Clients -> NT!Requests]
<1>1. [ntRequest[c] EXCEPT !.at = at] \in NT!Requests
  BY UpdateHasDocuments DEF NT!Requests
<1> QED BY <1>1 DEF NT!TypeOK, NT!To

LEMMA NetworkTypes ==
  ASSUME NT!NetworkConstants, NT!TypeOK, [NT!Next]_(NT!vars)
  PROVE  NT!TypeOK'
<1> USE DEF NT!files, NT!host
<1>1. CASE UNCHANGED NT!vars
  BY <1>1 DEF NT!vars, NT!TypeOK
<1>2. ASSUME NEW c \in Clients, NT!BeginUpdate(c) PROVE NT!TypeOK'
  <2>1. PICK d \in NT!Given : NT!Begin(c, [at |-> "backup", document |-> d, previous |-> ntManaged])
    BY <1>2 DEF NT!BeginUpdate
  <2>2. [at |-> "backup", document |-> d, previous |-> ntManaged] \in NT!Requests
    BY DEF NT!Given, NT!TypeOK, NT!Requests
  <2> QED BY <1>2, <2>1, <2>2, BeginRequestTypes DEF NT!BeginUpdate, NT!TypeOK
<1>3. ASSUME NEW c \in Clients, NT!WriteBackup(c) PROVE NT!TypeOK'
  <2>1. ntRequest' \in [Clients -> NT!Requests]
    BY <1>3, UpdateTypes DEF NT!WriteBackup
  <2>2. ntRequest[c].previous \in Documents \cup {None}
    BY <1>3, UpdateHasDocuments DEF NT!WriteBackup
  <2> QED BY <1>3, <2>1, <2>2 DEF NT!WriteBackup, NT!TypeOK
<1>4. ASSUME NEW c \in Clients, NT!WriteDocument(c) PROVE NT!TypeOK'
  <2>1. ntRequest' \in [Clients -> NT!Requests]
    BY <1>4, UpdateTypes DEF NT!WriteDocument
  <2>2. ntRequest[c].document \in Documents
    BY <1>4, UpdateHasDocuments DEF NT!WriteDocument
  <2> QED BY <1>4, <2>1, <2>2 DEF NT!WriteDocument, NT!TypeOK
<1>5. ASSUME NEW c \in Clients, NT!FailEarly(c) PROVE NT!TypeOK'
  BY <1>5, EndRequestTypes DEF NT!FailEarly, NT!TypeOK
<1>6. ASSUME NEW c \in Clients, NT!Generate(c) PROVE NT!TypeOK'
  <2>1. ntRequest' \in [Clients -> NT!Requests]
    BY <1>6, UpdateTypes DEF NT!Generate
  <2> QED BY <1>6, <2>1 DEF NT!Generate, NT!TypeOK
<1>7. ASSUME NEW c \in Clients, NT!GenerateFails(c) PROVE NT!TypeOK'
  <2>1. ntRequest' \in [Clients -> NT!Requests]
    BY <1>7, EndRequestTypes DEF NT!GenerateFails
  <2>2. ntRequest[c].previous \in Documents \cup {None}
    BY <1>7, UpdateHasDocuments DEF NT!GenerateFails
  <2> QED BY <1>7, <2>1, <2>2 DEF NT!GenerateFails, NT!TypeOK
<1>8. ASSUME NEW c \in Clients, NT!DisableCloudInit(c) PROVE NT!TypeOK'
  BY <1>8, EndRequestTypes DEF NT!DisableCloudInit, NT!TypeOK
<1>9. ASSUME NEW c \in Clients, NT!BeginApply(c) \/ NT!BeginRestart(c) PROVE NT!TypeOK'
  <2>1. \E r \in NT!Requests : NT!Begin(c, r)
    BY <1>9 DEF NT!BeginApply, NT!BeginRestart, NT!Requests
  <2> QED BY <1>9, <2>1, BeginRequestTypes DEF NT!BeginApply, NT!BeginRestart, NT!TypeOK
<1>10. ASSUME NEW c \in Clients, NT!PrepareNetworkManagers(c) PROVE NT!TypeOK'
  <2>1. [ntRequest[c] EXCEPT !.at = "schedule"] \in NT!Requests
    BY <1>10 DEF NT!PrepareNetworkManagers, NT!TypeOK, NT!Requests
  <2> QED BY <1>10, <2>1 DEF NT!PrepareNetworkManagers, NT!To, NT!TypeOK
<1>11. ASSUME NEW c \in Clients, NT!ScheduleScript(c) PROVE NT!TypeOK'
  BY <1>11, EndRequestTypes DEF NT!ScheduleScript, NT!TypeOK
<1>12. CASE NT!DeleteBackup
  BY <1>12 DEF NT!DeleteBackup, NT!TypeOK
<1>13. CASE NT!RunScript
  BY <1>13 DEF NT!RunScript, NT!TypeOK
<1>14. CASE NT!Crash
  <2>1. ntRequest' \in [Clients -> NT!Requests]
    BY <1>14, IdleIsRequest DEF NT!Crash
  <2>2. ntDisturbed' \in BOOLEAN
    BY <1>14, Zenon DEF NT!Crash, NT!TypeOK
  <2> QED BY <1>14, <2>1, <2>2 DEF NT!Crash, NT!TypeOK
<1> QED
  BY <1>1, <1>2, <1>3, <1>4, <1>5, <1>6, <1>7, <1>8, <1>9, <1>10, <1>11, <1>12, <1>13, <1>14
  DEF NT!Next

LEMMA InitNetwork == ASSUME NT!NetworkConstants PROVE NT!Init => NetworkInv
<1> SUFFICES ASSUME NT!Init PROVE NetworkInv
  OBVIOUS
<1>1. NT!TypeOK
  <2>1. ntRequest \in [Clients -> NT!Requests]
    BY IdleIsRequest DEF NT!Init
  <2>2. ntRequests = 0 /\ MaxUpdates \in Nat
    BY Zenon DEF NT!NetworkConstants, NT!Init
  <2>3. ntRequests \in 0..MaxUpdates
    BY <2>2
  <2> QED BY <2>1, <2>3 DEF NT!Init, NT!TypeOK
<1>2. OneRequest /\ PreviousAccepted /\ NT!AcceptedAtRest
  BY IdleIsRequest DEF NT!NetworkConstants, NT!Init, OneRequest, PreviousAccepted, NT!AcceptedAtRest
<1> QED BY <1>1, <1>2 DEF NetworkInv

\* Whoever begins undisturbed finds nobody under way and an accepted document.
LEMMA BeginsAtRest ==
  ASSUME NetworkInv, NEW c \in Clients, NEW r, NT!Begin(c, r), ~ntDisturbed'
  PROVE  /\ ~ntDisturbed /\ ntManaged \notin Rejected
         /\ \A d \in Clients : ntRequest[d] = NT!Idle
         /\ \A d \in Clients : ntRequest'[d] = IF d = c THEN r ELSE NT!Idle
<1>1. ~ntDisturbed /\ \A d \in Clients : ntRequest[d] = NT!Idle
  BY DEF NT!Begin, NT!Busy, NetworkInv, NT!TypeOK
<1>2. ntManaged \notin Rejected
  BY <1>1, IdleIsRequest DEF NetworkInv, NT!AcceptedAtRest
<1> QED BY <1>1, <1>2 DEF NT!Begin, NetworkInv, NT!TypeOK

LEMMA NetworkStep ==
  ASSUME NT!NetworkConstants, NetworkInv, [NT!Next]_(NT!vars)
  PROVE  NetworkInv'
<1>1. NT!TypeOK'
  BY NetworkTypes DEF NetworkInv
<1> SUFFICES ASSUME ~ntDisturbed' PROVE (OneRequest /\ PreviousAccepted /\ NT!AcceptedAtRest)'
  BY <1>1 DEF NetworkInv
<1> USE DEF NT!files, NT!host
\* A step of the client under way that goes on to at.
<1>2. ASSUME NEW c \in Clients, NEW at, NT!To(c, at), ~ntDisturbed, ntRequest[c].at # "idle"
      PROVE  /\ \A d \in Clients \ {c} : ntRequest[d] = NT!Idle
             /\ \A d \in Clients \ {c} : ntRequest'[d] = NT!Idle
             /\ ntRequest'[c] = [ntRequest[c] EXCEPT !.at = at]
  BY <1>2, IdleIsRequest DEF NT!To, NetworkInv, OneRequest, NT!TypeOK
\* The client under way ends.
<1>3. ASSUME NEW c \in Clients, NT!End(c), ~ntDisturbed, ntRequest[c].at # "idle"
      PROVE  \A d \in Clients : ntRequest'[d] = NT!Idle
  BY <1>3, IdleIsRequest DEF NT!End, NetworkInv, OneRequest, NT!TypeOK
<1>4. CASE UNCHANGED NT!vars
  BY <1>4 DEF NT!vars, NetworkInv, OneRequest, PreviousAccepted, NT!AcceptedAtRest
<1>5. ASSUME NEW c \in Clients, NT!BeginUpdate(c) PROVE (OneRequest /\ PreviousAccepted /\ NT!AcceptedAtRest)'
  <2>1. PICK d \in NT!Given : NT!Begin(c, [at |-> "backup", document |-> d, previous |-> ntManaged])
    BY <1>5 DEF NT!BeginUpdate
  <2> QED BY <1>5, <2>1, BeginsAtRest, IdleIsRequest
          DEF NT!BeginUpdate, OneRequest, PreviousAccepted, NT!AcceptedAtRest
<1>6. ASSUME NEW c \in Clients, NT!BeginApply(c) \/ NT!BeginRestart(c)
      PROVE (OneRequest /\ PreviousAccepted /\ NT!AcceptedAtRest)'
  <2>1. PICK at \in {"prepare", "schedule"} : NT!Begin(c, [at |-> at])
    BY <1>6 DEF NT!BeginApply, NT!BeginRestart
  <2> QED BY <1>6, <2>1, BeginsAtRest, IdleIsRequest
          DEF NT!BeginApply, NT!BeginRestart, OneRequest, PreviousAccepted, NT!AcceptedAtRest
<1>7. ASSUME NEW c \in Clients, NEW at, NT!To(c, at), ~ntDisturbed, ntRequest[c].at # "idle"
      PROVE  /\ OneRequest'
             /\ (at \in {"backup", "write", "generate"}
                   => ntRequest'[c].previous \notin Rejected)
                => PreviousAccepted'
  <2>1. \A d \in Clients \ {c} : ntRequest'[d] = NT!Idle
    BY <1>2, <1>7
  <2>2. ntRequest'[c].at = at
    <3>1. ntRequest[c] \in NT!Requests
      BY DEF NetworkInv, NT!TypeOK
    <3>2. [ntRequest[c] EXCEPT !.at = at].at = at
      BY <3>1 DEF NT!Requests
    <3> QED BY <1>2, <1>7, <3>2
  <2>3. OneRequest'
    BY <2>1 DEF OneRequest
  <2>4. ASSUME at \in {"backup", "write", "generate"} => ntRequest'[c].previous \notin Rejected
        PROVE  PreviousAccepted'
    BY <2>1, <2>2, <2>4, IdleIsRequest DEF PreviousAccepted
  <2> QED BY <2>3, <2>4
<1>8. ASSUME NEW c \in Clients, NT!WriteBackup(c) \/ NT!WriteDocument(c) \/ NT!Generate(c)
      PROVE (OneRequest /\ PreviousAccepted /\ NT!AcceptedAtRest)'
  <2>1. ~ntDisturbed /\ ntRequest[c].at \in {"backup", "write", "generate"}
    BY <1>8 DEF NT!WriteBackup, NT!WriteDocument, NT!Generate
  <2>2. PICK at \in {"write", "generate", "cloud"} : NT!To(c, at)
    BY <1>8 DEF NT!WriteBackup, NT!WriteDocument, NT!Generate
  <2>3. [ntRequest[c] EXCEPT !.at = at].previous = ntRequest[c].previous
    BY <2>1, UpdateHasDocuments DEF NetworkInv
  <2>4. ntRequest[c].previous \notin Rejected
    BY <2>1 DEF NetworkInv, PreviousAccepted
  <2>5. ntRequest'[c] = [ntRequest[c] EXCEPT !.at = at] /\ ntRequest[c].at # "idle"
    BY <1>2, <2>1, <2>2
  <2>6. ntRequest'[c].at = at
    BY <2>1, <2>5, UpdateHasDocuments DEF NetworkInv
  <2>7. OneRequest' /\ PreviousAccepted'
    BY <1>7, <2>1, <2>2, <2>3, <2>4, <2>5
  <2>8. NT!AcceptedAtRest'
    <3>1. CASE NT!WriteBackup(c)
      <4>1. \A d \in Clients : ntRequest[d].at # "generate"
        BY <2>1, <2>2, <3>1, <1>2, IdleIsRequest DEF NT!WriteBackup
      <4> QED BY <2>1, <3>1, <4>1 DEF NT!WriteBackup, NetworkInv, NT!AcceptedAtRest
    <3>2. CASE NT!WriteDocument(c)
      <4>1. ntRequest'[c].at = "generate"
        BY <3>2, <2>1, UpdateHasDocuments DEF NT!WriteDocument, NT!To, NetworkInv, NT!TypeOK
      <4> QED BY <4>1 DEF NT!AcceptedAtRest
    <3>3. CASE NT!Generate(c)
      BY <3>3 DEF NT!Generate, NT!AcceptedAtRest
    <3> QED BY <1>8, <3>1, <3>2, <3>3
  <2> QED BY <2>7, <2>8
<1>10. ASSUME NEW c \in Clients, NT!PrepareNetworkManagers(c)
       PROVE (OneRequest /\ PreviousAccepted /\ NT!AcceptedAtRest)'
  <2>1. ~ntDisturbed /\ NT!To(c, "schedule") /\ ntRequest[c].at = "prepare" /\ ntManaged' = ntManaged
    BY <1>10 DEF NT!PrepareNetworkManagers
  <2>2. OneRequest' /\ PreviousAccepted'
    BY <1>7, <2>1
  <2>3. \A d \in Clients : ntRequest[d].at # "generate"
    BY <1>2, <2>1, IdleIsRequest
  <2> QED BY <2>1, <2>2, <2>3 DEF NetworkInv, NT!AcceptedAtRest
<1>11. ASSUME NEW c \in Clients,
              NT!FailEarly(c) \/ NT!GenerateFails(c) \/ NT!DisableCloudInit(c) \/ NT!ScheduleScript(c)
       PROVE (OneRequest /\ PreviousAccepted /\ NT!AcceptedAtRest)'
  <2>1. ~ntDisturbed /\ NT!End(c) /\ ntRequest[c].at # "idle"
    <3>1. CASE NT!FailEarly(c)
      BY <3>1 DEF NT!FailEarly
    <3>2. CASE NT!GenerateFails(c)
      BY <3>2 DEF NT!GenerateFails
    <3>3. CASE NT!DisableCloudInit(c)
      BY <3>3 DEF NT!DisableCloudInit
    <3>4. CASE NT!ScheduleScript(c)
      BY <3>4 DEF NT!ScheduleScript
    <3> QED BY <1>11, <3>1, <3>2, <3>3, <3>4
  <2>2. \A d \in Clients : ntRequest'[d] = NT!Idle
    BY <2>1, <1>3
  <2>3. ntManaged' \notin Rejected
    <3>1. \A d \in Clients \ {c} : ntRequest[d] = NT!Idle
      BY <2>1, IdleIsRequest DEF NetworkInv, OneRequest
    <3>2. CASE NT!GenerateFails(c)
      BY <2>1, <3>2 DEF NT!GenerateFails, NetworkInv, PreviousAccepted
    <3>3. CASE NT!FailEarly(c) \/ NT!DisableCloudInit(c) \/ NT!ScheduleScript(c)
      BY <2>1, <3>1, <3>3, IdleIsRequest DEF NT!FailEarly, NT!DisableCloudInit, NT!ScheduleScript, NetworkInv, NT!AcceptedAtRest
    <3> QED BY <1>11, <3>2, <3>3
  <2> QED BY <2>2, <2>3, IdleIsRequest DEF OneRequest, PreviousAccepted, NT!AcceptedAtRest
<1>12. CASE NT!DeleteBackup
  BY <1>12 DEF NT!DeleteBackup, NetworkInv, OneRequest, PreviousAccepted, NT!AcceptedAtRest
<1>13. CASE NT!RunScript
  BY <1>13 DEF NT!RunScript, NetworkInv, OneRequest, PreviousAccepted, NT!AcceptedAtRest
<1>14. CASE NT!Crash
  BY <1>14, IdleIsRequest DEF NT!Crash, NetworkInv, OneRequest, PreviousAccepted, NT!AcceptedAtRest
<1> QED
  BY <1>4, <1>5, <1>6, <1>8, <1>10, <1>11, <1>12, <1>13, <1>14 DEF NT!Next

------------------------------------------------------------------------------
\* The decoder.

PacketTypes ==
  /\ ddJobs \in Seq(DD!Jobs) /\ ddAsked \subseteq DOMAIN ddJobs
  /\ ddAnswers \subseteq [request : DOMAIN ddJobs, reply : DD!Replies]
  /\ ddKeys \in [CipherIds -> Nat \cup {None}] /\ ddNow \in Nat

\* A packet whose request is out has its channel registered.
Registered ==
  \A i \in DOMAIN ddJobs : ddJobs[i].step \in {"sent", "waiting"} => i \in ddResponses

\* An acceptance on its way, received or cached is one the platform gave.
Accepted ==
  /\ \A a \in ddAnswers : a.reply = "accepted" => ddJobs[a.request].id \in ddKnown
  /\ \A i \in DOMAIN ddJobs : ddJobs[i].got = "accepted" => ddJobs[i].id \in ddKnown
  /\ DD!KeyAccepted

DecoderInv == PacketTypes /\ Registered /\ Accepted

\* A packet goes on to another step and keeps the rest.
LEMMA GoesOn ==
  ASSUME ddJobs \in Seq(DD!Jobs), NEW i \in DOMAIN ddJobs, NEW step \in DD!Steps, DD!GoOn(i, step)
  PROVE  /\ ddJobs' \in Seq(DD!Jobs) /\ DOMAIN ddJobs' = DOMAIN ddJobs
         /\ \A j \in DOMAIN ddJobs : ddJobs'[j].id = ddJobs[j].id /\ ddJobs'[j].got = ddJobs[j].got
         /\ \A j \in DOMAIN ddJobs : j # i => ddJobs'[j].step = ddJobs[j].step
         /\ ddJobs'[i].step = step
<1>1. \A j \in DOMAIN ddJobs : ddJobs[j] \in DD!Jobs
  OBVIOUS
<1>2. ddJobs' = [ddJobs EXCEPT ![i] = [ddJobs[i] EXCEPT !.step = step]]
  BY DEF DD!GoOn
<1>3. [ddJobs[i] EXCEPT !.step = step] \in DD!Jobs
  BY <1>1 DEF DD!Jobs
<1>4. \A j \in DOMAIN ddJobs : j # i => ddJobs'[j] = ddJobs[j]
  BY <1>2
<1>5. ddJobs'[i] = [ddJobs[i] EXCEPT !.step = step]
  BY <1>2
<1>6. ddJobs'[i].step = step /\ ddJobs'[i].id = ddJobs[i].id /\ ddJobs'[i].got = ddJobs[i].got
  BY <1>1, <1>5 DEF DD!Jobs
<1>7. ddJobs' \in Seq(DD!Jobs) /\ DOMAIN ddJobs' = DOMAIN ddJobs
  BY <1>2, <1>3
<1> QED BY <1>4, <1>6, <1>7

\* Steps that only take one packet further, and know nothing of keys.
LEMMA Further ==
  ASSUME DecoderInv, NEW i \in DOMAIN ddJobs, NEW step \in DD!Steps, DD!GoOn(i, step),
         ddAsked' \subseteq ddAsked \cup {i}, UNCHANGED <<ddKeys, ddAnswers, ddKnown, ddNow>>,
         ddResponses \ {i} \subseteq ddResponses',
         step \in {"sent", "waiting"} => i \in ddResponses'
  PROVE  DecoderInv'
<1>1. /\ ddJobs' \in Seq(DD!Jobs) /\ DOMAIN ddJobs' = DOMAIN ddJobs
      /\ \A j \in DOMAIN ddJobs : ddJobs'[j].id = ddJobs[j].id /\ ddJobs'[j].got = ddJobs[j].got
      /\ \A j \in DOMAIN ddJobs : j # i => ddJobs'[j].step = ddJobs[j].step
      /\ ddJobs'[i].step = step
  BY GoesOn DEF DecoderInv, PacketTypes
<1>2. PacketTypes'
  BY <1>1 DEF DecoderInv, PacketTypes
<1>3. Registered'
  BY <1>1 DEF DecoderInv, Registered
<1>4. Accepted'
  <2>1. \A a \in ddAnswers : a.request \in DOMAIN ddJobs
    BY DEF DecoderInv, PacketTypes
  <2> QED BY <1>1, <2>1 DEF DecoderInv, Accepted, DD!KeyAccepted
<1> QED BY <1>2, <1>3, <1>4 DEF DecoderInv

LEMMA ReceiveStep ==
  ASSUME DD!DecoderConstants, DecoderInv, DD!Receive
  PROVE  DecoderInv'
<1>1. PICK kind \in DD!Kinds, id \in CipherIds, device \in Sensors :
        /\ ddJobs' = Append(ddJobs,
             [kind |-> kind, id |-> id, device |-> device, got |-> None,
              step |-> IF DD!Ends(kind, id) THEN "ended" ELSE "client",
              target |-> FALSE])
        /\ ddKeys' = IF kind \in {"key", "dynamic"} THEN DD!LookUp(id) ELSE ddKeys
  BY DEF DD!Receive
<1> DEFINE new == [kind |-> kind, id |-> id, device |-> device, got |-> None,
                   step |-> IF DD!Ends(kind, id) THEN "ended" ELSE "client",
                   target |-> FALSE]
<1>2. new \in DD!Jobs /\ new.got = None /\ new.step \notin {"sent", "waiting"}
  BY DEF DD!Jobs, DD!Steps
<1>3. ddJobs' = Append(ddJobs, new)
  BY <1>1
<1> HIDE DEF new
<1>4. /\ ddJobs' \in Seq(DD!Jobs) /\ DOMAIN ddJobs \subseteq DOMAIN ddJobs'
      /\ \A j \in DOMAIN ddJobs : ddJobs'[j] = ddJobs[j]
      /\ \A j \in DOMAIN ddJobs' : j \in DOMAIN ddJobs \/ ddJobs'[j] = new
  BY <1>2, <1>3 DEF DecoderInv, PacketTypes
<1>5. ddKeys' \in [CipherIds -> Nat \cup {None}] /\ \A x \in CipherIds : ddKeys'[x] \in {ddKeys[x], None}
  BY <1>1 DEF DD!LookUp, DecoderInv, PacketTypes
<1>6. UNCHANGED <<ddAsked, ddAnswers, ddKnown, ddNow, ddResponses>>
  BY DEF DD!Receive, DD!traffic
<1>7. PacketTypes'
  BY <1>4, <1>5, <1>6 DEF DecoderInv, PacketTypes
<1>8. Registered'
  BY <1>2, <1>4, <1>6 DEF DecoderInv, Registered
<1>9. Accepted'
  <2>1. \A a \in ddAnswers : a.request \in DOMAIN ddJobs
    BY DEF DecoderInv, PacketTypes
  <2>2. None # "accepted"
    BY DEF DD!DecoderConstants, DD!Replies
  <2> QED BY <1>2, <1>4, <1>5, <1>6, <2>1, <2>2 DEF DecoderInv, Accepted, DD!KeyAccepted
<1> QED BY <1>7, <1>8, <1>9 DEF DecoderInv

LEMMA TakeStep ==
  ASSUME DecoderInv, NEW i \in DOMAIN ddJobs, DD!TakeResponse(i)
  PROVE  DecoderInv'
<1> DEFINE done == [ddJobs[i] EXCEPT !.step = "ended", !.target = ddJobs[i].got = "target"]
<1>1. ddJobs \in Seq(DD!Jobs) /\ ddJobs[i] \in DD!Jobs
  BY DEF DecoderInv, PacketTypes
<1>2. /\ done \in DD!Jobs /\ done.id = ddJobs[i].id /\ done.got = ddJobs[i].got
      /\ done.step = "ended"
  BY <1>1 DEF DD!Jobs, DD!Steps
<1>3. ddJobs' = [ddJobs EXCEPT ![i] = done]
  BY DEF DD!TakeResponse
<1> HIDE DEF done
<1>4. /\ ddJobs' \in Seq(DD!Jobs) /\ DOMAIN ddJobs' = DOMAIN ddJobs
      /\ ddJobs'[i] = done /\ \A j \in DOMAIN ddJobs : j # i => ddJobs'[j] = ddJobs[j]
  BY <1>1, <1>2, <1>3
<1>5. UNCHANGED <<ddAsked, ddAnswers, ddKnown, ddNow>> /\ ddResponses' = ddResponses \ {i}
  BY DEF DD!TakeResponse
<1>6. ddKeys' = IF ddJobs[i].got = "accepted" THEN [ddKeys EXCEPT ![ddJobs[i].id] = ddNow] ELSE ddKeys
  BY DEF DD!TakeResponse
<1>7. PacketTypes'
  BY <1>4, <1>5, <1>6 DEF DecoderInv, PacketTypes
<1>8. Registered'
  BY <1>2, <1>4, <1>5 DEF DecoderInv, Registered
<1>9. Accepted'
  <2>1. \A a \in ddAnswers : a.request \in DOMAIN ddJobs
    BY DEF DecoderInv, PacketTypes
  <2>2. DD!KeyAccepted'
    BY <1>5, <1>6 DEF DecoderInv, PacketTypes, Accepted, DD!KeyAccepted
  <2> QED BY <1>2, <1>4, <1>5, <2>1, <2>2 DEF DecoderInv, Accepted
<1> QED BY <1>7, <1>8, <1>9 DEF DecoderInv

\* A message is for the packet it names, if that still waits for one.
LEMMA MessageStep ==
  ASSUME DecoderInv, DD!HandleMessage
  PROVE  DecoderInv'
<1>1. PICK a \in ddAnswers :
        /\ ddAnswers' \subseteq ddAnswers
        /\ ddJobs' = IF a.request \in ddResponses /\ ddJobs[a.request].got = None
                     THEN [ddJobs EXCEPT ![a.request].got = a.reply] ELSE ddJobs
  BY DEF DD!HandleMessage
<1>2. a.request \in DOMAIN ddJobs /\ a.reply \in DD!Replies
  BY DEF DecoderInv, PacketTypes
<1> DEFINE i == a.request
           told == [ddJobs[i] EXCEPT !.got = a.reply]
<1>3. ddJobs \in Seq(DD!Jobs) /\ ddJobs[i] \in DD!Jobs
  BY <1>2 DEF DecoderInv, PacketTypes
<1>4. told \in DD!Jobs /\ told.id = ddJobs[i].id /\ told.got = a.reply /\ told.step = ddJobs[i].step
  BY <1>2, <1>3 DEF DD!Jobs
<1>5. ddJobs' = ddJobs \/ ddJobs' = [ddJobs EXCEPT ![i] = told]
  BY <1>1
<1>6. UNCHANGED <<ddKeys, ddResponses, ddAsked, ddKnown, ddNow>>
  BY DEF DD!HandleMessage
<1>7. CASE ddJobs' = ddJobs
  <2>1. PacketTypes' /\ Registered' /\ Accepted'
    BY <1>1, <1>6, <1>7 DEF DecoderInv, PacketTypes, Registered, Accepted, DD!KeyAccepted
  <2> QED BY <2>1 DEF DecoderInv
<1>8. CASE ddJobs' = [ddJobs EXCEPT ![i] = told]
  <2> HIDE DEF i, told
  <2>1. i \in DOMAIN ddJobs
    BY <1>2 DEF i
  <2>2. /\ ddJobs' \in Seq(DD!Jobs) /\ DOMAIN ddJobs' = DOMAIN ddJobs
        /\ ddJobs'[i] = told /\ \A j \in DOMAIN ddJobs : j # i => ddJobs'[j] = ddJobs[j]
    BY <1>3, <1>4, <1>8, <2>1
  <2>3. PacketTypes'
    BY <1>1, <1>6, <2>2 DEF DecoderInv, PacketTypes
  <2>4. Registered'
    BY <1>4, <1>6, <2>2 DEF DecoderInv, Registered
  <2>5. Accepted'
    <3>1. \A b \in ddAnswers : b.request \in DOMAIN ddJobs
      BY DEF DecoderInv, PacketTypes
    <3>2. \A j \in DOMAIN ddJobs : ddJobs'[j].id = ddJobs[j].id
      BY <1>4, <2>2
    <3>3. a.reply = "accepted" => ddJobs[i].id \in ddKnown
      BY DEF i, DecoderInv, Accepted
    <3> QED BY <1>1, <1>4, <1>6, <2>2, <3>1, <3>2, <3>3 DEF DecoderInv, Accepted, DD!KeyAccepted
  <2> QED BY <2>3, <2>4, <2>5 DEF DecoderInv
<1> QED BY <1>5, <1>7, <1>8

LEMMA AnswerStep ==
  ASSUME DecoderInv, DD!Answer
  PROVE  DecoderInv'
<1>1. PICK i \in ddAsked : \E r \in DD!Answers(i) :
        /\ ddAsked' = ddAsked \ {i}
        /\ ddKnown' = IF r = "accepted" THEN ddKnown \cup {ddJobs[i].id} ELSE ddKnown
        /\ ddAnswers' = IF ddJobs[i].device \in ddRoutes
                        THEN ddAnswers \cup {[request |-> i, reply |-> r]}
                        ELSE ddAnswers
  BY DEF DD!Answer
<1>2. PICK r \in DD!Answers(i) :
        /\ ddAsked' = ddAsked \ {i}
        /\ ddKnown' = IF r = "accepted" THEN ddKnown \cup {ddJobs[i].id} ELSE ddKnown
        /\ ddAnswers' = IF ddJobs[i].device \in ddRoutes
                        THEN ddAnswers \cup {[request |-> i, reply |-> r]}
                        ELSE ddAnswers
  BY <1>1
<1>3. i \in DOMAIN ddJobs /\ r \in DD!Replies
  BY DEF DecoderInv, PacketTypes, DD!Answers, DD!Replies
<1>4. UNCHANGED <<ddJobs, ddKeys, ddResponses, ddNow>>
  BY DEF DD!Answer
<1>5. PacketTypes'
  BY <1>2, <1>3, <1>4 DEF DecoderInv, PacketTypes
<1>6. Registered'
  BY <1>4 DEF DecoderInv, Registered
<1>7. Accepted'
  BY <1>2, <1>3, <1>4 DEF DecoderInv, Accepted, DD!KeyAccepted
<1> QED BY <1>5, <1>6, <1>7 DEF DecoderInv

LEMMA DecoderStep ==
  ASSUME DD!DecoderConstants, DecoderInv, [DD!Next]_(DD!vars)
  PROVE  DecoderInv'
<1>1. CASE UNCHANGED DD!vars \/ DD!Forget \/ DD!Tick
  <2>1. UNCHANGED <<ddJobs, ddKeys, ddResponses, ddAsked, ddAnswers, ddKnown>> /\ ddNow' \in {ddNow, ddNow + 1}
    BY <1>1 DEF DD!vars, DD!traffic, DD!Forget, DD!Tick
  <2>2. PacketTypes' /\ Registered' /\ Accepted'
    BY <2>1 DEF DecoderInv, PacketTypes, Registered, Accepted, DD!KeyAccepted
  <2> QED BY <2>2 DEF DecoderInv
<1>2. CASE DD!Receive \/ DD!HandleMessage \/ DD!Answer
  BY <1>2, ReceiveStep, MessageStep, AnswerStep
<1>3. ASSUME NEW i \in DOMAIN ddJobs,
             \/ DD!EnsureClient(i) \/ DD!Connected(i) \/ DD!ConnectTimeout(i)
             \/ DD!EnsureSubscription(i) \/ DD!Subscribed(i) \/ DD!SubscribeFails(i)
      PROVE  DecoderInv'
  <2>1. PICK step \in {"subscribe", "connecting", "ended", "publish", "subscribing"} :
          DD!GoOn(i, step)
    BY <1>3 DEF DD!EnsureClient, DD!Connected, DD!ConnectTimeout, DD!EnsureSubscription, DD!Subscribed,
       DD!SubscribeFails
  <2>2. UNCHANGED <<ddKeys, ddResponses, ddAsked, ddAnswers, ddKnown, ddNow>>
    BY <1>3 DEF DD!EnsureClient, DD!Connected, DD!ConnectTimeout, DD!EnsureSubscription, DD!Subscribed,
       DD!SubscribeFails, DD!traffic
  <2>3. step \in DD!Steps
    BY DEF DD!Steps
  <2> QED BY <2>1, <2>2, <2>3, Further
<1>4. ASSUME NEW i \in DOMAIN ddJobs,
             DD!Publish(i) \/ DD!Published(i) \/ DD!PublishFails(i) \/ DD!Timeout(i)
      PROVE  DecoderInv'
  <2>1. {"sent", "waiting", "ended"} \subseteq DD!Steps
    BY DEF DD!Steps
  <2>2. CASE DD!Publish(i)
    BY <2>1, <2>2, Further DEF DD!Publish
  <2>3. CASE DD!Published(i)
    <3>1. i \in ddResponses
      BY <2>3 DEF DD!Published, DD!At, DecoderInv, Registered
    <3> QED BY <2>1, <2>3, <3>1, Further DEF DD!Published, DD!traffic
  <2>4. CASE DD!PublishFails(i) \/ DD!Timeout(i)
    BY <2>1, <2>4, Further DEF DD!PublishFails, DD!Timeout, DD!GiveUp
  <2> QED BY <1>4, <2>2, <2>3, <2>4
<1>5. ASSUME NEW i \in DOMAIN ddJobs, DD!TakeResponse(i) PROVE DecoderInv'
  BY <1>5, TakeStep
<1> QED BY <1>1, <1>2, <1>3, <1>4, <1>5 DEF DD!Next

LEMMA MessageArrives ==
  ASSUME DD!DecoderConstants, DecoderInv, [DD!Next]_(DD!vars), NEW a \in ddAnswers \ ddAnswers',
         DD!At(a.request, "sent") \/ DD!At(a.request, "waiting")
  PROVE  ddJobs'[a.request].got # None
<1>1. DD!HandleMessage
  <2>1. ~(\E i \in DOMAIN ddJobs :
            \/ DD!EnsureClient(i) \/ DD!Connected(i) \/ DD!ConnectTimeout(i)
            \/ DD!EnsureSubscription(i) \/ DD!Subscribed(i) \/ DD!SubscribeFails(i)
            \/ DD!Publish(i) \/ DD!Published(i) \/ DD!PublishFails(i)
            \/ DD!Timeout(i) \/ DD!TakeResponse(i))
    BY DEF DD!EnsureClient, DD!Connected, DD!ConnectTimeout, DD!EnsureSubscription, DD!Subscribed,
       DD!SubscribeFails, DD!Publish, DD!Published, DD!PublishFails, DD!Timeout, DD!TakeResponse, DD!GiveUp, DD!traffic
  <2>2. ~DD!Receive /\ ~DD!Answer /\ ~DD!Forget /\ ~DD!Tick /\ ~UNCHANGED DD!vars
    BY DEF DD!Receive, DD!Answer, DD!Forget, DD!Tick, DD!vars, DD!traffic
  <2> QED BY <2>1, <2>2 DEF DD!Next
<1>2. PICK b \in ddAnswers :
        /\ ddAnswers' = ddAnswers \ {b} \/ ddAnswers' = ddAnswers
        /\ ddJobs' = IF b.request \in ddResponses /\ ddJobs[b.request].got = None
                     THEN [ddJobs EXCEPT ![b.request].got = b.reply] ELSE ddJobs
  BY <1>1 DEF DD!HandleMessage
<1>3. b = a
  BY <1>2
<1>4. a.request \in DOMAIN ddJobs /\ ddJobs[a.request] \in DD!Jobs /\ a.reply \in DD!Replies
  BY DEF DecoderInv, PacketTypes
<1>5. a.request \in ddResponses
  BY DEF DD!At, DecoderInv, Registered
<1>6. a.reply # None
  BY <1>4 DEF DD!DecoderConstants
<1>7. CASE ddJobs[a.request].got = None
  <2>1. ddJobs' = [ddJobs EXCEPT ![a.request] = [ddJobs[a.request] EXCEPT !.got = a.reply]]
    BY <1>2, <1>3, <1>5, <1>7
  <2>2. ddJobs'[a.request] = [ddJobs[a.request] EXCEPT !.got = a.reply]
    BY <1>4, <2>1
  <2>3. ddJobs'[a.request].got = a.reply
    BY <1>4, <2>2 DEF DD!Jobs
  <2> QED BY <1>6, <2>3
<1>8. CASE ddJobs[a.request].got # None
  BY <1>2, <1>3, <1>8
<1> QED BY <1>7, <1>8

LEMMA InitDecoder == DD!DecoderConstants /\ DD!Init => DecoderInv
<1> SUFFICES ASSUME DD!DecoderConstants, DD!Init PROVE DecoderInv
  OBVIOUS
<1>1. ddJobs = <<>> /\ DOMAIN ddJobs = {} /\ ddJobs \in Seq(DD!Jobs)
  BY DEF DD!Init
<1>2. PacketTypes
  BY <1>1 DEF DD!Init, PacketTypes
<1>3. Registered /\ Accepted
  BY <1>1 DEF DD!Init, Registered, Accepted, DD!KeyAccepted, DD!DecoderConstants
<1> QED BY <1>2, <1>3 DEF DecoderInv

------------------------------------------------------------------------------
\* The settings and the manual location.

\* A request is idle or has its four fields, and from its stages on a document.
Shaped(r) == r = [at |-> r.at, want |-> r.want, loaded |-> r.loaded, old |-> r.old]
Stages == {"lock", "host", "load", "rtmp", "save", "apply"}
Staged(r) ==
  /\ r.at \in Stages
  /\ r.at \in {"rtmp", "save", "apply"} => DOMAIN r.loaded = ST!Sections
Shape ==
  /\ stSaved = [s \in ST!Sections |-> stSaved[s]]
  /\ stRequest = [c \in Clients |-> stRequest[c]]
  /\ \A c \in Clients :
       stRequest[c] # ST!Idle => Shaped(stRequest[c]) /\ Staged(stRequest[c])

\* What a request asks for: some of the settings, the ports, or the mode.
Asked(want) ==
  /\ DOMAIN want \subseteq ST!Sections
  /\ DOMAIN want \cap {"ports", "unattended"} = {} \/ "general" \notin DOMAIN want

\* The sections a request has handed to the video service so far.
Done(c) ==
  IF stRequest[c].at \in {"lock", "host"} THEN {}
  ELSE IF stRequest[c].at = "save" THEN DOMAIN stRequest[c].want \cap ST!Video
  ELSE DOMAIN stRequest[c].want \cap {"host"}

\* Before it saves, a request knows what was saved and has changed nothing else;
\* after it only what it still has to apply differs.
Before(c) ==
  stRequest[c].at # "apply" =>
    /\ \A s \in ST!Live : stRequest[c].old[s] = stSaved[s]
    /\ \A s \in ST!Live : stRuntime[s] = IF s \in Done(c) THEN stRequest[c].want[s] ELSE stSaved[s]
    /\ stRequest[c].at \in {"rtmp", "save"} => stRequest[c].loaded = stSaved
    /\ stRequest[c].at = "rtmp" => "rtmp" \in DOMAIN stRequest[c].want
After(c) ==
  stRequest[c].at = "apply" =>
    /\ \A s \in ST!Sections :
         stSaved[s] = IF s \in DOMAIN stRequest[c].want THEN stRequest[c].want[s]
                                                    ELSE stRequest[c].loaded[s]
    /\ \A s \in ST!Live :
         s \in DOMAIN stRequest[c].want \cap {"ports", "general"} \/ stRuntime[s] = stSaved[s]
Middle(c) == Asked(stRequest[c].want) /\ Before(c) /\ After(c)

OneSettingAtATime == \A c, d \in Clients : stRequest[c] # ST!Idle /\ stRequest[d] # ST!Idle => c = d
SettingsInv ==
  /\ Shape
  /\ stDisturbed \/ (OneSettingAtATime /\ ST!RuntimeIsSaved /\ \A c \in Clients : stRequest[c] # ST!Idle => Middle(c))

LEMMA IdleIsNoStage == ST!Idle.at = "idle" /\ "idle" \notin Stages
BY DEF ST!Idle, Stages

LEMMA AsksAreAsked == \A want \in ST!Asks : Asked(want)
<1> SUFFICES ASSUME NEW want \in ST!Asks PROVE Asked(want)
  OBVIOUS
<1>1. CASE want \in UNION {[S -> ST!Values] : S \in (SUBSET {"host", "rtmp", "general"}) \ {{}}}
  <2>1. PICK S \in SUBSET {"host", "rtmp", "general"} : want \in [S -> ST!Values]
    BY <1>1
  <2>2. DOMAIN want = S
    BY <2>1
  <2> QED BY <2>2 DEF Asked, ST!Sections, ST!Live, ST!Video
<1>2. CASE want \in [{"ports"} -> ST!Values] \cup [{"unattended"} -> ST!Values]
  <2>1. DOMAIN want = {"ports"} \/ DOMAIN want = {"unattended"}
    BY <1>2
  <2> QED BY <2>1 DEF Asked, ST!Sections, ST!Live, ST!Video
<1> QED BY <1>1, <1>2 DEF ST!Asks

\* A request that only goes on.
LEMMA SettingGoes ==
  ASSUME NEW r, Shaped(r), NEW v
  PROVE  [r EXCEPT !.at = v]
           = [at |-> v, want |-> r.want, loaded |-> r.loaded, old |-> r.old]
<1>1. ASSUME NEW at, NEW want, NEW loaded, NEW old,
             r = [at |-> at, want |-> want, loaded |-> loaded, old |-> old]
      PROVE  [r EXCEPT !.at = v]
               = [at |-> v, want |-> r.want, loaded |-> r.loaded, old |-> r.old]
  BY <1>1
<1> QED BY <1>1, Zenon DEF Shaped

LEMMA SettingBegins ==
  ASSUME SettingsInv, NEW c \in Clients, ST!Begin(c)
  PROVE  SettingsInv'
<1>1. PICK want \in ST!Asks :
        stRequest' = [stRequest EXCEPT ![c] =
          [at |-> IF DOMAIN want \cap ST!Video = {} THEN "load" ELSE "lock",
           want |-> want, loaded |-> None, old |-> stRuntime]]
  BY DEF ST!Begin
<1> DEFINE new == [at |-> IF DOMAIN want \cap ST!Video = {} THEN "load" ELSE "lock",
                   want |-> want, loaded |-> None, old |-> stRuntime]
<1>2. /\ stRequest'[c] = new /\ \A d \in Clients : d # c => stRequest'[d] = stRequest[d]
      /\ stRequest' = [d \in Clients |-> stRequest'[d]]
  BY <1>1 DEF SettingsInv, Shape
<1>3. Shaped(new) /\ new.at \in {"load", "lock"} /\ new # ST!Idle
  BY IdleIsNoStage DEF Shaped
<1>4. UNCHANGED <<stSaved, stRuntime>>
  BY DEF ST!Begin
<1>5. Shape'
  BY <1>2, <1>3, <1>4 DEF SettingsInv, Shape, Staged, Stages
<1>6. ASSUME ~stDisturbed'
      PROVE  OneSettingAtATime' /\ ST!RuntimeIsSaved' /\ \A d \in Clients : stRequest'[d] # ST!Idle => Middle(d)'
  <2>1. ~stDisturbed /\ \A d \in Clients : stRequest[d] = ST!Idle
    BY <1>6 DEF ST!Begin, ST!Busy
  <2>2. \A d \in Clients : stRequest'[d] # ST!Idle => d = c
    BY <1>2, <2>1
  <2>3. \A s \in ST!Live : stRuntime[s] = stSaved[s]
    BY <2>1 DEF SettingsInv, ST!RuntimeIsSaved, ST!Busy
  <2>4. Asked(want)
    BY AsksAreAsked
  <2>5. new.want = want /\ new.old = stRuntime /\ (new.at = "load" => "host" \notin DOMAIN want)
    BY DEF ST!Video
  <2>6. Middle(c)'
    <3>1. stRequest'[c].at = new.at /\ stRequest'[c].want = want /\ stRequest'[c].old = stRuntime
      BY <1>2, <2>5
    <3> HIDE DEF new
    <3>2. Done(c)' = {}
      BY <1>3, <2>5, <3>1 DEF Done
    <3>3. Before(c)' /\ After(c)'
      BY <1>3, <1>4, <2>3, <3>1, <3>2 DEF Before, After
    <3> QED BY <2>4, <3>1, <3>3 DEF Middle
  <2>7. ST!Busy' # {}
    BY <1>2, <1>3 DEF ST!Busy
  <2> QED BY <2>2, <2>6, <2>7 DEF OneSettingAtATime, ST!RuntimeIsSaved
<1> QED BY <1>5, <1>6 DEF SettingsInv

\* Only this request changes.
LEMMA OneSetter ==
  ASSUME SettingsInv, NEW c \in Clients, stRequest[c] # ST!Idle, ~stDisturbed
  PROVE  /\ \A d \in Clients : d # c => stRequest[d] = ST!Idle
         /\ Shaped(stRequest[c]) /\ Staged(stRequest[c]) /\ Middle(c)
BY DEF SettingsInv, Shape, OneSettingAtATime

\* A request that stays under way.
LEMMA SettingGoesOn ==
  ASSUME SettingsInv, NEW c \in Clients, stRequest[c] # ST!Idle,
         stSaved' = [s \in ST!Sections |-> stSaved'[s]],
         stRequest' = [stRequest EXCEPT ![c] = stRequest'[c]],
         Shaped(stRequest'[c]), Staged(stRequest'[c]),
         stDisturbed' = stDisturbed,
         ~stDisturbed => Middle(c)'
  PROVE  SettingsInv'
<1>1. stRequest'[c] # ST!Idle
  BY IdleIsNoStage DEF Staged
<1>2. Shape'
  BY <1>1 DEF SettingsInv, Shape
<1>3. ASSUME ~stDisturbed
      PROVE  OneSettingAtATime' /\ ST!RuntimeIsSaved' /\ \A d \in Clients : stRequest'[d] # ST!Idle => Middle(d)'
  <2>1. \A d \in Clients : d # c => stRequest'[d] = ST!Idle
    BY <1>3, OneSetter DEF SettingsInv, Shape
  <2>2. ST!Busy' # {}
    BY <1>1 DEF ST!Busy
  <2> QED BY <1>3, <2>1, <2>2 DEF OneSettingAtATime, ST!RuntimeIsSaved
<1> QED BY <1>2, <1>3 DEF SettingsInv

\* A request that ends.
LEMMA SettingEnds ==
  ASSUME SettingsInv, NEW c \in Clients, stRequest[c] # ST!Idle,
         stSaved' = stSaved, stRequest' = [stRequest EXCEPT ![c] = ST!Idle],
         stDisturbed \/ stDisturbed' \/ \A s \in ST!Live : stRuntime'[s] = stSaved[s],
         stDisturbed => stDisturbed'
  PROVE  SettingsInv'
<1>1. Shape'
  BY DEF SettingsInv, Shape
<1>2. ASSUME ~stDisturbed'
      PROVE  OneSettingAtATime' /\ ST!RuntimeIsSaved' /\ \A d \in Clients : stRequest'[d] # ST!Idle => Middle(d)'
  <2>1. \A d \in Clients : stRequest'[d] = ST!Idle
    BY <1>2, OneSetter DEF SettingsInv, Shape
  <2> QED BY <1>2, <2>1 DEF OneSettingAtATime, ST!RuntimeIsSaved
<1> QED BY <1>1, <1>2 DEF SettingsInv

LEMMA SettingFails ==
  ASSUME SettingsInv, NEW c \in Clients, NEW S, ST!Fail(c, S), S \subseteq ST!Live,
         stRequest[c].at \in {"host", "load", "rtmp", "save"},
         ~stDisturbed => Done(c) \subseteq S
  PROVE  SettingsInv'
<1> DEFINE back == {s \in S : stRuntime[s] # stRequest[c].old[s]}
<1>1. stRequest[c] # ST!Idle
  BY IdleIsNoStage
<1>2. /\ stSaved' = stSaved /\ stRequest' = [stRequest EXCEPT ![c] = ST!Idle]
      /\ stDisturbed' = (stDisturbed \/ (stProcess /\ back # {}))
      /\ IF stProcess /\ back # {} THEN UNCHANGED stRuntime ELSE ST!PutBack(c, back)
  BY DEF ST!Fail
<1>3. ASSUME ~stDisturbed, ~(stProcess /\ back # {}) PROVE \A s \in ST!Live : stRuntime'[s] = stSaved[s]
  <2>1. Before(c) /\ Done(c) \subseteq S
    BY <1>1, <1>3, OneSetter DEF Middle
  <2>2. /\ \A s \in ST!Live : stRequest[c].old[s] = stSaved[s]
        /\ \A s \in ST!Live \ S : stRuntime[s] = stSaved[s]
    BY <2>1 DEF Before
  <2>3. \A s \in ST!Live : stRuntime'[s] = IF s \in back THEN stRequest[c].old[s] ELSE stRuntime[s]
    BY <1>2, <1>3 DEF ST!PutBack, ST!Set
  <2> QED BY <2>2, <2>3
<1> QED BY <1>1, <1>2, <1>3, SettingEnds

LEMMA SettingsFail ==
  ASSUME SettingsInv, NEW c \in Clients,
         ST!RefuseHost(c) \/ ST!LoadFails(c) \/ ST!RefuseRTMP(c) \/ ST!SaveFails(c)
  PROVE  SettingsInv'
<1>1. CASE ST!RefuseHost(c)
  <2>1. Done(c) = {} /\ {} \subseteq ST!Live
    BY <1>1 DEF ST!RefuseHost, Done
  <2> QED BY <1>1, <2>1, SettingFails DEF ST!RefuseHost
<1>2. CASE ST!LoadFails(c) \/ ST!SaveFails(c)
  <2>1. Done(c) \subseteq ST!Video /\ ST!Video \subseteq ST!Live
    BY <1>2 DEF ST!LoadFails, ST!SaveFails, Done, ST!Video, ST!Live
  <2> QED BY <1>2, <2>1, SettingFails DEF ST!LoadFails, ST!SaveFails
<1>3. CASE ST!RefuseRTMP(c)
  <2>1. Done(c) \subseteq {"host"} /\ {"host"} \subseteq ST!Live
    BY <1>3 DEF ST!RefuseRTMP, Done, ST!Video, ST!Live
  <2> QED BY <1>3, <2>1, SettingFails DEF ST!RefuseRTMP
<1> QED BY <1>1, <1>2, <1>3

\* The steps of a request, and what each leaves of the record.
LEMMA LockStep ==
  ASSUME SettingsInv, NEW c \in Clients, ST!TakeLock(c)
  PROVE  SettingsInv'
<1> DEFINE r == stRequest[c]
           q == [at |-> "host", want |-> r.want, loaded |-> None, old |-> stRuntime]
<1>1. r # ST!Idle /\ Shaped(r) /\ r.at = "lock"
  BY IdleIsNoStage DEF ST!TakeLock, SettingsInv, Shape
<1>2. stRequest' = [stRequest EXCEPT ![c] = q]
  BY DEF ST!TakeLock
<1>3. stRequest'[c] = q /\ UNCHANGED <<stSaved, stRuntime, stDisturbed>>
  BY <1>2 DEF ST!TakeLock, SettingsInv, Shape
<1>4. q.at = "host" /\ q.want = r.want /\ q.old = stRuntime /\ Shaped(q)
  BY DEF Shaped
<1>5. ASSUME ~stDisturbed PROVE Middle(c)'
  <2>1. Middle(c) /\ Done(c) = {} /\ \A s \in ST!Live : stRuntime[s] = stSaved[s]
    BY <1>1, <1>5, OneSetter DEF Middle, Before, Done
  <2>2. Done(c)' = {}
    BY <1>3, <1>4 DEF Done
  <2>3. Before(c)' /\ After(c)'
    BY <1>3, <1>4, <2>1, <2>2 DEF Before, After
  <2> QED BY <1>3, <1>4, <2>1, <2>3 DEF Middle
<1> HIDE DEF r, q
<1>6. Staged(stRequest'[c]) /\ stSaved' = [s \in ST!Sections |-> stSaved'[s]]
  BY <1>3, <1>4 DEF Staged, Stages, SettingsInv, Shape
<1> QED BY <1>1, <1>2, <1>3, <1>4, <1>5, <1>6, SettingGoesOn DEF r

\* The host the video service has taken, or has already.
LEMMA HostStep ==
  ASSUME SettingsInv, NEW c \in Clients, ST!SetWebRTCListenHost(c)
  PROVE  SettingsInv'
<1> DEFINE r == stRequest[c]
           want == IF ST!NewIn(c, "host") THEN r.want ELSE ST!Without(r.want, "host")
           q == [at |-> "load", loaded |-> None, old |-> r.old, want |-> want]
<1>1. r # ST!Idle /\ Shaped(r) /\ r.at = "host"
  BY IdleIsNoStage DEF ST!SetWebRTCListenHost, SettingsInv, Shape
<1>2. stRequest' = [stRequest EXCEPT ![c] = q]
  BY DEF ST!SetWebRTCListenHost
<1>3. stRequest'[c] = q /\ UNCHANGED <<stSaved, stDisturbed>>
  BY <1>2 DEF ST!SetWebRTCListenHost, SettingsInv, Shape
<1>4. q.at = "load" /\ q.want = want /\ q.old = r.old /\ Shaped(q)
  BY DEF Shaped
<1>5. \A s \in ST!Live : stRuntime'[s] = IF s \in DOMAIN r.want \cap {"host"} THEN r.want[s]
                                                                     ELSE stRuntime[s]
  BY DEF ST!SetWebRTCListenHost, ST!Set
<1>6. /\ DOMAIN want \subseteq DOMAIN r.want
      /\ \A s \in DOMAIN want : want[s] = r.want[s]
      /\ ST!NewIn(c, "host") => want = r.want
      /\ ~ST!NewIn(c, "host") => "host" \notin DOMAIN want
  BY DEF ST!Without
<1> HIDE DEF want
<1>7. ASSUME ~stDisturbed PROVE Middle(c)'
  <2>1. /\ Asked(r.want) /\ Done(c) = {} /\ \A s \in ST!Live : stRuntime[s] = stSaved[s]
        /\ \A s \in ST!Live : r.old[s] = stSaved[s]
    BY <1>1, <1>7, OneSetter DEF Middle, Before, Done
  <2>2. Done(c)' = DOMAIN want \cap {"host"}
    BY <1>3, <1>4 DEF Done
  <2>3. \A s \in ST!Live : stRuntime'[s] = IF s \in DOMAIN want \cap {"host"} THEN want[s]
                                                                      ELSE stSaved[s]
    BY <1>5, <1>6, <2>1 DEF ST!NewIn
  <2>4. Before(c)' /\ After(c)'
    BY <1>3, <1>4, <2>1, <2>2, <2>3 DEF Before, After
  <2>5. Asked(want)
    BY <1>6, <2>1 DEF Asked
  <2> QED BY <1>3, <1>4, <2>4, <2>5 DEF Middle
<1> HIDE DEF r, q
<1>8. Staged(stRequest'[c]) /\ stSaved' = [s \in ST!Sections |-> stSaved'[s]]
  BY <1>3, <1>4 DEF Staged, Stages, SettingsInv, Shape
<1> QED BY <1>1, <1>2, <1>3, <1>4, <1>7, <1>8, SettingGoesOn DEF r

LEMMA LoadStep ==
  ASSUME SettingsInv, NEW c \in Clients, ST!LoadUser(c)
  PROVE  SettingsInv'
<1> DEFINE r == stRequest[c]
           q == [at |-> IF "rtmp" \in DOMAIN r.want THEN "rtmp" ELSE "save",
                 want |-> r.want, loaded |-> stSaved, old |-> r.old]
<1>1. r # ST!Idle /\ Shaped(r) /\ r.at = "load"
  BY IdleIsNoStage DEF ST!LoadUser, SettingsInv, Shape
<1>2. stRequest' = [stRequest EXCEPT ![c] = q]
  BY DEF ST!LoadUser
<1>3. stRequest'[c] = q /\ UNCHANGED <<stSaved, stRuntime, stDisturbed>>
  BY <1>2 DEF ST!LoadUser, SettingsInv, Shape
<1>4. /\ q.at = IF "rtmp" \in DOMAIN r.want THEN "rtmp" ELSE "save"
      /\ q.want = r.want /\ q.old = r.old /\ q.loaded = stSaved /\ Shaped(q)
  BY DEF Shaped
<1>5. ASSUME ~stDisturbed PROVE Middle(c)'
  <2>1. Middle(c) /\ Done(c) = DOMAIN r.want \cap {"host"}
    BY <1>1, <1>5, OneSetter DEF Done
  <2>2. Done(c)' = Done(c)
    BY <1>3, <1>4, <2>1 DEF Done, ST!Video
  <2>3. Before(c)' /\ After(c)'
    BY <1>1, <1>3, <1>4, <2>1, <2>2 DEF Middle, Before, After
  <2> QED BY <1>3, <1>4, <2>1, <2>3 DEF Middle
<1> HIDE DEF q
<1>6. Staged(stRequest'[c]) /\ stSaved' = [s \in ST!Sections |-> stSaved'[s]]
  BY <1>3, <1>4 DEF Staged, Stages, SettingsInv, Shape
<1> HIDE DEF r
<1> QED BY <1>1, <1>2, <1>3, <1>4, <1>5, <1>6, SettingGoesOn DEF r

LEMMA RTMPStep ==
  ASSUME SettingsInv, NEW c \in Clients, ST!SetRTMPSettings(c)
  PROVE  SettingsInv'
<1> DEFINE r == stRequest[c]
           q == [at |-> "save", want |-> r.want, loaded |-> r.loaded, old |-> r.old]
<1>1. r # ST!Idle /\ Shaped(r) /\ Staged(r) /\ r.at = "rtmp"
  BY IdleIsNoStage DEF ST!SetRTMPSettings, SettingsInv, Shape
<1>2. stRequest' = [stRequest EXCEPT ![c] = q]
  BY <1>1, SettingGoes DEF ST!SetRTMPSettings, ST!To
<1>3. stRequest'[c] = q /\ UNCHANGED <<stSaved, stDisturbed>>
  BY <1>2 DEF ST!SetRTMPSettings, SettingsInv, Shape
<1>4. /\ q.at = "save" /\ q.want = r.want /\ q.old = r.old /\ q.loaded = r.loaded
      /\ Shaped(q)
  BY DEF Shaped
<1>5. \A s \in ST!Live : stRuntime'[s] = IF s \in {"rtmp"} THEN r.want[s] ELSE stRuntime[s]
  BY DEF ST!SetRTMPSettings, ST!Set
<1>6. ASSUME ~stDisturbed PROVE Middle(c)'
  <2>1. Middle(c) /\ Done(c) = DOMAIN r.want \cap {"host"} /\ "rtmp" \in DOMAIN r.want
    BY <1>1, <1>6, OneSetter DEF Done, Middle, Before
  <2>2. Done(c)' = Done(c) \cup {"rtmp"}
    BY <1>3, <1>4, <2>1 DEF Done, ST!Video
  <2>3. Before(c)' /\ After(c)'
    BY <1>1, <1>3, <1>4, <1>5, <2>1, <2>2 DEF Middle, Before, After
  <2> QED BY <1>3, <1>4, <2>1, <2>3 DEF Middle
<1> HIDE DEF q
<1>7. Staged(stRequest'[c]) /\ stSaved' = [s \in ST!Sections |-> stSaved'[s]]
  BY <1>1, <1>3, <1>4 DEF Staged, Stages, SettingsInv, Shape
<1> HIDE DEF r
<1> QED BY <1>1, <1>2, <1>3, <1>4, <1>6, <1>7, SettingGoesOn DEF r

LEMMA SaveStep ==
  ASSUME SettingsInv, NEW c \in Clients, ST!SaveEditableUser(c)
  PROVE  SettingsInv'
<1> DEFINE r == stRequest[c]
           q == [at |-> "apply", want |-> r.want, loaded |-> r.loaded, old |-> r.old]
<1>1. r # ST!Idle /\ Shaped(r) /\ Staged(r) /\ r.at = "save"
  BY IdleIsNoStage DEF ST!SaveEditableUser, SettingsInv, Shape
<1>2. stRequest' = [stRequest EXCEPT ![c] = q]
  BY <1>1, SettingGoes DEF ST!SaveEditableUser, ST!To
<1>3. stRequest'[c] = q /\ UNCHANGED <<stRuntime, stDisturbed>>
  BY <1>2 DEF ST!SaveEditableUser, SettingsInv, Shape
<1>4. /\ q.at = "apply" /\ q.want = r.want /\ q.old = r.old /\ q.loaded = r.loaded
      /\ Shaped(q)
  BY DEF Shaped
<1>5. stSaved' = [s \in ST!Sections |-> IF s \in DOMAIN r.want THEN r.want[s] ELSE r.loaded[s]]
  BY <1>1 DEF ST!SaveEditableUser, ST!Changed, Staged
<1>6. ASSUME ~stDisturbed PROVE Middle(c)'
  <2>1. /\ Asked(r.want) /\ r.loaded = stSaved
        /\ \A s \in ST!Live : stRuntime[s] = IF s \in DOMAIN r.want \cap ST!Video THEN r.want[s]
                                                                     ELSE stSaved[s]
    BY <1>1, <1>6, OneSetter DEF Done, Middle, Before
  <2>2. \A s \in ST!Live : s \in DOMAIN r.want \cap {"ports", "general"} \/ stRuntime[s] = stSaved'[s]
    BY <1>5, <2>1 DEF ST!Live, ST!Video, ST!Sections
  <2>3. Before(c)' /\ After(c)'
    BY <1>3, <1>4, <1>5, <2>2 DEF Before, After
  <2> QED BY <1>3, <1>4, <2>1, <2>3 DEF Middle
<1> HIDE DEF q
<1>7. Staged(stRequest'[c]) /\ stSaved' = [s \in ST!Sections |-> stSaved'[s]]
  BY <1>1, <1>3, <1>4, <1>5 DEF Staged, Stages
<1> HIDE DEF r
<1> QED BY <1>1, <1>2, <1>3, <1>4, <1>6, <1>7, SettingGoesOn DEF r

LEMMA ApplyStep ==
  ASSUME SettingsInv, NEW c \in Clients, ST!ApplyUserSettings(c)
  PROVE  SettingsInv'
<1> DEFINE r == stRequest[c]
           all == ST!Changed(r.loaded, r.want)
<1>1. r # ST!Idle /\ Staged(r) /\ r.at = "apply"
  BY IdleIsNoStage DEF ST!ApplyUserSettings, SettingsInv, Shape
<1>2. stRequest' = [stRequest EXCEPT ![c] = ST!Idle] /\ UNCHANGED <<stSaved, stDisturbed>>
  BY DEF ST!ApplyUserSettings
<1>3. all = [s \in ST!Sections |-> IF s \in DOMAIN r.want THEN r.want[s] ELSE r.loaded[s]]
  BY <1>1 DEF ST!Changed, Staged
<1>4. ASSUME ~stDisturbed PROVE \A s \in ST!Live : stRuntime'[s] = stSaved[s]
  <2>1. /\ Asked(r.want) /\ \A s \in ST!Sections : stSaved[s] = all[s]
        /\ \A s \in ST!Live : s \in DOMAIN r.want \cap {"ports", "general"} \/ stRuntime[s] = stSaved[s]
    BY <1>1, <1>3, <1>4, OneSetter DEF Middle, After
  <2>2. CASE DOMAIN r.want \cap {"ports", "unattended"} # {}
    <3>1. \A s \in ST!Live : stRuntime'[s] = IF s \in DOMAIN r.want \cap {"ports"} THEN r.want[s]
                                                                         ELSE stRuntime[s]
      BY <2>2 DEF ST!ApplyUserSettings, ST!Set
    <3> QED BY <1>3, <2>1, <2>2, <3>1 DEF Asked, ST!Sections, ST!Live
  <2>3. CASE DOMAIN r.want \cap {"ports", "unattended"} = {}
    <3>1. \A s \in ST!Live : stRuntime'[s] = IF s \in {"general"} THEN all[s] ELSE stRuntime[s]
      BY <2>3 DEF ST!ApplyUserSettings, ST!Set
    <3> QED BY <2>1, <2>3, <3>1 DEF ST!Sections, ST!Live
  <2> QED BY <2>2, <2>3
<1> HIDE DEF r
<1> QED BY <1>1, <1>2, <1>4, SettingEnds DEF r

\* The video session, which the settings only look at, and a restart.
LEMMA SessionSteps ==
  ASSUME SettingsInv, ST!BeginSession \/ ST!StartProcess \/ ST!EndProcess \/ ST!EndSession \/ ST!Restart
  PROVE  SettingsInv'
<1>1. CASE ST!Restart
  <2>1. /\ stRequest' = [c \in Clients |-> ST!Idle] /\ UNCHANGED stSaved
        /\ stDisturbed' \/ \A s \in ST!Live : stRuntime'[s] = stSaved[s]
    BY <1>1 DEF ST!Restart
  <2> QED BY <2>1 DEF SettingsInv, Shape, OneSettingAtATime, ST!RuntimeIsSaved
<1>2. CASE ST!BeginSession \/ ST!StartProcess \/ ST!EndProcess \/ ST!EndSession
  <2>1. UNCHANGED <<stSaved, stRuntime, stRequest, stDisturbed>>
    BY <1>2 DEF ST!BeginSession, ST!StartProcess, ST!EndProcess, ST!EndSession
  <2> QED BY <2>1 DEF SettingsInv, Shape, OneSettingAtATime, ST!RuntimeIsSaved, Middle, Before, After,
          Done, ST!Busy
<1> QED BY <1>1, <1>2

LEMMA SettingsStep ==
  ASSUME SettingsInv, [ST!Next]_(ST!vars)
  PROVE  SettingsInv'
<1>1. CASE UNCHANGED ST!vars
  BY <1>1 DEF ST!vars, SettingsInv, Shape, OneSettingAtATime, ST!RuntimeIsSaved, Middle, Before, After,
     Done, ST!Busy
<1>2. CASE \E c \in Clients :
             \/ ST!Begin(c) \/ ST!TakeLock(c) \/ ST!SetWebRTCListenHost(c) \/ ST!RefuseHost(c)
             \/ ST!LoadUser(c) \/ ST!LoadFails(c) \/ ST!SetRTMPSettings(c) \/ ST!RefuseRTMP(c)
             \/ ST!SaveEditableUser(c) \/ ST!SaveFails(c) \/ ST!ApplyUserSettings(c)
  BY <1>2, SettingBegins, LockStep, HostStep, LoadStep, SettingsFail, RTMPStep, SaveStep, ApplyStep
<1>3. CASE ST!BeginSession \/ ST!StartProcess \/ ST!EndProcess \/ ST!EndSession \/ ST!Restart
  BY <1>3, SessionSteps
<1> QED BY <1>1, <1>2, <1>3 DEF ST!Next

LEMMA InitSettings == ST!Init => SettingsInv
<1> SUFFICES ASSUME ST!Init PROVE SettingsInv
  OBVIOUS
<1>1. \A s \in ST!Live : stRuntime[s] = stSaved[s]
  BY DEF ST!Init, ST!Live, ST!Sections
<1> QED BY <1>1 DEF ST!Init, SettingsInv, Shape, OneSettingAtATime, ST!RuntimeIsSaved

------------------------------------------------------------------------------
\* A request under way has written what it is about to set, and while requests do
\* not overlap it is the only one.
Placed ==
  /\ dlRequest = [c \in Clients |-> dlRequest[c]]
  /\ \A c \in Clients : dlRequest[c] # DL!Idle =>
       dlRequest[c] = [at |-> "set", point |-> dlRequest[c].point]
Written ==
  \A c \in Clients :
    dlRequest[c] # DL!Idle /\ ~dlDisturbed =>
      /\ dlSaved \in {dlRequest[c].point, Unreadable}
      /\ \A d \in Clients : dlRequest[d] # DL!Idle => d = c
LocationInv == Placed /\ Written /\ DL!ManualIsSaved

LEMMA LocationStep ==
  ASSUME LocationInv, [DL!Next]_(DL!vars)
  PROVE  LocationInv'
<1>1. CASE UNCHANGED DL!vars \/ DL!UpdateDeviceLocation
  BY <1>1 DEF DL!vars, DL!UpdateDeviceLocation, LocationInv, Placed, Written, DL!ManualIsSaved
<1>2. CASE DL!Restart
  <2>1. dlRequest' = [c \in Clients |-> DL!Idle] /\ dlManual' = DL!Load(dlSaved')
    BY <1>2 DEF DL!Restart
  <2> QED BY <2>1 DEF LocationInv, Placed, Written, DL!ManualIsSaved, DL!Load
<1>3. ASSUME NEW c \in Clients, DL!SaveFails(c) PROVE LocationInv'
  BY <1>3 DEF DL!SaveFails, LocationInv, Placed, Written, DL!ManualIsSaved
<1>4. ASSUME NEW c \in Clients, DL!Set(c) PROVE LocationInv'
  <2>1. /\ dlRequest[c] # DL!Idle /\ dlManual' = dlRequest[c].point
        /\ dlRequest' = [dlRequest EXCEPT ![c] = DL!Idle] /\ UNCHANGED <<dlSaved, dlDisturbed>>
    BY <1>4 DEF DL!Set
  <2>2. /\ dlRequest'[c] = DL!Idle /\ \A d \in Clients : d # c => dlRequest'[d] = dlRequest[d]
        /\ dlRequest' = [d \in Clients |-> dlRequest'[d]]
    BY <2>1 DEF LocationInv, Placed
  <2>3. ~dlDisturbed => dlSaved \in {dlRequest[c].point, Unreadable}
    BY <2>1 DEF LocationInv, Written
  <2> QED BY <2>1, <2>2, <2>3 DEF LocationInv, Placed, Written, DL!ManualIsSaved
<1>5. ASSUME NEW c \in Clients, NEW p \in DL!Places, DL!Save(c, p) PROVE LocationInv'
  <2> DEFINE r == [at |-> "set", point |-> p]
  <2>1. /\ dlSaved' = p /\ dlRequest' = [dlRequest EXCEPT ![c] = r]
        /\ dlDisturbed' = ~DL!Alone(c)
    BY <1>5 DEF DL!Save
  <2>2. /\ dlRequest'[c] = r /\ \A d \in Clients : d # c => dlRequest'[d] = dlRequest[d]
        /\ dlRequest' = [d \in Clients |-> dlRequest'[d]]
    BY <2>1 DEF LocationInv, Placed
  <2>3. r # DL!Idle /\ r.point = p /\ r = [at |-> "set", point |-> r.point]
    BY DEF DL!Idle
  <2> HIDE DEF r
  <2>4. Placed'
    BY <2>2, <2>3 DEF LocationInv, Placed
  <2>5. ~dlDisturbed' => \A d \in Clients : d # c => dlRequest[d] = DL!Idle
    BY <2>1 DEF DL!Alone
  <2>6. Written' /\ DL!ManualIsSaved'
    BY <2>1, <2>2, <2>3, <2>5 DEF Written, DL!ManualIsSaved
  <2> QED BY <2>4, <2>6 DEF LocationInv
<1> QED BY <1>1, <1>2, <1>3, <1>4, <1>5 DEF DL!Next

LEMMA InitLocation == DL!LocationConstants /\ DL!Init => LocationInv
BY DEF DL!LocationConstants, DL!Init, DL!Places, LocationInv, Placed, Written, DL!ManualIsSaved, DL!Load, DL!Idle

------------------------------------------------------------------------------
\* The maps.

\* An upload that has not moved anything aside yet says so.
UploadTypes ==
  /\ omUpload \in [Clients -> OM!Uploads \cup {OM!Idle}]
  /\ \A c \in Clients : omUpload[c].at \in {"extract", "backup"} => ~omUpload[c].saved
TileTypes ==
  /\ omDt \in Packages \cup {None}
  /\ \A n \in DOMAIN omBackups : omBackups[n] \in Packages

\* What an upload has moved aside is there, under a name of its own, until it is
\* moved back or removed, ...
HoldsBackup(c, places) == omUpload[c].at \in places /\ omUpload[c].saved
MovedAside == {"switch", "manifest", "cleanup"}
BackupsOwned ==
  /\ \A c \in Clients : HoldsBackup(c, MovedAside) => omUpload[c].name \in DOMAIN omBackups
  /\ \A c, d \in Clients :
       c # d /\ HoldsBackup(c, MovedAside) /\ HoldsBackup(d, MovedAside) => omUpload[c].name # omUpload[d].name

\* ... and while no tiles are in use there is a backup that no upload is about to
\* remove.
Installing == {"manifest", "cleanup"}
SpareBackup ==
  (omWanted # None \/ \E c \in Clients : omUpload[c].at = "manifest") /\ omDt = None
    => \E n \in DOMAIN omBackups :
         \A c \in Clients : HoldsBackup(c, Installing) => omUpload[c].name # n

\* Without disturbance there is one upload at most, and what it has reached tells
\* where the tiles installed last are.
InPlace == omWanted # None => omDt = omWanted /\ omManifest = omWanted
Aside(c) ==
  IF omUpload[c].saved
    THEN omWanted # None => omBackups[omUpload[c].name] = omWanted /\ omManifest = omWanted
    ELSE omWanted = None
UploadFollows(c) ==
  /\ omUpload[c].at \in {"idle", "extract", "backup", "cleanup"} => InPlace
  /\ omUpload[c].at = "switch" => omDt = None /\ Aside(c)
  /\ omUpload[c].at = "manifest" => omDt = omUpload[c].package /\ Aside(c)
MapOrdered ==
  omDisturbed \/
    /\ \A c, d \in Clients : omUpload[c] # OM!Idle /\ omUpload[d] # OM!Idle => c = d
    /\ \A c \in Clients : omUpload[c] # OM!Idle => UploadFollows(c)
    /\ (\A c \in Clients : omUpload[c] = OM!Idle) => InPlace

MapSafe == UploadTypes /\ TileTypes /\ BackupsOwned /\ SpareBackup
MapInv == MapSafe /\ MapOrdered
-----------------------------------------------------------------------------
UploadPlaces == {"extract", "backup", "switch", "manifest", "cleanup"}

LEMMA UploadIs ==
  ASSUME UploadTypes, NEW c \in Clients
  PROVE  /\ omUpload[c] = OM!Idle => omUpload[c].at = "idle"
         /\ omUpload[c] # OM!Idle => omUpload[c] \in OM!Uploads /\ omUpload[c].at \in UploadPlaces
         /\ omUpload[c].at # "idle" => omUpload[c] # OM!Idle
BY DEF UploadTypes, OM!Uploads, OM!Idle, UploadPlaces

LEMMA IdleIs == OM!Idle.at = "idle" /\ OM!Idle \in OM!Uploads \cup {OM!Idle}
BY DEF OM!Idle

\* An upload goes on to another place.
LEMMA UploadGoes ==
  ASSUME UploadTypes, NEW c \in Clients, omUpload[c].at # "idle", NEW at \in UploadPlaces, OM!To(c, at)
  PROVE  /\ omUpload'[c] \in OM!Uploads /\ omUpload'[c].at = at /\ omUpload'[c] # OM!Idle
         /\ omUpload'[c].saved = omUpload[c].saved /\ omUpload'[c].name = omUpload[c].name
         /\ omUpload'[c].package = omUpload[c].package
         /\ \A d \in Clients : d # c => omUpload'[d] = omUpload[d]
         /\ omUpload' \in [Clients -> OM!Uploads \cup {OM!Idle}]
<1>1. omUpload[c] \in OM!Uploads
  BY UploadIs
<1>2. [omUpload[c] EXCEPT !.at = at] \in OM!Uploads /\ [omUpload[c] EXCEPT !.at = at].at = at
  BY <1>1 DEF OM!Uploads, UploadPlaces
<1>3. omUpload' = [omUpload EXCEPT ![c] = [omUpload[c] EXCEPT !.at = at]]
  BY DEF OM!To
<1>4. omUpload'[c] = [omUpload[c] EXCEPT !.at = at]
  BY <1>3 DEF UploadTypes
<1>5. omUpload'[c].at = at /\ at # "idle"
  BY <1>2, <1>4 DEF UploadPlaces
<1> QED BY <1>1, <1>2, <1>3, <1>4, <1>5, IdleIs DEF UploadTypes, OM!Uploads

\* An upload ends.
LEMMA UploadEnds ==
  ASSUME UploadTypes, NEW c \in Clients, OM!End(c)
  PROVE  /\ omUpload'[c] = OM!Idle /\ omUpload'[c].at = "idle"
         /\ \A d \in Clients : d # c => omUpload'[d] = omUpload[d]
         /\ UploadTypes'
<1>1. omUpload' = [omUpload EXCEPT ![c] = OM!Idle]
  BY DEF OM!End
<1> QED BY <1>1, IdleIs DEF UploadTypes

\* A step that moves no tiles and no upload beyond the backup, unless there was
\* nothing to move aside.
LEMMA QuietSafe ==
  ASSUME MapSafe, NEW c \in Clients, UNCHANGED <<OM!tiles, omWanted>>, UploadTypes',
         \A d \in Clients : d # c => omUpload'[d] = omUpload[d],
         omUpload'[c].at \in {"idle", "extract", "backup"}
           \/ (omUpload'[c].at = "switch" /\ ~omUpload'[c].saved)
  PROVE  MapSafe'
<1>1. TileTypes'
  BY DEF MapSafe, TileTypes, OM!tiles
<1>2. ~HoldsBackup(c, MovedAside)'
  BY DEF HoldsBackup, MovedAside
<1>3. \A d \in Clients : HoldsBackup(d, MovedAside)' => d # c /\ HoldsBackup(d, MovedAside) /\ omUpload'[d] = omUpload[d]
  BY <1>2 DEF HoldsBackup
<1>4. BackupsOwned'
  BY <1>3 DEF MapSafe, BackupsOwned, OM!tiles
<1>5. \A d \in Clients : HoldsBackup(d, Installing)' => HoldsBackup(d, Installing) /\ omUpload'[d] = omUpload[d]
  BY DEF HoldsBackup, Installing
<1>6. SpareBackup'
  BY <1>5 DEF MapSafe, SpareBackup, OM!tiles
<1> QED BY <1>1, <1>4, <1>6 DEF MapSafe

\* What an undisturbed step leaves behind, if the upload c was or is the only one.
LEMMA MapOrderedIf ==
  ASSUME MapOrdered, UploadTypes, NEW c \in Clients,
         \A d \in Clients : d # c => omUpload'[d] = omUpload[d],
         ~omDisturbed' => ~omDisturbed /\ \A d \in Clients : d # c => omUpload[d] = OM!Idle,
         ~omDisturbed' => (IF omUpload'[c] = OM!Idle THEN InPlace' ELSE UploadFollows(c)')
  PROVE  MapOrdered'
BY DEF MapOrdered, UploadFollows

LEMMA OthersRest ==
  ASSUME MapOrdered, ~omDisturbed, NEW c \in Clients, omUpload[c] # OM!Idle
  PROVE  (\A d \in Clients : d # c => omUpload[d] = OM!Idle) /\ UploadFollows(c)
BY DEF MapOrdered
-----------------------------------------------------------------------------
(* The steps of an upload that leave the tiles alone.                       *)

LEMMA UploadBegins ==
  ASSUME OM!MapConstants, MapInv, NEW c \in Clients, OM!Begin(c), omSecond \in 0..MaxSeconds
  PROVE  MapInv'
<1> USE DEF OM!tiles
<1>1. PICK p \in Packages, keep \in BOOLEAN :
        omUpload' = [omUpload EXCEPT ![c] =
          [at |-> "extract", package |-> p, keep |-> keep, name |-> omSecond, saved |-> FALSE]]
  BY DEF OM!Begin
<1>2. /\ omUpload'[c] \in OM!Uploads /\ omUpload'[c].at = "extract" /\ ~omUpload'[c].saved
      /\ omUpload'[c] # OM!Idle
      /\ \A d \in Clients : d # c => omUpload'[d] = omUpload[d]
  BY <1>1, IdleIs DEF MapInv, MapSafe, UploadTypes, OM!Uploads
<1>3. UploadTypes'
  BY <1>1, <1>2 DEF MapInv, MapSafe, UploadTypes
<1>4. MapSafe'
  BY <1>2, <1>3, QuietSafe DEF OM!Begin, MapInv
<1>5. ~omDisturbed' => ~omDisturbed /\ \A d \in Clients : omUpload[d] = OM!Idle
  BY DEF OM!Begin, OM!Busy
<1>6. ~omDisturbed' => InPlace
  BY <1>5 DEF MapInv, MapOrdered
<1>7. ~omDisturbed' => UploadFollows(c)'
  BY <1>2, <1>6 DEF OM!Begin, UploadFollows, InPlace
<1> QED BY <1>2, <1>4, <1>5, <1>7, MapOrderedIf DEF MapInv, MapSafe

LEMMA UploadRests ==
  ASSUME MapInv, NEW c \in Clients, OM!Extract(c) \/ OM!NothingToBackup(c)
  PROVE  MapInv'
<1> USE DEF OM!tiles
<1>1. omUpload[c].at \in {"extract", "backup"} /\ omUpload[c] # OM!Idle /\ ~omUpload[c].saved
  BY UploadIs DEF MapInv, MapSafe, UploadTypes, OM!Extract, OM!NothingToBackup, OM!At
<1>2. PICK at \in {"backup", "switch"} :
        /\ OM!To(c, at) /\ UNCHANGED <<OM!tiles, omSecond, omWanted, omDisturbed, omUploads>>
        /\ at = "switch" => omDt = None
  BY DEF OM!Extract, OM!NothingToBackup
<1>3. /\ omUpload'[c] \in OM!Uploads /\ omUpload'[c].at = at /\ omUpload'[c] # OM!Idle
      /\ ~omUpload'[c].saved
      /\ \A d \in Clients : d # c => omUpload'[d] = omUpload[d]
      /\ omUpload' \in [Clients -> OM!Uploads \cup {OM!Idle}]
  BY <1>1, <1>2, UploadGoes DEF MapInv, MapSafe, UploadPlaces
<1>4. UploadTypes'
  BY <1>3 DEF MapInv, MapSafe, UploadTypes
<1>5. MapSafe'
  BY <1>2, <1>3, <1>4, QuietSafe DEF MapInv
<1>6. ~omDisturbed => (\A d \in Clients : d # c => omUpload[d] = OM!Idle) /\ InPlace
  BY <1>1, OthersRest DEF MapInv, UploadFollows
<1>7. ~omDisturbed' => UploadFollows(c)'
  <2>1. None \notin Packages /\ omWanted # None /\ omDt = omWanted => omDt # None
    OBVIOUS
  <2>2. omDt = None /\ InPlace => omWanted = None
    BY DEF InPlace
  <2> QED BY <1>2, <1>3, <1>6, <2>2 DEF UploadFollows, InPlace, Aside
<1> QED BY <1>2, <1>3, <1>5, <1>6, <1>7, MapOrderedIf DEF MapInv, MapSafe

LEMMA FailEarlyStep ==
  ASSUME MapInv, NEW c \in Clients, OM!FailEarly(c)
  PROVE  MapInv'
<1> USE DEF OM!tiles
<1>1. omUpload[c].at \in {"extract", "backup"} /\ omUpload[c] # OM!Idle
  BY UploadIs DEF MapInv, MapSafe, OM!FailEarly, OM!At
<1>2. /\ omUpload'[c] = OM!Idle /\ omUpload'[c].at = "idle"
      /\ \A d \in Clients : d # c => omUpload'[d] = omUpload[d]
      /\ UploadTypes'
  BY UploadEnds DEF OM!FailEarly, MapInv, MapSafe
<1>3. MapSafe'
  BY <1>2, QuietSafe DEF OM!FailEarly, MapInv
<1>4. ~omDisturbed => (\A d \in Clients : d # c => omUpload[d] = OM!Idle) /\ InPlace
  BY <1>1, OthersRest DEF MapInv, UploadFollows
<1>5. ~omDisturbed' => ~omDisturbed /\ InPlace'
  BY <1>4 DEF OM!FailEarly, InPlace
<1> QED BY <1>2, <1>3, <1>4, <1>5, MapOrderedIf DEF MapInv, MapSafe
-----------------------------------------------------------------------------
(* Those that move them.                                                    *)

LEMMA BackupStep ==
  ASSUME OM!MapConstants, MapInv, NEW c \in Clients, OM!Backup(c)
  PROVE  MapInv'
<1> DEFINE n == omUpload[c].name
<1>1. /\ omUpload[c].at = "backup" /\ omUpload[c] # OM!Idle /\ omUpload[c] \in OM!Uploads /\ omDt # None
      /\ n \notin DOMAIN omBackups /\ omDt' = None
      /\ omBackups' = [s \in DOMAIN omBackups \cup {n} |-> IF s = n THEN omDt ELSE omBackups[s]]
      /\ omUpload' = [omUpload EXCEPT ![c].at = "switch", ![c].saved = TRUE]
      /\ UNCHANGED <<omManifest, omSecond, omWanted, omDisturbed, omUploads>>
  BY UploadIs DEF MapInv, MapSafe, OM!Backup, OM!At
<1>2. /\ omUpload'[c] \in OM!Uploads /\ omUpload'[c].at = "switch" /\ omUpload'[c].saved
      /\ omUpload'[c].name = n /\ omUpload'[c] # OM!Idle
      /\ \A d \in Clients : d # c => omUpload'[d] = omUpload[d]
      /\ omUpload' \in [Clients -> OM!Uploads \cup {OM!Idle}]
  <2>1. omUpload' = [omUpload EXCEPT ![c] = [omUpload[c] EXCEPT !.at = "switch", !.saved = TRUE]]
    BY <1>1
  <2>2. [omUpload[c] EXCEPT !.at = "switch", !.saved = TRUE] \in OM!Uploads
    BY <1>1 DEF OM!Uploads
  <2> QED BY <1>1, <2>1, <2>2, IdleIs DEF MapInv, MapSafe, UploadTypes, OM!Uploads
<1>3. /\ DOMAIN omBackups' = DOMAIN omBackups \cup {n} /\ omBackups'[n] = omDt
      /\ \A s \in DOMAIN omBackups : omBackups'[s] = omBackups[s]
  BY <1>1
<1> HIDE DEF n
<1>4. UploadTypes' /\ TileTypes'
  BY <1>1, <1>2, <1>3 DEF MapInv, MapSafe, UploadTypes, TileTypes
<1>5. \A d \in Clients : d # c /\ HoldsBackup(d, MovedAside)' =>
        HoldsBackup(d, MovedAside) /\ omUpload'[d].name = omUpload[d].name /\ omUpload'[d].name # n
  BY <1>1, <1>2 DEF HoldsBackup, MapInv, MapSafe, BackupsOwned
<1>6. BackupsOwned'
  BY <1>2, <1>3, <1>5 DEF MapInv, MapSafe, BackupsOwned
<1>7. SpareBackup'
  <2>1. \A d \in Clients : HoldsBackup(d, Installing)' => omUpload'[d].name # n
    BY <1>2, <1>5 DEF HoldsBackup, Installing, MovedAside
  <2> QED BY <1>3, <2>1 DEF SpareBackup
<1>8. ~omDisturbed => (\A d \in Clients : d # c => omUpload[d] = OM!Idle) /\ InPlace
  BY <1>1, OthersRest DEF MapInv, UploadFollows
<1>9. ~omDisturbed' => UploadFollows(c)'
  BY <1>1, <1>2, <1>3, <1>8 DEF UploadFollows, Aside, InPlace
<1>10. MapOrdered'
  BY <1>1, <1>2, <1>8, <1>9, MapOrderedIf DEF MapInv, MapSafe
<1> QED BY <1>4, <1>6, <1>7, <1>10 DEF MapInv, MapSafe

LEMMA SwitchStep ==
  ASSUME OM!MapConstants, MapInv, NEW c \in Clients, OM!Switch(c)
  PROVE  MapInv'
<1>1. omUpload[c].at = "switch" /\ omUpload[c] # OM!Idle /\ omUpload[c] \in OM!Uploads
  BY UploadIs DEF MapInv, MapSafe, OM!Switch, OM!At
<1>2. /\ omUpload'[c] \in OM!Uploads /\ omUpload'[c].at = "manifest" /\ omUpload'[c] # OM!Idle
      /\ omUpload'[c].saved = omUpload[c].saved /\ omUpload'[c].name = omUpload[c].name
      /\ omUpload'[c].package = omUpload[c].package
      /\ \A d \in Clients : d # c => omUpload'[d] = omUpload[d]
      /\ omUpload' \in [Clients -> OM!Uploads \cup {OM!Idle}]
  BY <1>1, UploadGoes DEF MapInv, MapSafe, OM!Switch, UploadPlaces
<1>3. omDt' \in Packages /\ omDt' # None /\ omDt' = omUpload[c].package
  BY <1>1 DEF OM!Switch, OM!Uploads, OM!MapConstants
<1>4. UploadTypes' /\ TileTypes'
  BY <1>2, <1>3 DEF OM!Switch, MapInv, MapSafe, UploadTypes, TileTypes
<1>5. \A d \in Clients : HoldsBackup(d, MovedAside)' =>
        HoldsBackup(d, MovedAside) /\ omUpload'[d].name = omUpload[d].name
  BY <1>1, <1>2 DEF HoldsBackup, MovedAside
<1>6. BackupsOwned' /\ SpareBackup'
  BY <1>3, <1>5 DEF OM!Switch, MapInv, MapSafe, BackupsOwned, SpareBackup
<1>7. ~omDisturbed => (\A d \in Clients : d # c => omUpload[d] = OM!Idle) /\ Aside(c)
  BY <1>1, OthersRest DEF MapInv, UploadFollows
<1>8. ~omDisturbed' => UploadFollows(c)'
  BY <1>2, <1>3, <1>7 DEF OM!Switch, UploadFollows, Aside
<1>9. MapOrdered'
  BY <1>2, <1>7, <1>8, MapOrderedIf DEF OM!Switch, MapInv, MapSafe
<1> QED BY <1>4, <1>6, <1>9 DEF MapInv, MapSafe

LEMMA WriteManifestStep ==
  ASSUME OM!MapConstants, MapInv, NEW c \in Clients, OM!WriteManifest(c)
  PROVE  MapInv'
<1>1. omUpload[c].at = "manifest" /\ omUpload[c] # OM!Idle /\ omUpload[c] \in OM!Uploads
  BY UploadIs DEF MapInv, MapSafe, OM!WriteManifest, OM!At
<1>2. /\ omUpload'[c] \in OM!Uploads /\ omUpload'[c].at = "cleanup" /\ omUpload'[c] # OM!Idle
      /\ omUpload'[c].saved = omUpload[c].saved /\ omUpload'[c].name = omUpload[c].name
      /\ \A d \in Clients : d # c => omUpload'[d] = omUpload[d]
      /\ omUpload' \in [Clients -> OM!Uploads \cup {OM!Idle}]
  BY <1>1, UploadGoes DEF MapInv, MapSafe, OM!WriteManifest, UploadPlaces
<1>3. UploadTypes' /\ TileTypes'
  BY <1>2 DEF OM!WriteManifest, MapInv, MapSafe, UploadTypes, TileTypes
<1>4. \A d \in Clients : omUpload'[d].name = omUpload[d].name
        /\ (HoldsBackup(d, MovedAside)' <=> HoldsBackup(d, MovedAside)) /\ (HoldsBackup(d, Installing)' <=> HoldsBackup(d, Installing))
  BY <1>1, <1>2 DEF HoldsBackup, MovedAside, Installing
<1>5. BackupsOwned'
  BY <1>4 DEF OM!WriteManifest, MapInv, MapSafe, BackupsOwned
<1>6. SpareBackup'
  BY <1>1, <1>4 DEF OM!WriteManifest, MapInv, MapSafe, SpareBackup
<1>7. ~omDisturbed => (\A d \in Clients : d # c => omUpload[d] = OM!Idle) /\ omDt = omUpload[c].package
  BY <1>1, OthersRest DEF MapInv, UploadFollows
<1>8. ~omDisturbed' => UploadFollows(c)'
  BY <1>2, <1>7 DEF OM!WriteManifest, UploadFollows, InPlace
<1>9. MapOrdered'
  BY <1>2, <1>7, <1>8, MapOrderedIf DEF OM!WriteManifest, MapInv, MapSafe
<1> QED BY <1>3, <1>5, <1>6, <1>9 DEF MapInv, MapSafe

\* Moving back what was moved aside, or failing to, when an upload ends at
\* the switch or the manifest.
LEMMA MoveBackStep ==
  ASSUME OM!MapConstants, MapInv, NEW c \in Clients, omUpload[c].at \in {"switch", "manifest"},
         NEW base \in {omDt, None}, OM!MoveBack(c, base), OM!End(c),
         UNCHANGED <<omManifest, omSecond, omWanted, omUploads>>,
         base # omDt => omUpload[c].at = "manifest" /\ omUpload[c].saved
  PROVE  MapInv'
<1> DEFINE n == omUpload[c].name
<1>1. omUpload[c] # OM!Idle /\ omUpload[c] \in OM!Uploads
  BY UploadIs DEF MapInv, MapSafe
<1>2. /\ omUpload'[c] = OM!Idle /\ omUpload'[c].at = "idle"
      /\ \A d \in Clients : d # c => omUpload'[d] = omUpload[d]
      /\ UploadTypes'
  BY UploadEnds DEF MapInv, MapSafe
<1>3. ~omDisturbed' => ~omDisturbed
  BY DEF OM!MoveBack
<1>4. ~omDisturbed => (\A d \in Clients : d # c => omUpload[d] = OM!Idle) /\ UploadFollows(c)
  BY <1>1, OthersRest DEF MapInv
<1>5. \A d \in Clients : HoldsBackup(d, MovedAside)' => d # c /\ HoldsBackup(d, MovedAside) /\ omUpload'[d] = omUpload[d]
  BY <1>2 DEF HoldsBackup, MovedAside
<1>6. \A d \in Clients : HoldsBackup(d, Installing)' =>
        HoldsBackup(d, Installing) /\ HoldsBackup(d, MovedAside) /\ d # c /\ omUpload'[d] = omUpload[d]
  BY <1>2 DEF HoldsBackup, Installing, MovedAside
<1>7. CASE /\ omUpload[c].saved /\ n \in DOMAIN omBackups /\ base = None
           /\ omDt' = omBackups[n] /\ omBackups' = OM!Restrict(omBackups, DOMAIN omBackups \ {n})
           /\ UNCHANGED omDisturbed
  <2>1. /\ DOMAIN omBackups' = DOMAIN omBackups \ {n}
        /\ \A s \in DOMAIN omBackups' : omBackups'[s] = omBackups[s]
        /\ omDt' \in Packages /\ omDt' # None
    BY <1>7 DEF OM!Restrict, MapInv, MapSafe, TileTypes, OM!MapConstants
  <2>2. TileTypes' /\ SpareBackup'
    BY <2>1 DEF MapInv, MapSafe, TileTypes, SpareBackup
  <2>3. HoldsBackup(c, MovedAside)
    BY <1>7 DEF HoldsBackup, MovedAside
  <2>4. BackupsOwned'
    BY <1>5, <2>1, <2>3 DEF MapInv, MapSafe, BackupsOwned
  <2>5. ~omDisturbed' => InPlace'
    BY <1>4, <1>7 DEF UploadFollows, Aside, InPlace
  <2>6. MapOrdered'
    BY <1>2, <1>3, <1>4, <2>5, MapOrderedIf DEF MapInv, MapSafe
  <2> QED BY <1>2, <2>2, <2>4, <2>6 DEF MapInv, MapSafe
<1>8. CASE omDt' = base /\ UNCHANGED omBackups /\ omDisturbed' = (omDisturbed \/ omUpload[c].saved)
  <2>1. TileTypes'
    BY <1>8 DEF MapInv, MapSafe, TileTypes
  <2>2. BackupsOwned'
    BY <1>5, <1>8 DEF MapInv, MapSafe, BackupsOwned
  <2>3. SpareBackup'
    <3>1. CASE base # omDt
      <4>1. HoldsBackup(c, MovedAside)
        BY <3>1 DEF HoldsBackup, MovedAside
      <4>2. n \in DOMAIN omBackups' /\ \A d \in Clients : HoldsBackup(d, Installing)' => omUpload'[d].name # n
        BY <1>6, <1>8, <4>1 DEF MapInv, MapSafe, BackupsOwned
      <4> HIDE DEF n
      <4> QED BY <4>2 DEF SpareBackup
    <3>2. CASE base = omDt
      BY <1>2, <1>6, <1>8, <3>2 DEF MapInv, MapSafe, SpareBackup
    <3> QED BY <3>1, <3>2
  <2>4. ~omDisturbed' => InPlace'
    BY <1>3, <1>4, <1>8 DEF UploadFollows, Aside, InPlace
  <2>5. MapOrdered'
    BY <1>2, <1>3, <1>4, <2>4, MapOrderedIf DEF MapInv, MapSafe
  <2> QED BY <1>2, <2>1, <2>2, <2>3, <2>5 DEF MapInv, MapSafe
<1> QED BY <1>7, <1>8 DEF OM!MoveBack

LEMMA UploadFails ==
  ASSUME OM!MapConstants, MapInv, NEW c \in Clients, OM!SwitchFails(c) \/ OM!ManifestFails(c)
  PROVE  MapInv'
<1>1. CASE OM!SwitchFails(c)
  BY <1>1, MoveBackStep DEF OM!SwitchFails, OM!At
<1>2. CASE OM!ManifestFails(c) /\ omUpload[c].saved
  BY <1>2, MoveBackStep DEF OM!ManifestFails, OM!At
<1>3. CASE OM!ManifestFails(c) /\ ~omUpload[c].saved
  <2>1. /\ omUpload[c].at = "manifest" /\ ~omUpload[c].saved /\ OM!End(c)
        /\ UNCHANGED <<omDt, omBackups, omDisturbed, omManifest, omSecond, omWanted, omUploads>>
    BY <1>3 DEF OM!ManifestFails, OM!At
  <2>2. omUpload[c] # OM!Idle
    BY <2>1, UploadIs DEF MapInv, MapSafe
  <2>3. /\ omUpload'[c] = OM!Idle /\ omUpload'[c].at = "idle"
        /\ \A d \in Clients : d # c => omUpload'[d] = omUpload[d]
        /\ UploadTypes'
    BY <2>1, UploadEnds DEF MapInv, MapSafe
  <2>4. MapSafe'
    <3>1. UNCHANGED <<OM!tiles, omWanted>>
      BY <2>1 DEF OM!tiles
    <3> QED BY <2>3, <3>1, QuietSafe DEF MapInv
  <2>5. ~omDisturbed => (\A d \in Clients : d # c => omUpload[d] = OM!Idle) /\ omWanted = None
    BY <2>1, <2>2, OthersRest DEF MapInv, UploadFollows, Aside
  <2>6. MapOrdered'
    BY <2>1, <2>3, <2>5, MapOrderedIf DEF MapInv, MapSafe, InPlace
  <2> QED BY <2>4, <2>6 DEF MapInv
<1> QED BY <1>1, <1>2, <1>3

LEMMA CleanupStep ==
  ASSUME MapInv, NEW c \in Clients, OM!Cleanup(c)
  PROVE  MapInv'
<1> DEFINE n == omUpload[c].name
<1>1. /\ omUpload[c].at = "cleanup" /\ omUpload[c] # OM!Idle
      /\ UNCHANGED <<omDt, omManifest, omSecond, omWanted, omDisturbed, omUploads>>
  BY UploadIs DEF MapInv, MapSafe, OM!Cleanup, OM!At
<1>2. /\ omUpload'[c] = OM!Idle /\ omUpload'[c].at = "idle"
      /\ \A d \in Clients : d # c => omUpload'[d] = omUpload[d]
      /\ UploadTypes'
  BY UploadEnds DEF OM!Cleanup, MapInv, MapSafe
<1>3. /\ DOMAIN omBackups' \subseteq DOMAIN omBackups
      /\ \A s \in DOMAIN omBackups : s \notin DOMAIN omBackups' => omUpload[c].saved /\ s = n
      /\ \A s \in DOMAIN omBackups' : omBackups'[s] = omBackups[s]
  <2>1. CASE omBackups' = omBackups
    BY <2>1
  <2>2. CASE omUpload[c].saved /\ omBackups' = OM!Restrict(omBackups, DOMAIN omBackups \ {n})
    BY <2>2 DEF OM!Restrict
  <2> QED BY <2>1, <2>2 DEF OM!Cleanup
<1>4. \A d \in Clients : HoldsBackup(d, MovedAside)' => d # c /\ HoldsBackup(d, MovedAside) /\ omUpload'[d] = omUpload[d]
  BY <1>2 DEF HoldsBackup, MovedAside
<1>5. \A d \in Clients : HoldsBackup(d, Installing)' => d # c /\ HoldsBackup(d, Installing) /\ omUpload'[d] = omUpload[d]
  BY <1>2 DEF HoldsBackup, Installing
<1>6. omUpload[c].saved => HoldsBackup(c, MovedAside) /\ HoldsBackup(c, Installing)
  BY <1>1 DEF HoldsBackup, MovedAside, Installing
<1> HIDE DEF n
<1>7. TileTypes'
  BY <1>1, <1>3 DEF MapInv, MapSafe, TileTypes
<1>8. BackupsOwned'
  <2>1. \A d \in Clients : HoldsBackup(d, MovedAside)' => omUpload'[d].name \in DOMAIN omBackups'
    BY <1>3, <1>4, <1>6 DEF MapInv, MapSafe, BackupsOwned, n
  <2> QED BY <1>4, <2>1 DEF MapInv, MapSafe, BackupsOwned
<1>9. SpareBackup'
  <2> SUFFICES ASSUME (omWanted # None \/ \E d \in Clients : omUpload[d].at = "manifest") /\ omDt = None
               PROVE  \E s \in DOMAIN omBackups' :
                        \A d \in Clients : HoldsBackup(d, Installing)' => omUpload'[d].name # s
    BY <1>1, <1>2 DEF SpareBackup
  <2>1. PICK s \in DOMAIN omBackups : \A d \in Clients : HoldsBackup(d, Installing) => omUpload[d].name # s
    BY DEF MapInv, MapSafe, SpareBackup
  <2>2. s \in DOMAIN omBackups'
    BY <1>3, <1>6, <2>1 DEF n
  <2> QED BY <1>5, <2>1, <2>2
<1>10. ~omDisturbed => (\A d \in Clients : d # c => omUpload[d] = OM!Idle) /\ InPlace
  BY <1>1, OthersRest DEF MapInv, UploadFollows
<1>11. MapOrdered'
  BY <1>1, <1>2, <1>10, MapOrderedIf DEF MapInv, MapSafe, InPlace
<1> QED BY <1>2, <1>7, <1>8, <1>9, <1>11 DEF MapInv, MapSafe

\* The kill of the process.
LEMMA CrashStep ==
  ASSUME MapInv, OM!Crash
  PROVE  MapInv'
<1>1. /\ \A c \in Clients : omUpload'[c] = OM!Idle /\ omUpload'[c].at = "idle"
      /\ UploadTypes' /\ UNCHANGED <<omDt, omManifest, omBackups, omWanted>>
  BY IdleIs DEF OM!Crash, UploadTypes, OM!tiles
<1>2. TileTypes' /\ BackupsOwned' /\ SpareBackup'
  BY <1>1 DEF MapInv, MapSafe, TileTypes, BackupsOwned, SpareBackup, HoldsBackup, MovedAside, Installing
<1>3. ~omDisturbed' => InPlace
  <2> SUFFICES ASSUME ~omDisturbed' PROVE InPlace
    OBVIOUS
  <2>1. PICK c \in Clients : omUpload[c] # OM!Idle
    BY DEF OM!Crash, OM!Busy
  <2>2. ~omDisturbed /\ omUpload[c].at \notin {"switch", "manifest"}
    BY DEF OM!Crash
  <2> QED BY <2>1, <2>2, OthersRest, UploadIs DEF MapInv, MapSafe, UploadFollows, UploadPlaces
<1>4. MapOrdered'
  BY <1>1, <1>3 DEF MapOrdered, InPlace
<1> QED BY <1>1, <1>2, <1>4 DEF MapInv, MapSafe
-----------------------------------------------------------------------------
UploadClock == omSecond \in 0..MaxSeconds

LEMMA InitMap == OM!MapConstants /\ OM!Init => MapInv /\ UploadClock
<1> SUFFICES ASSUME OM!MapConstants, OM!Init PROVE MapInv /\ UploadClock
  OBVIOUS
<1>1. \A c \in Clients : omUpload[c] = OM!Idle /\ omUpload[c].at = "idle"
  BY IdleIs DEF OM!Init
<1>2. UploadTypes
  BY <1>1, IdleIs DEF OM!Init, UploadTypes
<1>3. TileTypes /\ BackupsOwned /\ SpareBackup
  BY <1>1 DEF OM!Init, TileTypes, BackupsOwned, SpareBackup, HoldsBackup, MovedAside, Installing
<1>4. MapOrdered /\ UploadClock
  BY <1>1 DEF OM!Init, MapOrdered, InPlace, OM!MapConstants, UploadClock
<1> QED BY <1>2, <1>3, <1>4 DEF MapInv, MapSafe

LEMMA UploadSame ==
  ASSUME MapInv, UNCHANGED <<OM!tiles, omUpload, omWanted, omDisturbed>>
  PROVE  MapInv'
BY DEF MapInv, MapSafe, UploadTypes, TileTypes, BackupsOwned, SpareBackup, HoldsBackup, MapOrdered, UploadFollows, Aside,
       InPlace, OM!tiles

LEMMA MapStep ==
  ASSUME OM!MapConstants, MapInv, UploadClock, [OM!Next]_(OM!vars)
  PROVE  MapInv' /\ UploadClock'
<1>1. CASE UNCHANGED OM!vars \/ OM!Tick \/ \E c \in Clients : OM!Refuse(c)
  <2>1. MapInv'
    BY <1>1, UploadSame DEF OM!vars, OM!Tick, OM!Refuse
  <2>2. UploadClock'
    BY <1>1 DEF OM!vars, OM!Tick, OM!Refuse, UploadClock, OM!MapConstants
  <2> QED BY <2>1, <2>2
<1>2. ASSUME NEW c \in Clients,
             \/ OM!Begin(c) \/ OM!Extract(c) \/ OM!NothingToBackup(c) \/ OM!FailEarly(c) \/ OM!Backup(c)
             \/ OM!Switch(c) \/ OM!SwitchFails(c) \/ OM!WriteManifest(c) \/ OM!ManifestFails(c) \/ OM!Cleanup(c)
      PROVE  MapInv' /\ UploadClock'
  <2>1. MapInv'
    BY <1>2, UploadBegins, UploadRests, FailEarlyStep, BackupStep, SwitchStep, UploadFails,
       WriteManifestStep, CleanupStep DEF UploadClock
  <2>2. UNCHANGED omSecond
    BY <1>2 DEF OM!Begin, OM!Extract, OM!NothingToBackup, OM!FailEarly, OM!Backup, OM!Switch, OM!SwitchFails,
       OM!WriteManifest, OM!ManifestFails, OM!Cleanup
  <2> QED BY <2>1, <2>2 DEF UploadClock
<1>3. CASE OM!Crash
  BY <1>3, CrashStep DEF OM!Crash, UploadClock
<1> QED BY <1>1, <1>2, <1>3 DEF OM!Next

LEMMA MapInvSuffices == ASSUME MapInv PROVE OM!MapKept
<1>1. omWanted # None => omDt # None \/ DOMAIN omBackups # {}
  BY DEF MapInv, MapSafe, SpareBackup
<1>2. omDisturbed \/ OM!Busy # {} \/ InPlace
  BY DEF MapInv, MapOrdered, OM!Busy
<1> QED BY <1>1, <1>2 DEF OM!MapKept, InPlace

------------------------------------------------------------------------------
\* The monitor of the relay.

\* Versions and writes are counted; what a caller was told is done is done.
RelayCounts ==
  /\ rlVersion \in Nat /\ rlQueryVersion \in Nat /\ rlQueryVersion <= rlVersion
  /\ rlExecuted \in Nat /\ rlWrites \in Nat /\ rlExecuted <= rlWrites
  /\ rlAsked \in Nat

\* Every frame says how many writes it is from.
AnyFrames ==
  [kind : {"inputs", "outputs"}, value : RL!Values, after : Nat, unasked : BOOLEAN]
FramesQueued == rlFrames \in Seq(AnyFrames) /\ rlOutput \in RL!Values /\ rlAwaiting \in BOOLEAN
            /\ rlPushed \in BOOLEAN

\* While the relay reports no output unasked, one answer at most is on its way,
\* and one only to a query that is awaited; ...
Outputs == {i \in 1..Len(rlFrames) : rlFrames[i].kind = "outputs"}
OneAnswer ==
  ~rlPushed =>
    /\ ~rlAwaiting => rlAsked = 0 /\ Outputs = {}
    /\ rlAsked <= 1 /\ (rlAsked = 1 => Outputs = {})
    /\ \A i, j \in Outputs : i = j

\* ... and if no command has begun or ended since the query, the answer is from
\* after every command that ended with success.
AnswerIsFresh ==
  ~rlPushed /\ rlQueryVersion = rlVersion => \A i \in Outputs : rlFrames[i].after >= rlExecuted

RelayRests == rlLink = "down" => ~rlAwaiting /\ rlAsked = 0 /\ rlFrames = <<>> /\ ~rlPushed

RelayInv == RelayCounts /\ FramesQueued /\ OneAnswer /\ AnswerIsFresh /\ RelayRests
-----------------------------------------------------------------------------
LEMMA EmptyQueue == <<>> \in Seq(AnyFrames)
OBVIOUS

LEMMA InitRelay == RL!Init => RelayInv
<1> SUFFICES ASSUME RL!Init PROVE RelayInv
  OBVIOUS
<1>1. rlFrames = <<>> /\ Outputs = {}
  BY DEF RL!Init, Outputs
<1>2. RelayCounts /\ RelayRests
  BY DEF RL!Init, RelayCounts, RelayRests
<1>3. FramesQueued
  <2>1. rlFrames \in Seq(AnyFrames) /\ rlOutput \in RL!Values
    BY EmptyQueue DEF RL!Init
  <2>2. rlAwaiting \in BOOLEAN /\ rlPushed \in BOOLEAN
    BY DEF RL!Init
  <2> QED BY <2>1, <2>2 DEF FramesQueued
<1> QED BY <1>1, <1>2, <1>3 DEF RL!Init, RelayInv, OneAnswer, AnswerIsFresh

\* A command begins, goes on, or ends: the version moves with what the caller is
\* told.
LEMMA CommandStep ==
  ASSUME RelayInv, RL!BeginSet \/ RL!Send \/ RL!EndSet \/ RL!FailSet
  PROVE  RelayInv'
<1> USE DEF RL!monitorVars, RL!relayVars
<1>1. UNCHANGED <<rlFrames, rlOutput, rlAwaiting, rlPushed, rlLink, rlAsked, rlQueryVersion, rlWrites>>
  BY DEF RL!BeginSet, RL!Send, RL!EndSet, RL!FailSet
<1>2. \/ rlVersion' = rlVersion /\ rlExecuted' = rlExecuted
      \/ rlVersion' = rlVersion + 1 /\ rlExecuted' \in {rlExecuted, rlWrites}
  BY DEF RL!BeginSet, RL!Send, RL!EndSet, RL!FailSet
<1>3. RelayCounts'
  BY <1>1, <1>2 DEF RelayInv, RelayCounts
<1>4. FramesQueued' /\ RelayRests' /\ Outputs' = Outputs
  BY <1>1 DEF RelayInv, FramesQueued, RelayRests, Outputs
<1>5. OneAnswer' /\ AnswerIsFresh'
  BY <1>1, <1>2, <1>4 DEF RelayInv, RelayCounts, OneAnswer, AnswerIsFresh
<1> QED BY <1>3, <1>4, <1>5 DEF RelayInv

\* The relay carries a command out, or is switched by somebody else.
LEMMA OutputStep ==
  ASSUME RelayInv, RL!Execute \/ RL!Field,
         rlMu # None /\ rlMu.at = "sent" => rlMu.value \in RL!Values
  PROVE  RelayInv'
<1> USE DEF RL!monitorVars, RL!controlVars
<1>1. UNCHANGED <<rlFrames, rlAwaiting, rlPushed, rlLink, rlAsked, rlQueryVersion, rlVersion, rlExecuted>>
  BY DEF RL!Execute, RL!Field
<1>2. rlWrites' \in {rlWrites, rlWrites + 1} /\ rlOutput' \in RL!Values
  BY DEF RL!Execute, RL!Field, RelayInv, FramesQueued, RL!Values
<1>3. RelayCounts' /\ FramesQueued' /\ RelayRests' /\ Outputs' = Outputs
  BY <1>1, <1>2 DEF RelayInv, RelayCounts, FramesQueued, RelayRests, Outputs
<1>4. OneAnswer' /\ AnswerIsFresh'
  BY <1>1, <1>3 DEF RelayInv, OneAnswer, AnswerIsFresh
<1> QED BY <1>3, <1>4 DEF RelayInv

\* A frame is sent.
LEMMA Appended ==
  ASSUME FramesQueued, NEW f \in AnyFrames, rlFrames' = Append(rlFrames, f)
  PROVE  /\ rlFrames' \in Seq(AnyFrames)
         /\ \A i \in Outputs' : i \in Outputs \/ (f.kind = "outputs" /\ i = Len(rlFrames) + 1)
         /\ \A i \in Outputs : rlFrames'[i] = rlFrames[i]
         /\ rlFrames'[Len(rlFrames) + 1] = f
BY DEF FramesQueued, Outputs

LEMMA RelayAnswers ==
  ASSUME RelayInv, RL!Answer
  PROVE  RelayInv'
<1> DEFINE f == RL!Frame("outputs", FALSE)
<1>1. f \in AnyFrames /\ f.after = rlWrites
  BY DEF RL!Frame, AnyFrames, RelayInv, FramesQueued, RelayCounts
<1>2. /\ rlFrames' = Append(rlFrames, f) /\ rlAsked > 0 /\ rlAsked' = rlAsked - 1 /\ rlLink = "up"
      /\ UNCHANGED <<rlVersion, rlQueryVersion, rlExecuted, rlWrites, rlOutput, rlAwaiting, rlPushed, rlLink>>
  BY DEF RL!Answer, RL!controlVars, RL!relayVars
<1> HIDE DEF f
<1>3. /\ rlFrames' \in Seq(AnyFrames)
      /\ \A i \in Outputs' : i \in Outputs \/ i = Len(rlFrames) + 1
      /\ \A i \in Outputs : rlFrames'[i] = rlFrames[i]
      /\ rlFrames'[Len(rlFrames) + 1] = f
  BY <1>1, <1>2, Appended DEF RelayInv
<1>4. RelayCounts' /\ FramesQueued' /\ RelayRests'
  BY <1>2, <1>3 DEF RelayInv, RelayCounts, FramesQueued, RelayRests
<1>5. ~rlPushed => rlAwaiting /\ rlAsked = 1 /\ Outputs = {}
  BY <1>2 DEF RelayInv, OneAnswer, RelayCounts
<1>6. OneAnswer'
  BY <1>2, <1>3, <1>5 DEF OneAnswer
<1>7. AnswerIsFresh'
  BY <1>1, <1>2, <1>3, <1>5 DEF AnswerIsFresh, RelayInv, RelayCounts
<1> QED BY <1>4, <1>6, <1>7 DEF RelayInv

LEMMA ReportStep ==
  ASSUME RelayInv, RL!Report
  PROVE  RelayInv'
<1>1. PICK kind \in {"inputs", "outputs"} :
        /\ rlFrames' = Append(rlFrames, RL!Frame(kind, TRUE))
        /\ rlPushed' = (rlPushed \/ kind = "outputs")
        /\ UNCHANGED <<rlVersion, rlQueryVersion, rlExecuted, rlWrites, rlOutput, rlAwaiting, rlLink, rlAsked>>
        /\ rlLink = "up"
  BY DEF RL!Report, RL!controlVars, RL!relayVars
<1> DEFINE f == RL!Frame(kind, TRUE)
<1>2. f \in AnyFrames /\ f.kind = kind
  BY DEF RL!Frame, AnyFrames, RelayInv, FramesQueued, RelayCounts
<1> HIDE DEF f
<1>3. /\ rlFrames' \in Seq(AnyFrames)
      /\ \A i \in Outputs' : i \in Outputs \/ kind = "outputs"
      /\ \A i \in Outputs : rlFrames'[i] = rlFrames[i]
  BY <1>1, <1>2, Appended DEF RelayInv, f
<1>4. RelayCounts' /\ RelayRests'
  BY <1>1 DEF RelayInv, RelayCounts, RelayRests
<1>5. FramesQueued'
  <2>1. rlPushed' \in BOOLEAN
    BY <1>1, Zenon DEF RelayInv, FramesQueued
  <2> QED BY <1>1, <1>3, <2>1 DEF RelayInv, FramesQueued
<1>6. ~rlPushed' => ~rlPushed /\ Outputs' \subseteq Outputs
  BY <1>1, <1>3
<1>7. OneAnswer' /\ AnswerIsFresh'
  BY <1>1, <1>3, <1>6 DEF RelayInv, OneAnswer, AnswerIsFresh
<1> QED BY <1>4, <1>5, <1>7 DEF RelayInv

\* The connection comes and goes, with all that is on its way.
LEMMA ConnectionStep ==
  ASSUME RelayInv, RL!Connect \/ RL!Lose \/ RL!Resync
  PROVE  RelayInv'
<1>1. /\ rlFrames' = <<>> /\ rlPushed' = FALSE
      /\ UNCHANGED <<rlVersion, rlExecuted, rlWrites, rlOutput>>
      /\ \/ /\ rlLink' = "up" /\ rlAsked' = 1 /\ rlAwaiting' = TRUE /\ rlQueryVersion' = rlVersion
         \/ /\ rlLink' = "down" /\ rlAsked' = 0 /\ rlAwaiting' = FALSE /\ rlQueryVersion' = 0
  BY DEF RL!Connect, RL!Lose, RL!Resync, RL!Down, RL!controlVars, RL!relayVars
<1>2. Outputs' = {}
  BY <1>1 DEF Outputs
<1>3. RelayCounts'
  BY <1>1 DEF RelayInv, RelayCounts
<1>4. FramesQueued'
  <2>1. rlFrames' \in Seq(AnyFrames) /\ rlOutput' \in RL!Values
    BY <1>1, EmptyQueue DEF RelayInv, FramesQueued
  <2>2. rlAwaiting' \in BOOLEAN /\ rlPushed' \in BOOLEAN
    BY <1>1
  <2> QED BY <2>1, <2>2 DEF FramesQueued
<1>5. OneAnswer' /\ AnswerIsFresh' /\ RelayRests'
  BY <1>1, <1>2 DEF OneAnswer, AnswerIsFresh, RelayRests
<1> QED BY <1>3, <1>4, <1>5 DEF RelayInv

\* A query, which is asked only when no answer is awaited.
LEMMA PollStep ==
  ASSUME RelayInv, RL!Poll
  PROVE  RelayInv'
<1>1. /\ rlLink = "up" /\ ~rlAwaiting /\ rlAsked' = rlAsked + 1 /\ rlAwaiting' = TRUE
      /\ rlQueryVersion' = rlVersion
      /\ UNCHANGED <<rlVersion, rlExecuted, rlWrites, rlOutput, rlLink, rlFrames, rlPushed>>
  BY DEF RL!Poll, RL!Query, RL!controlVars, RL!relayVars
<1>2. Outputs' = Outputs
  BY <1>1 DEF Outputs
<1> QED BY <1>1, <1>2 DEF RelayInv, RelayCounts, FramesQueued, OneAnswer, AnswerIsFresh, RelayRests

\* A frame is received.
LEMMA Taken ==
  ASSUME FramesQueued, rlFrames # <<>>, rlFrames' = Tail(rlFrames)
  PROVE  /\ rlFrames' \in Seq(AnyFrames)
         /\ \A i \in Outputs' : i + 1 \in Outputs /\ i \in Nat /\ i >= 1 /\ rlFrames'[i] = rlFrames[i + 1]
         /\ Head(rlFrames) = rlFrames[1] /\ Head(rlFrames) \in AnyFrames
         /\ Head(rlFrames).kind = "outputs" => 1 \in Outputs
BY DEF FramesQueued, Outputs

LEMMA InputsStep ==
  ASSUME RelayInv, RL!ReceiveInputs
  PROVE  RelayInv'
<1>1. /\ rlLink = "up" /\ rlFrames # <<>> /\ rlFrames' = Tail(rlFrames)
      /\ UNCHANGED <<rlVersion, rlExecuted, rlWrites, rlOutput, rlLink, rlPushed>>
      /\ IF rlAwaiting THEN UNCHANGED <<rlAsked, rlAwaiting, rlQueryVersion>> ELSE RL!Query
  BY DEF RL!ReceiveInputs, RL!controlVars, RL!relayVars
<1>2. /\ rlFrames' \in Seq(AnyFrames)
      /\ \A i \in Outputs' : i + 1 \in Outputs /\ i \in Nat /\ rlFrames'[i] = rlFrames[i + 1]
  BY <1>1, Taken DEF RelayInv
<1>3. RelayCounts' /\ RelayRests'
  BY <1>1 DEF RelayInv, RelayCounts, RelayRests, RL!Query
<1>6. FramesQueued'
  <2>1. CASE rlAwaiting
    BY <1>1, <1>2, <2>1 DEF RelayInv, FramesQueued
  <2>2. CASE ~rlAwaiting
    BY <1>1, <1>2, <2>2 DEF RelayInv, FramesQueued, RL!Query
  <2> QED BY <2>1, <2>2
<1>4. OneAnswer'
  BY <1>1, <1>2 DEF RelayInv, OneAnswer, RelayCounts, RL!Query
<1>5. AnswerIsFresh'
  BY <1>1, <1>2 DEF RelayInv, OneAnswer, AnswerIsFresh, RL!Query
<1> QED BY <1>3, <1>4, <1>5, <1>6 DEF RelayInv

LEMMA OutputsStep ==
  ASSUME RelayInv, RL!ReceiveOutputs
  PROVE  /\ RelayInv'
         /\ ~rlPushed => rlSeen'.after >= rlExecuted
<1>1. /\ rlLink = "up" /\ rlFrames # <<>> /\ Head(rlFrames).kind = "outputs" /\ ~RL!Superseded
      /\ rlFrames' = Tail(rlFrames) /\ rlSeen' = Head(rlFrames) /\ rlAwaiting' = FALSE
      /\ UNCHANGED <<rlVersion, rlExecuted, rlWrites, rlOutput, rlLink, rlAsked, rlQueryVersion, rlPushed>>
  BY DEF RL!ReceiveOutputs, RL!controlVars, RL!relayVars
<1>2. /\ rlFrames' \in Seq(AnyFrames)
      /\ \A i \in Outputs' : i + 1 \in Outputs /\ i \in Nat /\ i >= 1 /\ rlFrames'[i] = rlFrames[i + 1]
      /\ 1 \in Outputs /\ rlSeen' = rlFrames[1]
  BY <1>1, Taken DEF RelayInv
<1>3. RelayCounts' /\ FramesQueued' /\ RelayRests'
  BY <1>1, <1>2 DEF RelayInv, RelayCounts, FramesQueued, RelayRests
<1>4. ~rlPushed => rlAwaiting /\ rlAsked = 0 /\ Outputs' = {}
  BY <1>2 DEF RelayInv, OneAnswer, RelayCounts, FramesQueued
<1>5. OneAnswer' /\ AnswerIsFresh'
  BY <1>1, <1>4 DEF OneAnswer, AnswerIsFresh
<1>6. ~rlPushed => rlSeen'.after >= rlExecuted
  BY <1>1, <1>2, <1>4 DEF RL!Superseded, RelayInv, AnswerIsFresh
<1> QED BY <1>3, <1>5, <1>6 DEF RelayInv
-----------------------------------------------------------------------------
\* What a command sets an output to is a value.
CommandTypes == rlMu # None => rlMu \in [value : RL!Values, at : {"dial", "sent", "answered"}]

LEMMA CommandTypesStep ==
  ASSUME CommandTypes, [RL!Next]_(RL!vars)
  PROVE  CommandTypes'
<1>1. CASE RL!BeginSet \/ RL!Send
  BY <1>1 DEF CommandTypes, RL!BeginSet, RL!Send
<1>2. CASE RL!Execute
  BY <1>2 DEF CommandTypes, RL!Execute
<1>3. CASE RL!EndSet \/ RL!FailSet
  BY <1>3 DEF CommandTypes, RL!EndSet, RL!FailSet
<1>4. CASE UNCHANGED RL!vars \/ RL!Field \/ RL!Answer \/ RL!Report \/ RL!Connect \/ RL!Poll \/ RL!Lose
             \/ RL!ReceiveInputs \/ RL!ReceiveOutputs \/ RL!Resync
  BY <1>4 DEF CommandTypes, RL!vars, RL!controlVars, RL!Field, RL!Answer, RL!Report, RL!Connect, RL!Poll, RL!Lose,
     RL!ReceiveInputs, RL!ReceiveOutputs, RL!Resync
<1> QED BY <1>1, <1>2, <1>3, <1>4 DEF RL!Next

LEMMA RelayStep ==
  ASSUME RelayInv, CommandTypes, [RL!Next]_(RL!vars)
  PROVE  RelayInv'
<1>1. CASE UNCHANGED RL!vars
  BY <1>1 DEF RL!vars, RL!controlVars, RL!relayVars, RL!monitorVars, RelayInv, RelayCounts, FramesQueued, OneAnswer,
     AnswerIsFresh, RelayRests, Outputs
<1>2. rlMu # None /\ rlMu.at = "sent" => rlMu.value \in RL!Values
  BY DEF CommandTypes
<1> QED BY <1>1, <1>2, CommandStep, OutputStep, RelayAnswers, ReportStep, ConnectionStep,
        PollStep, InputsStep, OutputsStep DEF RL!Next

------------------------------------------------------------------------------
\* The live list of positioning targets.

\* Only what came encrypted can be unreadable.
Proper(t) == t \in PO!Targets /\ (~t.did => t.cracked)

\* But for the drones in crossed, only the placeholder of a packet lacks the
\* serial, and a row under a packet's id is of its drone.
Own(t, crossed) ==
  /\ t.drone \notin crossed /\ t.temp => PO!Placeholder(t) /\ ~PO!Apart(t)
  /\ t.corr \in Drones /\ t.corr # t.drone => t.corr \in crossed /\ t.drone \in crossed

\* Rows that would show the drone twice, and those that a report could still
\* make such: a placeholder under a uuid and one of a packet that has the serial.
Alike(t, u) ==
  /\ t.drone = u.drone /\ PO!Placeholder(t) = PO!Placeholder(u)
  /\ ~PO!Apart(t) /\ ~PO!Apart(u)
Clash(t, u) ==
  t.drone = u.drone /\ PO!Apart(t) /\ PO!Placeholder(u) /\ ~PO!Apart(u) /\ ~u.temp

\* Each drone that has not crossed has at most one placeholder of its packets and
\* one other row, beside the placeholders under uuids.
Orderly(list, crossed) ==
  /\ \A i \in 1..Len(list) : Proper(list[i]) /\ Own(list[i], crossed)
  /\ \A i, k \in 1..Len(list) : list[i].drone \notin crossed =>
       /\ Alike(list[i], list[k]) => i = k
       /\ ~Clash(list[i], list[k])

\* A report that can be added: who it would be taken for has crossed, as it has.
Fits(list, t, crossed) ==
  /\ Proper(t) /\ Own(t, crossed)
  /\ \A i \in 1..Len(list) :
       /\ t.corr # None /\ list[i].corr = t.corr /\ list[i].drone # t.drone
            => t.drone \in crossed /\ list[i].drone \in crossed
       /\ t.drone \notin crossed => ~Clash(list[i], t) /\ ~Clash(t, list[i])

NoPlaceholder(list, d) ==
  \A i \in 1..Len(list) : PO!Placeholder(list[i]) => list[i].corr # d

\* While a result waits to be added, the placeholder is gone for good.
Decoding ==
  \A j \in poJobs :
    j.drone \notin poCrossed /\ j.result # None =>
       j.result = PO!Full /\ NoPlaceholder(poPositions, j.drone)

\* What AddFallback adds.
Waits(t) == Proper(t) /\ PO!Placeholder(t) /\ t.corr = t.drone

PositionsInv ==
  /\ PO!TypeOK /\ Orderly(poPositions, poCrossed) /\ Decoding
  /\ poLine # None => Waits(poLine)

\* b is a with rows left out, each being the one of a that f says.
Picks(f, b, a, n) ==
  /\ f \in [1..Len(b) -> 1..n]
  /\ \A i \in 1..Len(b) : b[i] = a[f[i]]
  /\ \A i, k \in 1..Len(b) : f[i] = f[k] => i = k
Thins(b, a) ==
  b \in Seq(PO!Targets) /\ Len(b) <= Len(a) /\ \E f : Picks(f, b, a, Len(a))

-----------------------------------------------------------------------------
LEMMA ThinsSelf == ASSUME NEW a \in Seq(PO!Targets) PROVE Thins(a, a)
<1> DEFINE f == [i \in 1..Len(a) |-> i]
<1>1. Picks(f, a, a, Len(a))
  BY DEF Picks
<1> HIDE DEF f
<1> QED BY <1>1 DEF Thins

LEMMA ThinsOrderly ==
  ASSUME NEW a, NEW b, NEW crossed, Orderly(a, crossed), Thins(b, a)
  PROVE  Orderly(b, crossed)
<1>1. PICK f : Picks(f, b, a, Len(a))
  BY DEF Thins
<1>2. /\ \A i \in 1..Len(b) : f[i] \in 1..Len(a) /\ b[i] = a[f[i]]
      /\ \A i, k \in 1..Len(b) : f[i] = f[k] => i = k
  BY <1>1 DEF Picks
<1>3. \A i \in 1..Len(b) : Proper(b[i]) /\ Own(b[i], crossed)
  BY <1>2 DEF Orderly
<1>4. ASSUME NEW i \in 1..Len(b), NEW k \in 1..Len(b), b[i].drone \notin crossed
      PROVE  (Alike(b[i], b[k]) => i = k) /\ ~Clash(b[i], b[k])
  BY <1>2, <1>4 DEF Orderly
<1> QED BY <1>3, <1>4 DEF Orderly

LEMMA ThinsFits ==
  ASSUME NEW a, NEW b, NEW t, NEW crossed, Fits(a, t, crossed), Thins(b, a)
  PROVE  Fits(b, t, crossed)
<1>1. PICK f : Picks(f, b, a, Len(a))
  BY DEF Thins
<1>2. \A i \in 1..Len(b) : f[i] \in 1..Len(a) /\ b[i] = a[f[i]]
  BY <1>1 DEF Picks
<1> QED BY <1>2 DEF Fits

LEMMA ThinsNone ==
  ASSUME NEW a, NEW b, NEW d, NoPlaceholder(a, d), Thins(b, a)
  PROVE  NoPlaceholder(b, d)
<1>1. PICK f : Picks(f, b, a, Len(a))
  BY DEF Thins
<1>2. \A i \in 1..Len(b) : f[i] \in 1..Len(a) /\ b[i] = a[f[i]]
  BY <1>1 DEF Picks
<1> QED BY <1>2 DEF NoPlaceholder

LEMMA RemoveThins ==
  ASSUME NEW a \in Seq(PO!Targets), NEW n \in 1..Len(a)
  PROVE  /\ Thins(PO!RemoveAt(a, n), a)
         /\ Len(PO!RemoveAt(a, n)) = Len(a) - 1
         /\ \A i \in 1..Len(PO!RemoveAt(a, n)) :
              \E k \in 1..Len(a) \ {n} : PO!RemoveAt(a, n)[i] = a[k]
<1> DEFINE b == PO!RemoveAt(a, n)
           f == [i \in 1..Len(b) |-> IF i < n THEN i ELSE i + 1]
           s == SubSeq(a, 1, n - 1)
           r == SubSeq(a, n + 1, Len(a))
<1>a. /\ s \in Seq(PO!Targets) /\ Len(s) = n - 1
      /\ \A i \in 1..(n - 1) : s[i] = a[i]
  OBVIOUS
<1>b. /\ r \in Seq(PO!Targets) /\ Len(r) = Len(a) - n
      /\ \A i \in 1..(Len(a) - n) : r[i] = a[n + i]
  OBVIOUS
<1>c. b = s \o r
  BY DEF PO!RemoveAt
<1> HIDE DEF s, r
<1>1. b \in Seq(PO!Targets) /\ Len(b) = Len(a) - 1
  BY <1>a, <1>b, <1>c
<1>2. \A i \in 1..Len(b) : b[i] = a[IF i < n THEN i ELSE i + 1]
  <2> TAKE i \in 1..Len(b)
  <2>1. b[i] = IF i <= Len(s) THEN s[i] ELSE r[i - Len(s)]
    BY <1>a, <1>b, <1>c
  <2>2. CASE i < n
    BY <1>a, <2>1, <2>2
  <2>3. CASE ~(i < n)
    <3>1. i - (n - 1) \in 1..(Len(a) - n) /\ n + (i - (n - 1)) = i + 1
      BY <1>1, <2>3
    <3>2. r[i - (n - 1)] = a[n + (i - (n - 1))]
      BY <1>b, <3>1
    <3> QED BY <1>a, <2>1, <2>3, <3>1, <3>2
  <2> QED BY <2>2, <2>3
<1>3. f \in [1..Len(b) -> 1..Len(a)]
  BY <1>1
<1>4. \A i \in 1..Len(b) : b[i] = a[f[i]] /\ f[i] # n
  BY <1>1, <1>2
<1>5. \A i, k \in 1..Len(b) : f[i] = f[k] => i = k
  BY <1>1
<1> HIDE DEF f, b
<1>6. Thins(b, a)
  BY <1>1, <1>3, <1>4, <1>5 DEF Thins, Picks
<1>7. \A i \in 1..Len(b) : f[i] \in 1..Len(a) \ {n} /\ b[i] = a[f[i]]
  BY <1>3, <1>4
<1> QED BY <1>1, <1>6, <1>7 DEF b

\* What prunePositionsLocked keeps.
KeptBy(a, at, f) ==
  /\ f \in [0..Len(a) -> Seq(PO!Targets)]
  /\ f[0] = <<>> /\ PO!Prune(a, at) = f[Len(a)]
  /\ \A n \in 1..Len(a) : f[n] = PO!KeepLive(f[n - 1], a[n], at)

LEMMA PruneSteps ==
  ASSUME NEW a \in Seq(PO!Targets), NEW at
  PROVE  \E f : KeptBy(a, at, f)
<1> DEFINE m == Len(a)
           A == Seq(PO!Targets)
           step == [n \in 1..m |-> [s \in A |-> PO!KeepLive(s, a[n], at)]]
           body(f) == [n \in 0..m |->
                        IF n = 0 THEN <<>>
                        ELSE PO!KeepLive(f[n - 1], a[n], at)]
<1>1. \A n \in 1..m : a[n] \in PO!Targets
  OBVIOUS
<1>2. step \in [1..m -> [A -> A]]
  BY <1>1 DEF PO!KeepLive
<1>3. m \in Nat /\ <<>> \in A
  OBVIOUS
<1>4. PICK f \in [0..m -> A] : f[0] = <<>> /\ \A n \in 1..m : f[n] = step[n][f[n - 1]]
  <2> HIDE DEF step, m, A
  <2>1. Stepwise(A, <<>>, m, step)
    BY <1>2, <1>3 DEF Stepwise
  <2>2. HasSteps(A, <<>>, m, step)
    BY ONLY <2>1, RecursionFor, Zenon
  <2> QED BY <2>2 DEF HasSteps
<1>5. \A n \in 1..m : f[n - 1] \in A
  BY <1>4, <1>3
<1>6. \A n \in 1..m : f[n] = PO!KeepLive(f[n - 1], a[n], at)
  BY <1>4, <1>5
<1>7. f = body(f)
  BY <1>4, <1>6, <1>3
<1>8. \E g : g = body(g)
  BY <1>7
<1> DEFINE c == CHOOSE g : g = body(g)
<1>9. c = body(c)
  BY <1>8
<1>10. PO!Prune(a, at) = c[m]
  BY DEF PO!Prune
<1> HIDE DEF c
<1>11. \A n \in Nat : n <= m => c[n] = f[n]
  <2> DEFINE R == {n \in Nat : n <= m => c[n] = f[n]}
  <2>1. 0 \in R
    BY <1>4, <1>9, <1>3
  <2>2. ASSUME NEW n \in Nat, n \in R PROVE n + 1 \in R
    <3> SUFFICES ASSUME n + 1 <= m PROVE c[n + 1] = f[n + 1]
      OBVIOUS
    <3>1. n + 1 \in 0..m /\ n + 1 \in 1..m /\ n + 1 # 0 /\ (n + 1) - 1 = n
      BY <1>3
    <3>2. c[n] = f[n]
      BY <2>2, <3>1
    <3>3. c[n + 1] = PO!KeepLive(c[n], a[n + 1], at)
      BY <1>9, <3>1
    <3> QED BY <1>6, <3>1, <3>2, <3>3
  <2>3. Nat \subseteq R
    <3> HIDE DEF R
    <3> QED BY <2>1, <2>2, SetInduction
  <2> QED BY <2>3
<1>12. PO!Prune(a, at) = f[m]
  BY <1>3, <1>10, <1>11
<1> QED BY <1>4, <1>6, <1>12 DEF KeptBy

\* b consists of rows among the first n of a.
Among(b, a, n) ==
  b \in Seq(PO!Targets) /\ Len(b) <= n /\ \E f : Picks(f, b, a, n)

LEMMA KeepAmong ==
  ASSUME NEW a \in Seq(PO!Targets), NEW n \in 1..Len(a), NEW at, NEW b, Among(b, a, n - 1)
  PROVE  Among(PO!KeepLive(b, a[n], at), a, n)
<1>1. /\ b \in Seq(PO!Targets) /\ Len(b) <= n - 1 /\ Len(b) \in Nat
  BY DEF Among
<1>2. PICK f : Picks(f, b, a, n - 1)
  BY DEF Among
<1>3. CASE PO!KeepLive(b, a[n], at) = b
  <2>1. Picks(f, b, a, n)
    BY <1>1, <1>2 DEF Picks
  <2>2. Among(b, a, n)
    BY <1>1, <2>1 DEF Among
  <2> QED BY <1>3, <2>2
<1>4. CASE PO!KeepLive(b, a[n], at) = Append(b, a[n])
  <2> DEFINE m == Len(b)
             g == [i \in 1..(m + 1) |-> IF i <= m THEN f[i] ELSE n]
  <2>1. /\ Append(b, a[n]) \in Seq(PO!Targets) /\ Len(Append(b, a[n])) = m + 1 /\ m + 1 <= n
        /\ \A i \in 1..m : Append(b, a[n])[i] = b[i]
        /\ Append(b, a[n])[m + 1] = a[n]
    BY <1>1
  <2>a. f \in [1..m -> 1..(n - 1)] /\ m \in Nat
    BY <1>1, <1>2 DEF Picks
  <2>b. \A i \in 1..m : i \in 1..(m + 1) /\ i <= m /\ f[i] \in 1..(n - 1)
    BY <2>a
  <2>2. \A i \in 1..m : g[i] = f[i] /\ f[i] \in 1..(n - 1)
    BY <2>b
  <2>3. g[m + 1] = n
    BY <1>1
  <2>4. g \in [1..(m + 1) -> 1..n]
    <3> SUFFICES ASSUME NEW i \in 1..(m + 1) PROVE (IF i <= m THEN f[i] ELSE n) \in 1..n
      OBVIOUS
    <3>1. CASE i <= m
      <4>1. i \in 1..m
        BY <2>a, <3>1
      <4>2. f[i] \in 1..(n - 1)
        BY <2>b, <4>1
      <4> QED BY <3>1, <4>2
    <3>2. CASE ~(i <= m)
      BY <3>2
    <3> QED BY <3>1, <3>2
  <2>5. \A i \in 1..(m + 1) : i \in 1..m \/ i = m + 1
    BY <1>1
  <2> HIDE DEF g
  <2>6. \A i \in 1..(m + 1) : Append(b, a[n])[i] = a[g[i]]
    BY <1>2, <2>1, <2>2, <2>3, <2>5 DEF Picks
  <2>7. \A i \in 1..m : g[i] # n
    BY <2>2
  <2>8. \A i, k \in 1..(m + 1) : g[i] = g[k] => i = k
    BY <1>2, <2>2, <2>3, <2>5, <2>7 DEF Picks
  <2>9. Picks(g, Append(b, a[n]), a, n)
    BY <2>1, <2>4, <2>6, <2>8 DEF Picks
  <2> QED BY <1>4, <2>1, <2>9 DEF Among
<1> QED BY <1>3, <1>4 DEF PO!KeepLive

LEMMA PruneThins ==
  ASSUME NEW a \in Seq(PO!Targets), NEW at
  PROVE  Thins(PO!Prune(a, at), a)
<1>1. PICK f : KeptBy(a, at, f)
  BY PruneSteps
<1> DEFINE R == {n \in Nat : n <= Len(a) => Among(f[n], a, n)}
<1>2. 0 \in R
  <2> DEFINE g == [i \in 1..0 |-> i]
  <2>1. f[0] = <<>> /\ Len(<<>>) = 0 /\ <<>> \in Seq(PO!Targets)
    BY <1>1 DEF KeptBy
  <2>2. Picks(g, <<>>, a, 0)
    BY <2>1 DEF Picks
  <2>3. Among(<<>>, a, 0)
    BY <2>1, <2>2 DEF Among
  <2> QED BY <2>1, <2>3
<1>3. ASSUME NEW n \in Nat, n \in R PROVE n + 1 \in R
  <2> SUFFICES ASSUME n + 1 <= Len(a) PROVE Among(f[n + 1], a, n + 1)
    OBVIOUS
  <2> DEFINE h == n + 1
  <2>1. h \in 1..Len(a) /\ h - 1 = n /\ n <= Len(a)
    OBVIOUS
  <2>2. Among(f[h - 1], a, h - 1)
    BY <1>3, <2>1
  <2>3. f[h] = PO!KeepLive(f[h - 1], a[h], at)
    BY <1>1, <2>1 DEF KeptBy
  <2> HIDE DEF h
  <2>4. Among(f[h], a, h)
    BY <2>1, <2>2, <2>3, KeepAmong
  <2> QED BY <2>4 DEF h
<1>4. Nat \subseteq R
  <2> HIDE DEF R
  <2> QED BY <1>2, <1>3, SetInduction
<1>5. Among(f[Len(a)], a, Len(a))
  BY <1>4
<1> QED BY <1>1, <1>5 DEF KeptBy, Among, Thins

LEMMA FirstFound ==
  ASSUME NEW m \in Nat, NEW S \in SUBSET (1..m)
  PROVE  IF S = {} THEN PO!First(S) = 0 ELSE PO!First(S) \in S
<1>1. CASE S = {}
  BY <1>1 DEF PO!First
<1>2. CASE S # {}
  <2>1. IsWellFoundedOn(OpToRel(<, Nat), Nat)
    BY NatLessThanWellFounded
  <2>2. S \subseteq Nat
    OBVIOUS
  <2>3. PICK x \in S : \A y \in S : ~(<<y, x>> \in OpToRel(<, Nat))
    BY <1>2, <2>1, <2>2, WFMin
  <2>4. \A y \in S : x <= y
    <3> SUFFICES ASSUME NEW y \in S, y < x PROVE FALSE
      BY <2>2
    <3>1. <<y, x>> \in OpToRel(<, Nat)
      BY <2>2 DEF OpToRel
    <3> QED BY <2>3, <3>1
  <2> QED BY <1>2, <2>4 DEF PO!First, PO!Min
<1> QED BY <1>1, <1>2

-----------------------------------------------------------------------------
(* What merging two reports of one drone makes of them.                      *)

LEMMA Merged ==
  ASSUME NEW a \in PO!Targets, NEW b \in PO!Targets
  PROVE  /\ PO!Merge(a, b) \in PO!Targets
         /\ PO!Merge(a, b).corr = IF b.corr = None THEN a.corr ELSE b.corr
         /\ \E s \in {a, b} :
              /\ PO!Merge(a, b).drone = s.drone /\ PO!Merge(a, b).temp = s.temp
              /\ ~PO!KeepDecoded(a, b) /\ PO!TakeSerial(a, b) => s = b
         /\ PO!KeepDecoded(a, b) =>
              /\ PO!Merge(a, b).plain = a.plain /\ PO!Merge(a, b).did = a.did
              /\ PO!Merge(a, b).cracked = a.cracked
         /\ ~PO!KeepDecoded(a, b) =>
              /\ PO!Merge(a, b).plain = (a.plain \/ b.plain) /\ PO!Merge(a, b).did = b.did
              /\ PO!Merge(a, b).cracked = (a.cracked \/ b.cracked)
<1> DEFINE keep == PO!KeepDecoded(a, b)
           s == IF ~keep /\ PO!TakeSerial(a, b) THEN b ELSE a
           c == IF b.corr = None THEN a.corr ELSE b.corr
           p == a.plain \/ (~keep /\ b.plain)
           i == IF keep THEN a.did ELSE b.did
           r == a.cracked \/ (~keep /\ b.cracked)
           l == PO!Later(a.seen, b.seen)
<1>1. l \in 0..MaxTime
  BY DEF PO!Later, PO!Targets
<1>2. s \in PO!Targets /\ s \in {a, b} /\ (~keep /\ PO!TakeSerial(a, b) => s = b)
  OBVIOUS
<1>3. c \in Drones \cup Uuids \cup {None} /\ p \in BOOLEAN /\ i \in BOOLEAN /\ r \in BOOLEAN
  BY DEF PO!Targets
<1>4. keep => p = a.plain /\ i = a.did /\ r = a.cracked
  BY DEF PO!Targets
<1>5. ~keep => p = (a.plain \/ b.plain) /\ i = b.did /\ r = (a.cracked \/ b.cracked)
  OBVIOUS
<1>6. PO!Merge(a, b) =
        [corr |-> c, drone |-> s.drone, temp |-> s.temp, plain |-> p, did |-> i,
         cracked |-> r, seen |-> l]
  BY DEF PO!Merge, PO!Target
<1>7. s.drone \in Drones /\ s.temp \in BOOLEAN
  BY <1>2 DEF PO!Targets
<1> HIDE DEF keep, s, p, i, r, l
<1>8. PO!Merge(a, b) \in PO!Targets
  BY <1>1, <1>3, <1>6, <1>7 DEF PO!Targets
<1> QED BY <1>2, <1>4, <1>5, <1>6, <1>8 DEF keep

\* What merging keeps, whoever the two are of.
LEMMA MergeSame ==
  ASSUME NEW a, NEW b, Proper(a), Proper(b), PO!Same(a, b)
  PROVE  /\ Proper(PO!Merge(a, b))
         /\ PO!Placeholder(a) = PO!Placeholder(b)
         /\ PO!Placeholder(PO!Merge(a, b)) = PO!Placeholder(a)
         /\ PO!Merge(a, b).corr = IF b.corr = None THEN a.corr ELSE b.corr
         /\ PO!Merge(a, b).drone \in {a.drone, b.drone}
         /\ PO!Merge(a, b).temp \in {a.temp, b.temp}
         /\ a.drone # b.drone => a.corr = b.corr /\ b.corr # None
<1>1. a \in PO!Targets /\ b \in PO!Targets
  BY DEF Proper
<1>2. /\ PO!Placeholder(a) = PO!Placeholder(b)
      /\ a.drone # b.drone => a.corr = b.corr /\ b.corr # None
  BY <1>1 DEF PO!Same
<1> DEFINE m == PO!Merge(a, b)
<1>4. /\ m \in PO!Targets
      /\ m.corr = IF b.corr = None THEN a.corr ELSE b.corr
      /\ m.drone \in {a.drone, b.drone} /\ m.temp \in {a.temp, b.temp}
      /\ PO!KeepDecoded(a, b) => m.plain = a.plain /\ m.did = a.did /\ m.cracked = a.cracked
      /\ ~PO!KeepDecoded(a, b) =>
           /\ m.plain = (a.plain \/ b.plain) /\ m.did = b.did
           /\ m.cracked = (a.cracked \/ b.cracked)
  BY <1>1, Merged
<1> HIDE DEF m
<1>5. Proper(m)
  BY <1>1, <1>4 DEF Proper
<1>6. PO!Placeholder(m) = PO!Placeholder(a)
  <2>1. CASE PO!KeepDecoded(a, b)
    BY <1>4, <2>1 DEF PO!Placeholder, PO!KeepDecoded
  <2>2. CASE ~PO!KeepDecoded(a, b)
    <3>1. a.plain \in BOOLEAN /\ b.plain \in BOOLEAN /\ a.cracked \in BOOLEAN /\ b.cracked \in BOOLEAN
          /\ a.did \in BOOLEAN /\ b.did \in BOOLEAN
      BY <1>1 DEF PO!Targets
    <3> QED BY <1>2, <1>4, <2>2, <3>1 DEF PO!Placeholder, Proper
  <2> QED BY <2>1, <2>2
<1> QED BY <1>2, <1>4, <1>5, <1>6 DEF m

LEMMA MergeDecoded ==
  ASSUME NEW a, NEW t, Proper(a), Proper(t), PO!Decoded(t), PO!Stand(t.corr, a)
  PROVE  /\ Proper(PO!Merge(a, t)) /\ PO!Merge(a, t).drone = t.drone
         /\ PO!Merge(a, t).corr = t.corr
         /\ ~PO!Merge(a, t).temp /\ ~PO!Placeholder(PO!Merge(a, t))
<1>1. a \in PO!Targets /\ t \in PO!Targets /\ t.corr # None
  BY DEF Proper, PO!Decoded
<1>3. ~PO!KeepDecoded(a, t) /\ PO!TakeSerial(a, t)
  BY <1>1 DEF PO!KeepDecoded, PO!TakeSerial, PO!Decoded, PO!Stand
<1> DEFINE m == PO!Merge(a, t)
<1>4. /\ m \in PO!Targets /\ m.corr = t.corr
      /\ m.drone = t.drone /\ m.temp = t.temp
      /\ m.plain = (a.plain \/ t.plain) /\ m.did = t.did
      /\ m.cracked = (a.cracked \/ t.cracked)
  <2>1. PICK s \in {a, t} :
          /\ m.drone = s.drone /\ m.temp = s.temp
          /\ ~PO!KeepDecoded(a, t) /\ PO!TakeSerial(a, t) => s = t
    BY <1>1, Merged
  <2>2. m.drone = t.drone /\ m.temp = t.temp
    BY <1>3, <2>1
  <2>3. /\ m \in PO!Targets /\ m.corr = IF t.corr = None THEN a.corr ELSE t.corr
        /\ ~PO!KeepDecoded(a, t) =>
             /\ m.plain = (a.plain \/ t.plain) /\ m.did = t.did
             /\ m.cracked = (a.cracked \/ t.cracked)
    BY <1>1, Merged
  <2> HIDE DEF m
  <2> QED BY <1>1, <1>3, <2>2, <2>3
<1> HIDE DEF m
<1>5. ~m.temp /\ m.cracked /\ m.did
  BY <1>1, <1>4 DEF PO!Decoded
<1> QED BY <1>4, <1>5 DEF Proper, PO!Placeholder, m

-----------------------------------------------------------------------------
(* What AddPosition makes of an orderly list.                                *)

\* The new list is in order, and has a placeholder only of who had one or of
\* the target put.
PutWell(b, a, t, crossed) ==
  /\ b \in Seq(PO!Targets) /\ Len(b) <= MaxPositions
  /\ Orderly(b, crossed)
  /\ \A d : NoPlaceholder(a, d) /\ ~(PO!Placeholder(t) /\ t.corr = d)
              => NoPlaceholder(b, d)

LEMMA AppendOrderly ==
  ASSUME NEW a \in Seq(PO!Targets), NEW crossed, NEW t, Orderly(a, crossed),
         Fits(a, t, crossed), \A i \in 1..Len(a) : ~PO!Same(a[i], t)
  PROVE  /\ Append(a, t) \in Seq(PO!Targets) /\ Len(Append(a, t)) = Len(a) + 1
         /\ Orderly(Append(a, t), crossed)
         /\ \A d : NoPlaceholder(a, d) /\ ~(PO!Placeholder(t) /\ t.corr = d)
              => NoPlaceholder(Append(a, t), d)
<1> DEFINE b == Append(a, t)
           n == Len(a)
<1>1. t \in PO!Targets /\ n \in Nat
  BY DEF Fits, Proper
<1>2. /\ b \in Seq(PO!Targets) /\ Len(b) = n + 1 /\ b[n + 1] = t
      /\ \A i \in 1..n : b[i] = a[i]
  BY <1>1
<1>3. \A i \in 1..(n + 1) : i \in 1..n \/ i = n + 1
  BY <1>1
<1>4. ASSUME NEW i \in 1..n, a[i].drone \notin crossed, Alike(a[i], t) PROVE FALSE
  <2>1. Proper(a[i]) /\ Own(a[i], crossed) /\ Proper(t) /\ Own(t, crossed)
    BY DEF Orderly, Fits
  <2>2. a[i] \in PO!Targets
    BY <2>1 DEF Proper
  <2>3. ~PO!Same(a[i], t) /\ a[i].drone = t.drone /\ PO!Placeholder(a[i]) = PO!Placeholder(t)
    BY <1>4 DEF Alike
  <2>4. CASE PO!Placeholder(t)
    <3>1. PO!Placeholder(a[i])
      BY <2>3, <2>4 DEF PO!Placeholder
    <3>2. a[i].corr = a[i].drone /\ t.corr = t.drone /\ a[i].corr # None
      BY <1>4, <2>4, <3>1 DEF Alike, PO!Apart, PO!Placeholder
    <3> QED BY <2>3, <3>2 DEF PO!Same
  <2>5. CASE ~PO!Placeholder(t)
    <3>1. ~PO!Placeholder(a[i])
      BY <2>3, <2>5 DEF PO!Placeholder
    <3>2. ~t.temp /\ ~a[i].temp
      BY <1>4, <2>1, <2>3, <2>5, <3>1 DEF Own
    <3>3. t.temp \in BOOLEAN /\ a[i].temp \in BOOLEAN
      BY <1>1, <2>2 DEF PO!Targets
    <3> QED BY <2>3, <3>2, <3>3 DEF PO!Same
  <2> QED BY <2>4, <2>5
<1>a. ASSUME NEW i \in 1..n, t.drone \notin crossed PROVE ~Clash(a[i], t) /\ ~Clash(t, a[i])
  BY <1>a DEF Fits
<1>b. ~Clash(t, t)
  BY DEF Clash
<1> HIDE DEF b, n
<1>5. \A i \in 1..(n + 1) : Proper(b[i]) /\ Own(b[i], crossed)
  BY <1>2, <1>3 DEF Orderly, Fits, n
<1>6. ASSUME NEW i \in 1..(n + 1), NEW k \in 1..(n + 1), b[i].drone \notin crossed
      PROVE  (Alike(b[i], b[k]) => i = k) /\ ~Clash(b[i], b[k])
  <2>1. CASE i \in 1..n /\ k \in 1..n
    BY <1>2, <1>6, <2>1 DEF Orderly, n
  <2>2. CASE i \in 1..n /\ k = n + 1
    <3>1. b[i] = a[i] /\ b[k] = t /\ a[i].drone \notin crossed
      BY <1>2, <1>6, <2>2
    <3>2. a[i].drone = t.drone => ~Clash(a[i], t)
      BY <1>a, <2>2, <3>1
    <3> QED BY <1>4, <2>2, <3>1, <3>2 DEF Clash
  <2>3. CASE i = n + 1 /\ k \in 1..n
    <3>1. b[k] = a[k] /\ b[i] = t /\ t.drone \notin crossed
      BY <1>2, <1>6, <2>3
    <3>2. Alike(t, a[k]) => Alike(a[k], t) /\ a[k].drone \notin crossed
      BY <3>1 DEF Alike
    <3> QED BY <1>4, <1>a, <2>3, <3>1, <3>2
  <2>4. CASE i = n + 1 /\ k = n + 1
    BY <1>2, <1>b, <2>4
  <2> QED BY <1>3, <2>1, <2>2, <2>3, <2>4
<1>7. ASSUME NEW d, NoPlaceholder(a, d), ~(PO!Placeholder(t) /\ t.corr = d)
      PROVE  NoPlaceholder(b, d)
  BY <1>2, <1>3, <1>7 DEF NoPlaceholder, n
<1> QED BY <1>2, <1>5, <1>6, <1>7 DEF Orderly, b, n

\* A row that takes in a report stands where it stood, unless its drone has crossed.
Stays(m, a, t) ==
  /\ m.drone = a.drone /\ m.drone = t.drone
  /\ PO!Apart(m) = PO!Apart(a) /\ PO!Apart(m) = PO!Apart(t)
  /\ PO!Placeholder(m) = PO!Placeholder(a) /\ PO!Placeholder(m) = PO!Placeholder(t)
  /\ a.temp /\ t.temp => m.temp

LEMMA MergeFits ==
  ASSUME NEW list, NEW n \in 1..Len(list), NEW crossed, NEW t,
         Orderly(list, crossed), Fits(list, t, crossed), PO!Same(list[n], t)
  PROVE  /\ Proper(PO!Merge(list[n], t)) /\ Own(PO!Merge(list[n], t), crossed)
         /\ PO!Placeholder(PO!Merge(list[n], t)) =>
              PO!Placeholder(t) /\ PO!Merge(list[n], t).corr = t.corr
         /\ PO!Merge(list[n], t).drone \notin crossed =>
              Stays(PO!Merge(list[n], t), list[n], t)
<1> DEFINE a == list[n]
           m == PO!Merge(a, t)
<1>1. /\ Proper(a) /\ Own(a, crossed) /\ Proper(t) /\ Own(t, crossed) /\ PO!Same(a, t)
      /\ t.corr # None /\ a.corr = t.corr /\ a.drone # t.drone
           => t.drone \in crossed /\ a.drone \in crossed
      /\ t.drone \notin crossed => ~Clash(a, t) /\ ~Clash(t, a)
  BY DEF Orderly, Fits
<1> HIDE DEF a
<1>2. /\ Proper(m)
      /\ PO!Placeholder(a) = PO!Placeholder(t) /\ PO!Placeholder(m) = PO!Placeholder(a)
      /\ m.corr = IF t.corr = None THEN a.corr ELSE t.corr
      /\ m.drone \in {a.drone, t.drone} /\ m.temp \in {a.temp, t.temp}
      /\ a.drone # t.drone => a.corr = t.corr /\ t.corr # None
  BY <1>1, MergeSame
<1>3. /\ a \in PO!Targets /\ t \in PO!Targets /\ m \in PO!Targets
  BY <1>1, <1>2 DEF Proper
<1> HIDE DEF m
<1>4. PO!Placeholder(m) => PO!Placeholder(t) /\ m.corr = t.corr
  <2>1. PO!Placeholder(m) => PO!Placeholder(t)
    BY <1>2 DEF PO!Placeholder
  <2>2. PO!Placeholder(t) => t.corr # None
    BY DEF PO!Placeholder
  <2> QED BY <1>2, <2>1, <2>2
<1>5. ASSUME m.drone \notin crossed PROVE Stays(m, a, t)
  <2>1. m.drone = a.drone /\ m.drone = t.drone
    BY <1>1, <1>2, <1>5
  <2>2. CASE ~PO!Placeholder(t)
    <3>1. ~PO!Placeholder(a) /\ ~PO!Placeholder(m)
      BY <1>2, <2>2 DEF PO!Placeholder
    <3>2. PO!Apart(m) = PO!Apart(a) /\ PO!Apart(m) = PO!Apart(t)
      BY <2>2, <3>1 DEF PO!Apart
    <3>3. a.temp /\ t.temp => m.temp
      BY <1>2
    <3>4. PO!Placeholder(m) = PO!Placeholder(a) /\ PO!Placeholder(m) = PO!Placeholder(t)
      BY <1>2
    <3> QED BY <2>1, <3>2, <3>3, <3>4, Zenon DEF Stays
  <2>3. CASE PO!Placeholder(t)
    <3>1. PO!Placeholder(a) /\ PO!Placeholder(m)
      BY <1>2, <2>3 DEF PO!Placeholder
    <3>2. m.corr = t.corr
      BY <1>4, <3>1
    <3>3. PO!Apart(a) => PO!Apart(t)
      <4> SUFFICES ASSUME PO!Apart(a), ~PO!Apart(t) PROVE FALSE
        OBVIOUS
      <4>1. t.temp
        BY <1>1, <1>5, <2>1, <2>3 DEF Clash
      <4>2. a.corr # t.corr
        BY <2>1, <2>3 DEF PO!Apart
      <4>3. a.temp = t.temp
        BY <1>1, <4>2 DEF PO!Same
      <4> QED BY <1>1, <1>5, <2>1, <4>1, <4>3 DEF Own
    <3>4. PO!Apart(t) => PO!Apart(a)
      <4> SUFFICES ASSUME PO!Apart(t), ~PO!Apart(a) PROVE FALSE
        OBVIOUS
      <4>1. a.temp
        BY <1>1, <1>5, <2>1, <3>1 DEF Clash
      <4>2. a.corr # t.corr
        BY <2>1, <3>1 DEF PO!Apart
      <4>3. a.temp = t.temp
        BY <1>1, <4>2 DEF PO!Same
      <4> QED BY <1>1, <1>5, <2>1, <4>1, <4>3 DEF Own
    <3>5. PO!Apart(m) = PO!Apart(t)
      BY <2>1, <2>3, <3>1, <3>2 DEF PO!Apart
    <3>6. PO!Apart(m) = PO!Apart(a)
      BY <3>3, <3>4, <3>5 DEF PO!Apart
    <3> QED BY <1>2, <2>1, <2>3, <3>1, <3>5, <3>6 DEF Stays
  <2> QED BY <2>2, <2>3
<1>6. Own(m, crossed)
  <2>1. ASSUME m.drone \notin crossed, m.temp PROVE PO!Placeholder(m) /\ ~PO!Apart(m)
    <3>1. Stays(m, a, t)
      BY <1>5, <2>1
    <3>2. CASE a.temp
      <4>1. PO!Placeholder(a) /\ ~PO!Apart(a)
        BY <1>1, <2>1, <3>1, <3>2 DEF Own, Stays
      <4> QED BY <3>1, <4>1 DEF Stays, PO!Apart
    <3>3. CASE t.temp
      <4>1. PO!Placeholder(t) /\ ~PO!Apart(t)
        BY <1>1, <2>1, <3>1, <3>3 DEF Own, Stays
      <4> QED BY <3>1, <4>1 DEF Stays, PO!Apart
    <3> QED BY <1>2, <2>1, <3>2, <3>3
  <2>2. ASSUME m.corr \in Drones, m.corr # m.drone PROVE m.corr \in crossed /\ m.drone \in crossed
    <3>1. CASE t.corr = None
      <4>1. a.drone = t.drone /\ m.corr = a.corr
        BY <1>2, <3>1
      <4> QED BY <1>1, <1>2, <2>2, <4>1 DEF Own
    <3>2. CASE t.corr # None /\ a.drone = t.drone
      BY <1>1, <1>2, <2>2, <3>2 DEF Own
    <3>3. CASE t.corr # None /\ a.drone # t.drone
      BY <1>1, <1>2, <2>2, <3>3 DEF Own
    <3> QED BY <3>1, <3>2, <3>3
  <2> QED BY <2>1, <2>2 DEF Own
<1> QED BY <1>2, <1>4, <1>5, <1>6 DEF m, a

Replaces(b, a, n, t) == b = [a EXCEPT ![n] = PO!Merge(a[n], t)]

LEMMA ReplaceOrderly ==
  ASSUME NEW a \in Seq(PO!Targets), NEW crossed, NEW t, NEW n \in 1..Len(a),
         Orderly(a, crossed), Fits(a, t, crossed), PO!Same(a[n], t),
         NEW b, Replaces(b, a, n, t)
  PROVE  /\ b \in Seq(PO!Targets) /\ Len(b) = Len(a)
         /\ Orderly(b, crossed)
         /\ \A d : NoPlaceholder(a, d) /\ ~(PO!Placeholder(t) /\ t.corr = d)
              => NoPlaceholder(b, d)
<1> DEFINE m == PO!Merge(a[n], t)
<1>0. b = [a EXCEPT ![n] = m]
  BY DEF Replaces
<1>1. /\ Proper(m) /\ Own(m, crossed)
      /\ PO!Placeholder(m) => PO!Placeholder(t) /\ m.corr = t.corr
      /\ m.drone \notin crossed => Stays(m, a[n], t)
  BY MergeFits
<1> HIDE DEF m
<1>2. m \in PO!Targets
  BY <1>1 DEF Proper
<1>3. /\ b \in Seq(PO!Targets) /\ Len(b) = Len(a) /\ b[n] = m
      /\ \A i \in 1..Len(a) : i # n => b[i] = a[i]
  BY <1>0, <1>2
<1>4. \A i \in 1..Len(a) : Proper(b[i]) /\ Own(b[i], crossed)
  BY <1>1, <1>3 DEF Orderly
<1>5. \A i \in 1..Len(a) : b[i].drone \notin crossed =>
        /\ b[i].drone = a[i].drone /\ PO!Apart(b[i]) = PO!Apart(a[i])
        /\ PO!Placeholder(b[i]) = PO!Placeholder(a[i])
  BY <1>1, <1>3 DEF Stays
<1>6. ASSUME NEW i \in 1..Len(a), NEW k \in 1..Len(a), b[i].drone \notin crossed,
             Alike(b[i], b[k])
      PROVE  i = k
  <2>1. b[k].drone \notin crossed
    BY <1>6 DEF Alike
  <2>2. Alike(a[i], a[k]) /\ a[i].drone \notin crossed
    BY <1>5, <1>6, <2>1 DEF Alike
  <2> QED BY <2>2 DEF Orderly
<1>7. ASSUME NEW i \in 1..Len(a), NEW k \in 1..Len(a), b[i].drone \notin crossed,
             Clash(b[i], b[k])
      PROVE  FALSE
  <2>1. b[k].drone \notin crossed
    BY <1>7 DEF Clash
  <2>2. /\ a[i].drone = a[k].drone /\ a[i].drone \notin crossed /\ PO!Apart(a[i])
        /\ PO!Placeholder(a[k]) /\ ~PO!Apart(a[k]) /\ a[k].drone = b[k].drone
    BY <1>5, <1>7, <2>1 DEF Clash
  <2>3. ~Clash(a[i], a[k])
    BY <2>2 DEF Orderly
  <2>4. a[k].temp
    BY <2>2, <2>3 DEF Clash
  <2>5. k = n
    BY <1>3, <1>7, <2>4 DEF Clash
  <2>6. Stays(m, a[n], t) /\ ~m.temp
    BY <1>1, <1>3, <1>7, <2>1, <2>5 DEF Clash
  <2>7. ~t.temp /\ a[i].drone = t.drone /\ PO!Placeholder(t) /\ ~PO!Apart(t)
    BY <1>3, <2>2, <2>4, <2>5, <2>6 DEF Stays, PO!Apart
  <2>8. Clash(a[i], t) /\ t.drone \notin crossed
    BY <2>2, <2>7 DEF Clash
  <2> QED BY <2>8 DEF Fits
<1>8. Orderly(b, crossed)
  BY <1>3, <1>4, <1>6, <1>7 DEF Orderly
<1>9. \A d : NoPlaceholder(a, d) /\ ~(PO!Placeholder(t) /\ t.corr = d)
              => NoPlaceholder(b, d)
  BY <1>1, <1>3 DEF NoPlaceholder
<1> QED BY <1>3, <1>8, <1>9

\* trimNewestPositions leaves out rows.
LEMMA TrimThins ==
  ASSUME NEW l \in Seq(PO!Targets), NEW b \in PO!Trim(l)
  PROVE  Thins(b, l) /\ Len(b) <= MaxPositions
<1>1. MaxPositions \in Nat /\ Len(l) \in Nat
  BY StationConstants DEF PO!PositionConstants
<1>2. CASE Len(l) <= MaxPositions
  <2>1. b = l
    BY <1>2 DEF PO!Trim
  <2> QED BY <1>2, <2>1, ThinsSelf
<1>3. CASE ~(Len(l) <= MaxPositions)
  <2>1. PICK p \in PO!Newest(l) : b = [i \in 1..MaxPositions |-> l[p[i]]]
    BY <1>3 DEF PO!Trim
  <2>2. /\ p \in [1..Len(l) -> 1..Len(l)]
        /\ \A i, k \in 1..Len(l) : i < k => p[i] # p[k]
    BY DEF PO!Newest
  <2>3. \A i \in 1..MaxPositions : i \in 1..Len(l) /\ p[i] \in 1..Len(l)
    BY <1>1, <1>3, <2>2
  <2>4. \A i \in 1..MaxPositions : l[p[i]] \in PO!Targets
    BY <2>3
  <2>5. b \in Seq(PO!Targets) /\ Len(b) = MaxPositions
    BY <1>1, <2>1, <2>4
  <2> DEFINE f == [i \in 1..MaxPositions |-> p[i]]
  <2>6. f \in [1..Len(b) -> 1..Len(l)] /\ \A i \in 1..Len(b) : b[i] = l[f[i]]
    BY <2>1, <2>3, <2>5
  <2>7. \A i, k \in 1..Len(b) : f[i] = f[k] => i = k
    <3> SUFFICES ASSUME NEW i \in 1..Len(b), NEW k \in 1..Len(b), p[i] = p[k] PROVE i = k
      BY <2>5
    <3>1. i \in 1..Len(l) /\ k \in 1..Len(l)
      BY <2>3, <2>5
    <3>2. ~(i < k) /\ ~(k < i)
      BY <2>2, <3>1
    <3> QED BY <3>1, <3>2
  <2> HIDE DEF f
  <2>8. Picks(f, b, l, Len(l))
    BY <2>6, <2>7 DEF Picks
  <2> QED BY <1>1, <1>3, <2>5, <2>8 DEF Thins
<1> QED BY <1>2, <1>3

LEMMA PutOrderly ==
  ASSUME NEW a \in Seq(PO!Targets), NEW crossed, NEW t, NEW b \in PO!Put(a, t),
         Len(a) <= MaxPositions, Orderly(a, crossed), Fits(a, t, crossed)
  PROVE  PutWell(b, a, t, crossed)
<1> DEFINE S == {k \in DOMAIN a : PO!Same(a[k], t)}
           n == PO!First(S)
           l == Append(a, t)
<1>1. MaxPositions \in Nat \ {0} /\ Len(a) \in Nat /\ S \subseteq 1..Len(a)
  BY StationConstants DEF PO!PositionConstants
<1>2. IF S = {} THEN n = 0 ELSE n \in S
  <2> HIDE DEF S
  <2> QED BY <1>1, FirstFound
<1>3. b \in IF n = 0 THEN PO!Trim(l) ELSE {[a EXCEPT ![n] = PO!Merge(@, t)]}
  BY DEF PO!Put
<1>4. CASE S = {}
  <2>1. \A i \in 1..Len(a) : ~PO!Same(a[i], t)
    BY <1>4
  <2>2. /\ l \in Seq(PO!Targets) /\ Len(l) = Len(a) + 1 /\ Orderly(l, crossed)
        /\ \A d : NoPlaceholder(a, d) /\ ~(PO!Placeholder(t) /\ t.corr = d)
              => NoPlaceholder(l, d)
    BY <2>1, AppendOrderly
  <2>3. b \in PO!Trim(l)
    BY <1>2, <1>3, <1>4
  <2> HIDE DEF l, S, n
  <2>4. Thins(b, l) /\ Len(b) <= MaxPositions
    BY <2>2, <2>3, TrimThins
  <2>5. Orderly(b, crossed) /\ b \in Seq(PO!Targets)
    BY <2>2, <2>4, ThinsOrderly DEF Thins
  <2> QED BY <2>2, <2>4, <2>5, ThinsNone DEF PutWell
<1>5. CASE S # {}
  <2>1. n \in 1..Len(a) /\ PO!Same(a[n], t)
    BY <1>2, <1>5
  <2>2. Replaces(b, a, n, t)
    BY <1>3, <2>1 DEF Replaces
  <2> HIDE DEF n, S
  <2>3. /\ b \in Seq(PO!Targets) /\ Len(b) = Len(a) /\ Orderly(b, crossed)
        /\ \A d : NoPlaceholder(a, d) /\ ~(PO!Placeholder(t) /\ t.corr = d)
              => NoPlaceholder(b, d)
    BY <2>1, <2>2, ReplaceOrderly
  <2> QED BY <2>3 DEF PutWell
<1> QED BY <1>4, <1>5

LEMMA AddOrderly ==
  ASSUME NEW a \in Seq(PO!Targets), NEW crossed, NEW t, NEW b \in PO!Add(a, t),
         Len(a) <= MaxPositions, Orderly(a, crossed), Fits(a, t, crossed)
  PROVE  PutWell(b, a, t, crossed)
<1> DEFINE live == PO!Prune(a, t.seen)
           n == PO!AbsorbAt(live, t)
           rest == PO!RemoveAt(live, n)
           m == PO!Merge(live[n], t)
<1>1. b \in IF n = 0 THEN PO!Put(live, t) ELSE PO!Put(rest, m)
  BY DEF PO!Add
<1>2. MaxPositions \in Nat /\ Len(a) \in Nat
  BY StationConstants DEF PO!PositionConstants
<1>3. Thins(live, a)
  BY PruneThins
<1> HIDE DEF live
<1>4. /\ live \in Seq(PO!Targets) /\ Len(live) <= MaxPositions /\ Orderly(live, crossed)
      /\ Fits(live, t, crossed)
  BY <1>2, <1>3, ThinsOrderly, ThinsFits DEF Thins
<1>5. CASE n = 0
  <2>1. PutWell(b, live, t, crossed)
    BY <1>1, <1>4, <1>5, PutOrderly
  <2> QED BY <1>3, <2>1, ThinsNone DEF PutWell
<1>6. CASE n # 0
  <2> DEFINE S == {i \in DOMAIN live : PO!Stand(t.corr, live[i])}
  <2>1. PO!Decoded(t) /\ n = PO!First(S)
    BY <1>6 DEF PO!AbsorbAt
  <2>2. Len(live) \in Nat /\ S \subseteq 1..Len(live)
    BY <1>4
  <2>3. n \in S
    <3> HIDE DEF S, n
    <3> QED BY <1>6, <2>1, <2>2, FirstFound
  <2>4. n \in 1..Len(live) /\ PO!Stand(t.corr, live[n])
    BY <2>2, <2>3
  <2> HIDE DEF n, S
  <2>5. Proper(live[n]) /\ Proper(t) /\ Own(t, crossed)
    BY <1>4, <2>4 DEF Orderly, Fits
  <2>6. /\ Proper(m) /\ m.drone = t.drone /\ m.corr = t.corr
        /\ ~m.temp /\ ~PO!Placeholder(m)
    BY <2>1, <2>4, <2>5, MergeDecoded
  <2>7. Thins(rest, live) /\ Len(rest) = Len(live) - 1
    BY <1>4, <2>4, RemoveThins
  <2> HIDE DEF rest, m
  <2>8. /\ rest \in Seq(PO!Targets) /\ Len(rest) <= MaxPositions
        /\ Orderly(rest, crossed) /\ Fits(rest, t, crossed)
    BY <1>2, <1>4, <2>7, ThinsOrderly, ThinsFits DEF Thins
  <2>9. Fits(rest, m, crossed)
    <3>1. Own(m, crossed)
      BY <2>5, <2>6 DEF Own
    <3>2. \A x : ~Clash(x, m) /\ ~Clash(m, x)
      BY <2>6 DEF Clash, PO!Apart
    <3> QED BY <2>6, <2>8, <3>1, <3>2 DEF Fits
  <2>10. PutWell(b, rest, m, crossed)
    BY <1>1, <1>6, <2>8, <2>9, PutOrderly
  <2> QED BY <1>3, <2>6, <2>7, <2>10, ThinsNone DEF PutWell
<1> QED BY <1>5, <1>6

-----------------------------------------------------------------------------
(* The actions.                                                              *)

\* The invariant after a step, from what the step does to the list and to what
\* waits.
LEMMA PositionsGo ==
  ASSUME PositionsInv, poNow' \in 0..MaxTime, poLines' \in 0..MaxLines,
         poCrossed' \subseteq Drones, poCrossed \subseteq poCrossed',
         poPositions' \in Seq(PO!Targets), Len(poPositions') <= MaxPositions,
         Orderly(poPositions', poCrossed'),
         poLine' # None => Waits(poLine'),
         poLine' \in PO!Targets \cup {None},
         poJobs' \subseteq [drone : Drones, at : 0..MaxTime, result : PO!Results \cup {None}],
         Decoding'
  PROVE  PositionsInv'
BY DEF PositionsInv, PO!TypeOK

\* An orderly list stays so when more drones are left out.
LEMMA CrossedGrows ==
  ASSUME NEW list, NEW old, NEW new, old \subseteq new, Orderly(list, old)
  PROVE  Orderly(list, new)
BY DEF Orderly, Own

\* A target is put on the list, and the results that wait stay as they are, unless it
\* is a placeholder of their drones, which then have crossed.
LEMMA AddStepOf ==
  ASSUME PositionsInv, NEW t, poPositions' \in PO!Add(poPositions, t),
         poCrossed \subseteq poCrossed', Fits(poPositions, t, poCrossed'),
         \A j \in poJobs' : j.result # None => j \in poJobs,
         PO!Placeholder(t) => \A j \in poJobs' :
              j.result # None /\ j.drone = t.corr => j.drone \in poCrossed'
  PROVE  /\ poPositions' \in Seq(PO!Targets) /\ Len(poPositions') <= MaxPositions
         /\ Orderly(poPositions', poCrossed') /\ Decoding'
<1>1. /\ poPositions \in Seq(PO!Targets) /\ Len(poPositions) <= MaxPositions
      /\ Orderly(poPositions, poCrossed')
  BY CrossedGrows DEF PositionsInv, PO!TypeOK
<1>2. PutWell(poPositions', poPositions, t, poCrossed')
  BY <1>1, AddOrderly
<1>3. ASSUME NEW j \in poJobs', j.drone \notin poCrossed', j.result # None
      PROVE  j.result = PO!Full /\ NoPlaceholder(poPositions', j.drone)
  <2>1. j.result = PO!Full /\ NoPlaceholder(poPositions, j.drone)
    BY <1>3 DEF PositionsInv, Decoding
  <2>2. ~(PO!Placeholder(t) /\ t.corr = j.drone)
    BY <1>3
  <2> QED BY <1>2, <2>1, <2>2 DEF PutWell
<1> QED BY <1>2, <1>3 DEF PutWell, Decoding

LEMMA PruneStepOf ==
  ASSUME PositionsInv, NEW at, poPositions' = PO!Prune(poPositions, at),
         poCrossed' = poCrossed, \A j \in poJobs' : j.result # None => j \in poJobs
  PROVE  /\ poPositions' \in Seq(PO!Targets) /\ Len(poPositions') <= MaxPositions
         /\ Orderly(poPositions', poCrossed') /\ Decoding'
<1>1. poPositions \in Seq(PO!Targets) /\ Len(poPositions) <= MaxPositions
      /\ Orderly(poPositions, poCrossed) /\ MaxPositions \in Nat
  BY StationConstants DEF PositionsInv, PO!TypeOK, PO!PositionConstants
<1>2. Thins(poPositions', poPositions)
  BY <1>1, PruneThins
<1>3. poPositions' \in Seq(PO!Targets) /\ Len(poPositions') <= Len(poPositions)
  BY <1>2 DEF Thins
<1>4. Orderly(poPositions', poCrossed')
  BY <1>1, <1>2, ThinsOrderly
<1>5. ASSUME NEW j \in poJobs', j.drone \notin poCrossed', j.result # None
      PROVE  j.result = PO!Full /\ NoPlaceholder(poPositions', j.drone)
  BY <1>2, <1>5, ThinsNone DEF PositionsInv, Decoding
<1> QED BY <1>1, <1>3, <1>4, <1>5 DEF Decoding

LEMMA LinesAre ==
  ASSUME PositionsInv, NEW d \in Drones, NEW packet \in BOOLEAN
  PROVE  /\ \A t \in PO!RIDTargets(d) \cup PO!GB46750Targets(d) :
              Proper(t) /\ ~t.temp /\ ~PO!Placeholder(t) /\ t.corr = None /\ t.drone = d
         /\ \A t \in PO!SerialOnlyTargets(d, packet) \cup PO!DJITargets(d, packet) :
              Proper(t) /\ ~t.temp /\ t.drone = d /\ (t.corr \in Drones => t.corr = d)
<1>1. /\ poNow \in 0..MaxTime /\ None \notin Drones
      /\ \A u \in Uuids : u \notin Drones
  BY StationConstants DEF PositionsInv, PO!TypeOK, PO!PositionConstants
<1>2. ASSUME NEW t \in PO!RIDTargets(d)
      PROVE  Proper(t) /\ ~t.temp /\ ~PO!Placeholder(t) /\ t.corr = None /\ t.drone = d
  <2>1. PICK plain \in BOOLEAN : t = PO!Target(None, d, FALSE, plain, FALSE, TRUE, poNow)
    BY DEF PO!RIDTargets
  <2>2. t = [corr |-> None, drone |-> d, temp |-> FALSE, plain |-> plain, did |-> FALSE,
             cracked |-> TRUE, seen |-> poNow]
    BY <2>1 DEF PO!Target
  <2>3. t \in PO!Targets
    BY <1>1, <2>2 DEF PO!Targets
  <2> QED BY <2>2, <2>3 DEF Proper, PO!Placeholder
<1>3. ASSUME NEW t \in PO!Saying(d, packet), ~t.did => t.cracked
      PROVE  Proper(t) /\ ~t.temp /\ t.drone = d /\ (t.corr \in Drones => t.corr = d)
  <2>1. /\ t.corr \in Drones \cup Uuids \cup {None} /\ (t.corr \in Drones => t.corr = d)
        /\ t.drone = d /\ ~t.temp
    BY <1>1 DEF PO!Saying, PO!Correlations
  <2>2. t \in PO!Targets
    BY <1>1, <2>1 DEF PO!Saying, PO!Targets
  <2> QED BY <1>3, <2>1, <2>2 DEF Proper
<1>4. ASSUME NEW t \in PO!SerialOnlyTargets(d, packet)
      PROVE  Proper(t) /\ ~t.temp /\ t.drone = d /\ (t.corr \in Drones => t.corr = d)
  <2>1. t \in PO!Saying(d, packet) /\ t.cracked # t.did
    BY DEF PO!SerialOnlyTargets
  <2>2. t.cracked \in BOOLEAN /\ t.did \in BOOLEAN
    BY <2>1 DEF PO!Saying
  <2> QED BY <1>3, <2>1, <2>2
<1>5. ASSUME NEW t \in PO!DJITargets(d, packet)
      PROVE  Proper(t) /\ ~t.temp /\ t.drone = d /\ (t.corr \in Drones => t.corr = d)
  <2>1. CASE t \in PO!RIDTargets(d)
    BY <1>1, <1>2, <2>1
  <2>2. CASE t \notin PO!RIDTargets(d)
    <3>1. t \in PO!Saying(d, packet) /\ t.did
      BY <2>2 DEF PO!DJITargets
    <3> QED BY <1>3, <3>1
  <2> QED BY <2>1, <2>2
<1> QED BY <1>2, <1>4, <1>5 DEF PO!GB46750Targets

LEMMA LineStep == ASSUME PositionsInv, PO!Line PROVE poLines' \in 0..MaxLines
BY StationConstants DEF PositionsInv, PO!TypeOK, PO!Line, PO!PositionConstants

LEMMA RIDStep == ASSUME PositionsInv, PO!RID PROVE PositionsInv'
<1>0. PICK d \in Drones : \E t \in PO!RIDTargets(d) \cup PO!GB46750Targets(d) :
        poPositions' \in PO!Add(poPositions, t)
  BY DEF PO!RID
<1>1. PICK t \in PO!RIDTargets(d) \cup PO!GB46750Targets(d) :
        poPositions' \in PO!Add(poPositions, t)
  BY <1>0
<1>2. Proper(t) /\ ~t.temp /\ ~PO!Placeholder(t) /\ t.corr = None
  BY <1>1, LinesAre
<1>3. UNCHANGED <<poLine, poJobs, poCrossed, poNow>> /\ poLines' \in 0..MaxLines
  BY LineStep DEF PO!RID
<1>a. Fits(poPositions, t, poCrossed')
  BY <1>2, StationConstants DEF Fits, Own, Clash, PO!Apart, PO!PositionConstants
<1>4. /\ poPositions' \in Seq(PO!Targets) /\ Len(poPositions') <= MaxPositions
      /\ Orderly(poPositions', poCrossed') /\ Decoding'
  BY <1>1, <1>2, <1>3, <1>a, AddStepOf
<1> QED BY <1>3, <1>4, PositionsGo DEF PositionsInv, PO!TypeOK

LEMMA JobStep ==
  ASSUME PositionsInv, NEW d \in Drones, PO!Decode(d)
  PROVE  /\ poJobs' \subseteq [drone : Drones, at : 0..MaxTime, result : PO!Results \cup {None}]
         /\ \A j \in poJobs' : j.result # None => j \in poJobs
BY DEF PositionsInv, PO!TypeOK, PO!Decode, PO!Job

LEMMA CrossStep ==
  ASSUME PositionsInv, NEW t, Proper(t), Own(t, poCrossed), PO!Crosses(t)
  PROVE  /\ poCrossed' \subseteq Drones /\ poCrossed \subseteq poCrossed'
         /\ Fits(poPositions, t, poCrossed')
         /\ PO!Placeholder(t) => \A j \in poJobs :
              j.result # None /\ j.drone = t.corr => j.drone \in poCrossed'
<1>1. /\ poCrossed' = poCrossed \cup PO!Sharing(t) \cup
           IF PO!SlipsIn(t) \/ PO!Unnamed(t) \/ PO!Sharing(t) # {} THEN {t.drone} ELSE {}
      /\ t.drone \in Drones /\ poCrossed \subseteq Drones /\ PO!Sharing(t) \subseteq Drones
  BY DEF PO!Crosses, PositionsInv, PO!TypeOK, Proper, PO!Targets, PO!Sharing
<1>2. poCrossed' \subseteq Drones /\ poCrossed \subseteq poCrossed'
  BY <1>1
<1>3. poPositions \in Seq(PO!Targets) /\ Orderly(poPositions, poCrossed)
  BY DEF PositionsInv, PO!TypeOK
<1>4. ASSUME NEW i \in 1..Len(poPositions), t.corr # None, poPositions[i].corr = t.corr,
             poPositions[i].drone # t.drone
      PROVE  t.drone \in poCrossed' /\ poPositions[i].drone \in poCrossed'
  <2>a. poPositions[i] \in PO!Targets /\ i \in DOMAIN poPositions
    BY <1>3
  <2>1. poPositions[i].drone \in Drones \ {t.drone} /\ i \in DOMAIN poPositions
    BY <1>4, <2>a DEF PO!Targets
  <2>2. poPositions[i].drone \in PO!Sharing(t)
    BY <1>4, <2>1 DEF PO!Sharing
  <2> QED BY <1>1, <2>2
<1>5. ASSUME NEW i \in 1..Len(poPositions), t.drone \notin poCrossed'
      PROVE  ~Clash(poPositions[i], t) /\ ~Clash(t, poPositions[i])
  <2> DEFINE a == poPositions[i]
  <2>1. t.drone \notin poCrossed /\ ~PO!Unnamed(t) /\ i \in DOMAIN poPositions
    BY <1>1, <1>3, <1>5
  <2>2. Own(a, poCrossed)
    BY <1>3 DEF Orderly
  <2>3. PO!Placeholder(t) /\ ~t.temp /\ PO!Placeholder(a) /\ ~a.temp /\ a.drone = t.drone
          => ~(a.corr # t.corr /\ t.drone \in {a.corr, t.corr})
    BY <2>1 DEF PO!Unnamed
  <2> HIDE DEF a
  <2>4. ~Clash(a, t)
    <3> SUFFICES ASSUME Clash(a, t) PROVE FALSE
      OBVIOUS
    <3>1. a.drone = t.drone /\ PO!Placeholder(a) /\ a.corr # a.drone /\ ~a.temp
      BY <2>1, <2>2 DEF Clash, Own, PO!Apart
    <3>2. PO!Placeholder(t) /\ t.corr = t.drone /\ ~t.temp
      BY DEF Clash, PO!Apart
    <3> QED BY <2>3, <3>1, <3>2
  <2>5. ~Clash(t, a)
    <3> SUFFICES ASSUME Clash(t, a) PROVE FALSE
      OBVIOUS
    <3>1. PO!Placeholder(t) /\ t.corr # t.drone /\ ~t.temp
      BY <2>1 DEF Clash, Own, PO!Apart
    <3>2. a.drone = t.drone /\ PO!Placeholder(a) /\ a.corr = a.drone /\ ~a.temp
      BY DEF Clash, PO!Apart
    <3> QED BY <2>3, <3>1, <3>2
  <2> QED BY <2>4, <2>5 DEF a
<1>6. Own(t, poCrossed')
  BY <1>2 DEF Own
<1>7. ASSUME PO!Placeholder(t), NEW j \in poJobs, j.result # None, j.drone = t.corr
      PROVE  j.drone \in poCrossed'
  <2>1. PO!SlipsIn(t)
    BY <1>7 DEF PO!SlipsIn
  <2>2. t.drone \in poCrossed'
    BY <1>1, <2>1
  <2>3. j.drone \in Drones
    BY DEF PositionsInv, PO!TypeOK
  <2> QED BY <1>2, <1>7, <2>2, <2>3 DEF Own
<1> QED BY <1>2, <1>4, <1>5, <1>6, <1>7 DEF Fits

LEMMA NamedStep == ASSUME PositionsInv, PO!Named PROVE PositionsInv'
<1>1. PICK d \in Drones, packet \in BOOLEAN :
        /\ \E t \in PO!SerialOnlyTargets(d, packet) \cup PO!DJITargets(d, packet) :
             \/ poPositions' \in PO!Add(poPositions, t) /\ PO!Crosses(t)
             \/ PO!Skips(t)
        /\ IF packet THEN PO!Decode(d) ELSE UNCHANGED poJobs
  BY DEF PO!Named
<1>2. PICK t \in PO!SerialOnlyTargets(d, packet) \cup PO!DJITargets(d, packet) :
        \/ poPositions' \in PO!Add(poPositions, t) /\ PO!Crosses(t)
        \/ PO!Skips(t)
  BY <1>1
<1>3. Proper(t) /\ Own(t, poCrossed)
  <2>1. Proper(t) /\ ~t.temp /\ t.drone = d /\ (t.corr \in Drones => t.corr = d)
    BY LinesAre
  <2> QED BY <2>1 DEF Own
<1>4. /\ poJobs' \subseteq [drone : Drones, at : 0..MaxTime, result : PO!Results \cup {None}]
      /\ \A j \in poJobs' : j.result # None => j \in poJobs
  BY <1>1, JobStep DEF PositionsInv, PO!TypeOK
<1>5. UNCHANGED <<poLine, poNow>> /\ poLines' \in 0..MaxLines
  BY LineStep DEF PO!Named
<1>6. CASE poPositions' \in PO!Add(poPositions, t) /\ PO!Crosses(t)
  <2>1. /\ poCrossed' \subseteq Drones /\ poCrossed \subseteq poCrossed'
        /\ Fits(poPositions, t, poCrossed')
        /\ PO!Placeholder(t) => \A j \in poJobs :
             j.result # None /\ j.drone = t.corr => j.drone \in poCrossed'
    BY <1>3, <1>6, CrossStep
  <2>2. /\ poPositions' \in Seq(PO!Targets) /\ Len(poPositions') <= MaxPositions
        /\ Orderly(poPositions', poCrossed') /\ Decoding'
    BY <1>4, <1>6, <2>1, AddStepOf
  <2> QED BY <1>4, <1>5, <2>1, <2>2, PositionsGo DEF PositionsInv, PO!TypeOK
<1>7. CASE PO!Skips(t)
  <2>1. poPositions' = PO!Prune(poPositions, poNow) /\ poCrossed' = poCrossed
    BY <1>7 DEF PO!Skips
  <2>2. /\ poPositions' \in Seq(PO!Targets) /\ Len(poPositions') <= MaxPositions
        /\ Orderly(poPositions', poCrossed') /\ Decoding'
    BY <1>4, <2>1, PruneStepOf
  <2> QED BY <1>4, <1>5, <2>1, <2>2, PositionsGo DEF PositionsInv, PO!TypeOK
<1> QED BY <1>2, <1>6, <1>7

LEMMA EncryptedStep == ASSUME PositionsInv, PO!Encrypted PROVE PositionsInv'
<1> DEFINE live == PO!Prune(poPositions, poNow)
<1>1. PICK d \in Drones :
        IF PO!HasCracked(live, d) THEN PO!Decode(d) /\ UNCHANGED poLine
        ELSE poLine' = PO!Fallback(d) /\ UNCHANGED poJobs
  BY DEF PO!Encrypted
<1>2. poPositions' = PO!Prune(poPositions, poNow) /\ UNCHANGED <<poCrossed, poNow>>
  BY DEF PO!Encrypted
<1> HIDE DEF live
<1>3. /\ poJobs' \subseteq [drone : Drones, at : 0..MaxTime, result : PO!Results \cup {None}]
      /\ \A j \in poJobs' : j.result # None => j \in poJobs
  BY <1>1, JobStep DEF PositionsInv, PO!TypeOK
<1>4. /\ poPositions' \in Seq(PO!Targets) /\ Len(poPositions') <= MaxPositions
      /\ Orderly(poPositions', poCrossed') /\ Decoding'
  BY <1>2, <1>3, PruneStepOf
<1>5. Waits(PO!Fallback(d))
  <2>1. poNow \in 0..MaxTime /\ d # None
    BY StationConstants DEF PositionsInv, PO!TypeOK, PO!PositionConstants
  <2> DEFINE t == PO!Fallback(d)
  <2>2. t = [corr |-> d, drone |-> d, temp |-> TRUE, plain |-> FALSE, did |-> TRUE,
             cracked |-> FALSE, seen |-> poNow]
    BY DEF PO!Fallback, PO!Target
  <2> HIDE DEF t
  <2>3. t \in PO!Targets
    BY <2>1, <2>2 DEF PO!Targets
  <2>4. Waits(t)
    BY <2>1, <2>2, <2>3 DEF Waits, Proper, PO!Placeholder
  <2> QED BY <2>4 DEF t
<1>6. /\ poLine' \in PO!Targets \cup {None}
      /\ poLine' # None => Waits(poLine')
  BY <1>1, <1>5 DEF PositionsInv, PO!TypeOK, Waits, Proper
<1>7. poLines' \in 0..MaxLines
  BY LineStep DEF PO!Encrypted
<1> QED BY <1>2, <1>3, <1>4, <1>6, <1>7, PositionsGo DEF PositionsInv, PO!TypeOK

LEMMA FallbackStep == ASSUME PositionsInv, PO!AddFallback PROVE PositionsInv'
<1>1. /\ poPositions' \in PO!Add(poPositions, poLine) /\ poLine' = None
      /\ PO!Decode(poLine.drone) /\ PO!Crosses(poLine) /\ UNCHANGED <<poNow, poLines>>
      /\ Waits(poLine)
  BY DEF PO!AddFallback, PositionsInv
<1>2. poLine.drone \in Drones /\ Proper(poLine) /\ Own(poLine, poCrossed)
  BY <1>1 DEF Waits, Proper, PO!Targets, Own, PO!Apart
<1>3. /\ poJobs' \subseteq [drone : Drones, at : 0..MaxTime, result : PO!Results \cup {None}]
      /\ \A j \in poJobs' : j.result # None => j \in poJobs
  BY <1>1, <1>2, JobStep
<1>4. /\ poCrossed' \subseteq Drones /\ poCrossed \subseteq poCrossed'
      /\ Fits(poPositions, poLine, poCrossed')
      /\ PO!Placeholder(poLine) => \A j \in poJobs :
           j.result # None /\ j.drone = poLine.corr => j.drone \in poCrossed'
  BY <1>1, <1>2, CrossStep
<1>5. /\ poPositions' \in Seq(PO!Targets) /\ Len(poPositions') <= MaxPositions
      /\ Orderly(poPositions', poCrossed') /\ Decoding'
  BY <1>1, <1>3, <1>4, AddStepOf
<1> QED BY <1>1, <1>3, <1>4, <1>5, PositionsGo DEF PositionsInv, PO!TypeOK

LEMMA ReadTickStep ==
  ASSUME PositionsInv, PO!Read \/ PO!Tick \/ PO!DecodeFails \/ UNCHANGED PO!vars
  PROVE  PositionsInv'
<1>1. CASE PO!Read
  <2>1. poPositions' = PO!Prune(poPositions, poNow)
        /\ UNCHANGED <<poLine, poJobs, poCrossed, poNow, poLines>>
    BY <1>1 DEF PO!Read
  <2>2. /\ poPositions' \in Seq(PO!Targets) /\ Len(poPositions') <= MaxPositions
        /\ Orderly(poPositions', poCrossed') /\ Decoding'
    BY <2>1, PruneStepOf
  <2> QED BY <2>1, <2>2, PositionsGo DEF PositionsInv, PO!TypeOK
<1>2. CASE PO!Tick
  BY <1>2, StationConstants
     DEF PO!Tick, PositionsInv, PO!TypeOK, Decoding, PO!PositionConstants
<1>3. CASE PO!DecodeFails
  BY <1>3 DEF PO!DecodeFails, PositionsInv, PO!TypeOK, Decoding
<1>4. CASE UNCHANGED PO!vars
  BY <1>4 DEF PO!vars, PositionsInv, PO!TypeOK, Decoding
<1> QED BY <1>1, <1>2, <1>3, <1>4

LEMMA ReturnsStep == ASSUME PositionsInv, PO!DecodeReturns PROVE PositionsInv'
<1>1. PICK j \in poJobs, r \in PO!Results :
        /\ j.result = None /\ poPositions' = PO!RemoveFallback(j.drone)
        /\ poJobs' = (poJobs \ {j}) \cup {[j EXCEPT !.result = r]}
        /\ poCrossed' = IF r = PO!Bare THEN poCrossed \cup {j.drone} ELSE poCrossed
  BY DEF PO!DecodeReturns
<1>2. UNCHANGED <<poLine, poNow, poLines>>
  BY DEF PO!DecodeReturns
<1> DEFINE S == {k \in DOMAIN poPositions :
                  PO!Placeholder(poPositions[k]) /\ poPositions[k].corr = j.drone}
           n == PO!First(S)
<1>3. poPositions' = IF n = 0 THEN poPositions ELSE PO!RemoveAt(poPositions, n)
  BY <1>1 DEF PO!RemoveFallback
<1>4. /\ poPositions \in Seq(PO!Targets) /\ Len(poPositions) <= MaxPositions
      /\ Orderly(poPositions, poCrossed) /\ MaxPositions \in Nat
  BY StationConstants DEF PositionsInv, PO!TypeOK, PO!PositionConstants
<1>5. S \subseteq 1..Len(poPositions) /\ Len(poPositions) \in Nat
  BY <1>4
<1>6. IF S = {} THEN n = 0 ELSE n \in S
  <2> HIDE DEF S
  <2> QED BY <1>5, FirstFound
<1>7. j.drone \in Drones
  BY DEF PositionsInv, PO!TypeOK
<1>8. /\ Thins(poPositions', poPositions)
      /\ j.drone \notin poCrossed => NoPlaceholder(poPositions', j.drone)
  <2>1. CASE S = {}
    <3>1. poPositions' = poPositions
      BY <1>3, <1>6, <2>1
    <3>2. NoPlaceholder(poPositions, j.drone)
      BY <1>4, <2>1 DEF NoPlaceholder
    <3> QED BY <1>4, <3>1, <3>2, ThinsSelf
  <2>2. CASE S # {}
    <3>1. n \in 1..Len(poPositions) /\ n \in S
      BY <1>5, <1>6, <2>2
    <3>2. PO!Placeholder(poPositions[n]) /\ poPositions[n].corr = j.drone
      BY <3>1
    <3>3. poPositions' = PO!RemoveAt(poPositions, n)
      BY <1>3, <3>1
    <3> HIDE DEF n, S
    <3>4. /\ Thins(poPositions', poPositions)
          /\ \A i \in 1..Len(poPositions') :
               \E k \in 1..Len(poPositions) \ {n} : poPositions'[i] = poPositions[k]
      BY <1>4, <3>1, <3>3, RemoveThins
    <3>a. ASSUME NEW k \in 1..Len(poPositions), PO!Placeholder(poPositions[k]),
                 poPositions[k].corr = j.drone, j.drone \notin poCrossed
          PROVE  poPositions[k].drone = j.drone /\ ~PO!Apart(poPositions[k])
      <4>1. Own(poPositions[k], poCrossed)
        BY <1>4 DEF Orderly
      <4>2. poPositions[k].drone = j.drone
        BY <1>7, <3>a, <4>1 DEF Own
      <4> QED BY <3>a, <4>2 DEF PO!Apart
    <3>5. ASSUME j.drone \notin poCrossed, NEW i \in 1..Len(poPositions'),
                 PO!Placeholder(poPositions'[i]), poPositions'[i].corr = j.drone
          PROVE  FALSE
      <4>1. PICK k \in 1..Len(poPositions) \ {n} : poPositions'[i] = poPositions[k]
        BY <3>4
      <4>2. PO!Placeholder(poPositions[k]) = PO!Placeholder(poPositions[n])
        BY <3>2, <3>5, <4>1 DEF PO!Placeholder
      <4>3. /\ poPositions[k].drone = j.drone /\ ~PO!Apart(poPositions[k])
            /\ poPositions[n].drone = j.drone /\ ~PO!Apart(poPositions[n])
        BY <3>1, <3>2, <3>5, <3>a, <4>1
      <4>4. Alike(poPositions[k], poPositions[n]) /\ poPositions[k].drone \notin poCrossed
        BY <3>5, <4>2, <4>3 DEF Alike
      <4> QED BY <1>4, <3>1, <4>1, <4>4 DEF Orderly
    <3> QED BY <3>4, <3>5 DEF NoPlaceholder
  <2> QED BY <2>1, <2>2
<1> HIDE DEF n, S
<1>9. /\ poPositions' \in Seq(PO!Targets) /\ Len(poPositions') <= MaxPositions
      /\ Len(poPositions') <= Len(poPositions)
  BY <1>4, <1>8 DEF Thins
<1>10. j.drone \in Drones /\ j \in [drone : Drones, at : 0..MaxTime, result : PO!Results \cup {None}]
  BY DEF PositionsInv, PO!TypeOK
<1>11. poCrossed' \subseteq Drones /\ poCrossed \subseteq poCrossed'
  BY <1>1, <1>10 DEF PositionsInv, PO!TypeOK
<1>12. Orderly(poPositions', poCrossed')
  BY <1>4, <1>8, <1>11, ThinsOrderly, CrossedGrows
<1>13. poJobs' \subseteq [drone : Drones, at : 0..MaxTime, result : PO!Results \cup {None}]
  BY <1>1, <1>10 DEF PositionsInv, PO!TypeOK
<1>14. ASSUME NEW k \in poJobs', k.drone \notin poCrossed', k.result # None
       PROVE  k.result = PO!Full /\ NoPlaceholder(poPositions', k.drone)
  <2>1. CASE k \in poJobs
    BY <1>8, <1>11, <1>14, <2>1, ThinsNone DEF PositionsInv, Decoding
  <2>2. CASE k = [j EXCEPT !.result = r]
    <3>1. k.drone = j.drone /\ k.result = r
      BY <1>10, <2>2
    <3>2. r = PO!Full /\ j.drone \notin poCrossed
      BY <1>1, <1>11, <1>14, <3>1 DEF PO!Results
    <3> QED BY <1>8, <3>1, <3>2
  <2> QED BY <1>1, <2>1, <2>2
<1> QED BY <1>2, <1>9, <1>11, <1>12, <1>13, <1>14, PositionsGo
        DEF Decoding, PositionsInv, PO!TypeOK

\* A result is added.
LEMMA DecodedStep ==
  ASSUME PositionsInv, PO!AddDecoded
  PROVE  /\ PositionsInv'
         /\ \A j \in poJobs \ poJobs' : j.drone \notin poCrossed => NoPlaceholder(poPositions', j.drone)
<1>1. PICK j \in poJobs :
        /\ j.result # None /\ poJobs' = poJobs \ {j}
        /\ poPositions' \in
             PO!Add(poPositions, PO!Target(j.drone, j.drone, j.result.temp,
                                   j.result.plain, TRUE, TRUE, j.at))
  BY DEF PO!AddDecoded
<1>2. UNCHANGED <<poLine, poCrossed, poNow, poLines>>
  BY DEF PO!AddDecoded
<1>3. /\ j \in [drone : Drones, at : 0..MaxTime, result : PO!Results \cup {None}]
      /\ j.drone \notin poCrossed => j.result = PO!Full /\ NoPlaceholder(poPositions, j.drone)
  BY <1>1 DEF PositionsInv, PO!TypeOK, Decoding
<1>4. j.result \in PO!Results /\ j.result.temp \in BOOLEAN /\ j.result.plain \in BOOLEAN
  <2>1. j.result \in PO!Results
    BY <1>1, <1>3
  <2>2. \A r \in PO!Results : r.temp \in BOOLEAN /\ r.plain \in BOOLEAN
    <3> SUFFICES ASSUME NEW r \in PO!Results PROVE r.temp \in BOOLEAN /\ r.plain \in BOOLEAN
      OBVIOUS
    <3>1. CASE r = PO!Full
      <4>1. r = [temp |-> FALSE, plain |-> TRUE]
        BY <3>1 DEF PO!Full
      <4> QED BY ONLY <4>1, Zenon
    <3>2. CASE r = PO!Bare
      <4>1. r = [temp |-> TRUE, plain |-> FALSE]
        BY <3>2 DEF PO!Bare
      <4> QED BY ONLY <4>1, Zenon
    <3> QED BY <3>1, <3>2 DEF PO!Results
  <2> QED BY <2>1, <2>2
<1> DEFINE t == PO!Target(j.drone, j.drone, j.result.temp, j.result.plain, TRUE, TRUE, j.at)
<1>5. t = [corr |-> j.drone, drone |-> j.drone, temp |-> j.result.temp,
           plain |-> j.result.plain, did |-> TRUE, cracked |-> TRUE, seen |-> j.at]
  BY DEF PO!Target
<1>6. poPositions' \in PO!Add(poPositions, t)
  BY <1>1
<1> HIDE DEF t
<1>7. t \in PO!Targets
  BY <1>3, <1>4, <1>5 DEF PO!Targets
<1>8. Proper(t) /\ ~PO!Placeholder(t) /\ t.drone = j.drone
  BY <1>5, <1>7 DEF Proper, PO!Placeholder
<1>a. j.drone \notin poCrossed => ~t.temp
  BY <1>3, <1>5 DEF PO!Full
<1>b. poPositions \in Seq(PO!Targets) /\ Orderly(poPositions, poCrossed)
  BY DEF PositionsInv, PO!TypeOK
<1>c. t.corr = j.drone /\ j.drone \in Drones
  BY <1>3, <1>5
<1>d. ASSUME NEW i \in 1..Len(poPositions), poPositions[i].corr = t.corr,
             poPositions[i].drone # t.drone
      PROVE  t.drone \in poCrossed /\ poPositions[i].drone \in poCrossed
  <2>1. Own(poPositions[i], poCrossed)
    BY <1>b DEF Orderly
  <2> QED BY <1>8, <1>c, <1>d, <2>1 DEF Own
<1>e. \A x : ~Clash(x, t) /\ ~Clash(t, x)
  BY <1>8 DEF Clash, PO!Apart
<1>9. Fits(poPositions, t, poCrossed)
  BY <1>8, <1>a, <1>c, <1>d, <1>e DEF Fits, Own
<1>10. /\ poPositions' \in Seq(PO!Targets) /\ Len(poPositions') <= MaxPositions
       /\ Orderly(poPositions', poCrossed') /\ Decoding'
  BY <1>1, <1>2, <1>6, <1>8, <1>9, AddStepOf
<1>11. PositionsInv'
  BY <1>1, <1>2, <1>10, PositionsGo DEF PositionsInv, PO!TypeOK
<1>12. PutWell(poPositions', poPositions, t, poCrossed)
  BY <1>6, <1>8, <1>9, AddOrderly DEF PositionsInv, PO!TypeOK
<1>13. j.drone \notin poCrossed => NoPlaceholder(poPositions', j.drone)
  BY <1>3, <1>8, <1>12 DEF PutWell
<1> QED BY <1>1, <1>11, <1>13

LEMMA PositionsStep == ASSUME PositionsInv, [PO!Next]_(PO!vars) PROVE PositionsInv'
BY RIDStep, NamedStep, EncryptedStep, FallbackStep, ReturnsStep, DecodedStep, ReadTickStep
   DEF PO!Next

LEMMA InitPositions == ASSUME PO!Init PROVE PositionsInv
<1>1. /\ poPositions = <<>> /\ poLine = None /\ poJobs = {} /\ poCrossed = {}
      /\ poNow = 0 /\ poLines = 0 /\ Len(poPositions) = 0
  BY DEF PO!Init
<1>2. poPositions \in Seq(PO!Targets)
  BY <1>1
<1>3. MaxPositions \in Nat /\ MaxTime \in Nat /\ MaxLines \in Nat
  BY StationConstants DEF PO!PositionConstants
<1>4. PO!TypeOK
  BY <1>1, <1>2, <1>3 DEF PO!TypeOK
<1>5. Orderly(poPositions, poCrossed) /\ Decoding
  BY <1>1 DEF Orderly, Decoding
<1> QED BY <1>1, <1>4, <1>5 DEF PositionsInv

\* The rows of a drone that has no placeholder are one.
LEMMA OneRow ==
  ASSUME NEW list \in Seq(PO!Targets), NEW crossed, NEW d \in Drones \ crossed,
         Orderly(list, crossed), NoPlaceholder(list, d)
  PROVE  PO!Cardinality(PO!Rows(list, d)) <= 1
<1> DEFINE R == PO!Rows(list, d)
<1>1. \A i \in R : i \in 1..Len(list) /\ list[i].drone = d /\ ~PO!Placeholder(list[i])
  <2> SUFFICES ASSUME NEW i \in R
               PROVE i \in 1..Len(list) /\ list[i].drone = d /\ ~PO!Placeholder(list[i])
    OBVIOUS
  <2>1. /\ i \in 1..Len(list)
        /\ list[i].corr = d \/ (list[i].drone = d /\ ~PO!Apart(list[i]))
    BY DEF PO!Rows
  <2>2. Own(list[i], crossed)
    BY <2>1 DEF Orderly
  <2>3. list[i].drone = d
    BY <2>1, <2>2 DEF Own
  <2>4. PO!Placeholder(list[i]) => list[i].corr = d
    BY <2>1, <2>3 DEF PO!Apart
  <2> QED BY <2>1, <2>3, <2>4 DEF NoPlaceholder
<1>2. \A i, k \in R : i = k
  <2> SUFFICES ASSUME NEW i \in R, NEW k \in R PROVE i = k
    OBVIOUS
  <2>1. /\ PO!Placeholder(list[i]) = PO!Placeholder(list[k])
        /\ ~PO!Apart(list[i]) /\ ~PO!Apart(list[k])
    BY <1>1 DEF PO!Placeholder, PO!Apart
  <2>2. Alike(list[i], list[k]) /\ list[i].drone \notin crossed
    BY <1>1, <2>1 DEF Alike
  <2> QED BY <1>1, <2>2 DEF Orderly
<1> HIDE DEF R
<1>3. Cardinality(R) <= 1
  <2>1. CASE R = {}
    BY <2>1, FS_EmptySet
  <2>2. CASE R # {}
    <3>1. PICK i \in R : TRUE
      BY <2>2
    <3>2. R = {i}
      BY <1>2, <3>1
    <3>3. Cardinality({i}) = 1
      BY FS_Singleton
    <3> QED BY <3>2, <3>3
  <2> QED BY <2>1, <2>2
<1>4. PO!Cardinality(R) = Cardinality(R)
  BY Zenon DEF PO!Cardinality, Cardinality
<1> QED BY <1>3, <1>4 DEF R

LEMMA DecodedRows ==
  ASSUME PositionsInv, PO!Next
  PROVE  \A j \in poJobs \ poJobs' :
           j.result = PO!Full /\ j.drone \notin poCrossed
             => PO!Cardinality(PO!Rows(poPositions', j.drone)) <= 1
<1> SUFFICES ASSUME NEW j \in poJobs \ poJobs', j.result = PO!Full, j.drone \notin poCrossed
             PROVE  PO!Cardinality(PO!Rows(poPositions', j.drone)) <= 1
  OBVIOUS
<1>1. None # PO!Full /\ j.drone \in Drones
  <2>1. j.drone \in Drones
    BY DEF PositionsInv, PO!TypeOK
  <2>2. PO!Full \in [temp : BOOLEAN, plain : BOOLEAN]
    BY DEF PO!Full
  <2>3. None \notin [temp : BOOLEAN, plain : BOOLEAN]
    BY StationConstants DEF PO!PositionConstants
  <2> QED BY <2>1, <2>2, <2>3
<1>2. PO!AddDecoded
  <2>1. CASE PO!RID \/ PO!Encrypted \/ PO!Named \/ PO!AddFallback \/ PO!Read \/ PO!Tick
    BY <2>1 DEF PO!RID, PO!Encrypted, PO!Named, PO!AddFallback, PO!Read, PO!Tick, PO!Decode
  <2>2. CASE PO!DecodeFails
    BY <1>1, <2>2 DEF PO!DecodeFails
  <2>3. CASE PO!DecodeReturns
    BY <1>1, <2>3 DEF PO!DecodeReturns
  <2> QED BY <2>1, <2>2, <2>3 DEF PO!Next
<1>3. /\ PositionsInv' /\ NoPlaceholder(poPositions', j.drone) /\ poCrossed' = poCrossed
  BY <1>2, DecodedStep DEF PO!AddDecoded
<1>4. poPositions' \in Seq(PO!Targets) /\ Orderly(poPositions', poCrossed)
  BY <1>3 DEF PositionsInv, PO!TypeOK
<1> QED BY <1>1, <1>3, <1>4, OneRow

------------------------------------------------------------------------------
\* The types of the parts whose invariants do not contain them.

LEMMA LocationTypes ==
  ASSUME DL!LocationConstants, DL!TypeOK, [DL!Next]_(DL!vars)
  PROVE  DL!TypeOK'
<1>1. CASE UNCHANGED DL!vars
  BY <1>1 DEF DL!vars, DL!TypeOK
<1>2. CASE DL!UpdateDeviceLocation
  BY <1>2 DEF DL!UpdateDeviceLocation, DL!TypeOK, DL!Places
<1>3. CASE DL!Restart
  <2>1. dlSaved' \in DL!Places \cup {Unreadable} /\ dlManual' \in DL!Places /\ dlFix' \in DL!Places
    BY <1>3 DEF DL!Restart, DL!TypeOK, DL!Places, DL!Load
  <2>2. dlRequest' \in [Clients -> [at : {"set"}, point : DL!Places] \cup {DL!Idle}]
    BY <1>3 DEF DL!Restart
  <2>3. dlDisturbed' \in BOOLEAN
    BY <1>3, Zenon DEF DL!Restart
  <2>4. dlFaults' \in 0..MaxFaults
    BY <1>3 DEF DL!Restart, DL!Fault, DL!TypeOK, DL!LocationConstants
  <2> QED BY <2>1, <2>2, <2>3, <2>4 DEF DL!TypeOK
<1>4. ASSUME NEW c \in Clients, DL!SaveFails(c) PROVE DL!TypeOK'
  BY <1>4 DEF DL!SaveFails, DL!Fault, DL!TypeOK, DL!LocationConstants
<1>5. ASSUME NEW c \in Clients, DL!Set(c) PROVE DL!TypeOK'
  <2>1. dlRequest[c].point \in DL!Places
    BY <1>5 DEF DL!Set, DL!TypeOK
  <2> QED BY <1>5, <2>1 DEF DL!Set, DL!TypeOK
<1>6. ASSUME NEW c \in Clients, NEW p \in DL!Places, DL!Save(c, p) PROVE DL!TypeOK'
  <2>1. dlDisturbed' \in BOOLEAN
    BY <1>6, Zenon DEF DL!Save
  <2>2. [at |-> "set", point |-> p] \in [at : {"set"}, point : DL!Places]
    OBVIOUS
  <2> QED BY <1>6, <2>1, <2>2 DEF DL!Save, DL!TypeOK
<1> QED BY <1>1, <1>2, <1>3, <1>4, <1>5, <1>6 DEF DL!Next

LEMMA InitLocationTypes == DL!LocationConstants /\ DL!Init => DL!TypeOK
<1> SUFFICES ASSUME DL!LocationConstants, DL!Init PROVE DL!TypeOK
  OBVIOUS
<1>1. dlSaved \in DL!Places \cup {Unreadable} /\ dlManual \in DL!Places /\ dlFix \in DL!Places
  BY DEF DL!LocationConstants, DL!Init, DL!Places, DL!Load
<1>2. dlRequest \in [Clients -> [at : {"set"}, point : DL!Places] \cup {DL!Idle}]
  BY DEF DL!Init
<1>3. dlDisturbed \in BOOLEAN
  BY Zenon DEF DL!Init
<1>4. dlFaults \in 0..MaxFaults
  BY DEF DL!Init, DL!LocationConstants
<1> QED BY <1>1, <1>2, <1>3, <1>4 DEF DL!TypeOK

-----------------------------------------------------------------------------
\* The decoder: what PacketTypes leaves open.
DecoderRest ==
  /\ Len(ddJobs) <= MaxPackets
  /\ ddKeys \in [CipherIds -> (0..MaxClock) \cup {None}] /\ ddNow \in 0..MaxClock
  /\ ddMu \in 0..MaxPackets /\ ddSubMu \in 0..MaxPackets
  /\ ddSubscriptions \subseteq Sensors /\ ddRoutes \subseteq Sensors
  /\ ddResponses \subseteq DOMAIN ddJobs /\ ddKnown \subseteq CipherIds
  /\ ddClient \in BOOLEAN
  /\ ddAbandoned \in 0..ddFaults /\ ddFaults \in 0..MaxFaults

LEMMA DecoderTypesAre ==
  ASSUME DD!DecoderConstants, PacketTypes, DecoderRest
  PROVE  DD!TypeOK
BY DEF DD!DecoderConstants, PacketTypes, DecoderRest, DD!TypeOK

LEMMA InitDecoderRest == DD!DecoderConstants /\ DD!Init => DecoderRest
<1> SUFFICES ASSUME DD!DecoderConstants, DD!Init PROVE DecoderRest
  OBVIOUS
<1>1. Len(ddJobs) = 0
  BY DEF DD!Init
<1>2. ddKeys \in [CipherIds -> (0..MaxClock) \cup {None}]
  BY DEF DD!Init
<1>3. ddClient \in BOOLEAN
  BY Zenon DEF DD!Init
<1>4. /\ ddNow = 0 /\ ddMu = 0 /\ ddSubMu = 0 /\ ddAbandoned = 0 /\ ddFaults = 0
      /\ ddSubscriptions = {} /\ ddRoutes = {} /\ ddResponses = {} /\ ddKnown = {}
  BY DEF DD!Init
<1> QED BY <1>1, <1>2, <1>3, <1>4 DEF DD!DecoderConstants, DecoderRest

\* The steps of one packet.
LEMMA PacketIs ==
  ASSUME DD!DecoderConstants, PacketTypes, DecoderRest, NEW i \in DOMAIN ddJobs
  PROVE  /\ i \in 1..MaxPackets /\ ddJobs[i] \in DD!Jobs
         /\ ddJobs[i].device \in Sensors /\ ddJobs[i].id \in CipherIds
<1>1. i \in 1..MaxPackets
  BY DEF DD!DecoderConstants, PacketTypes, DecoderRest
<1>2. ddJobs[i] \in DD!Jobs
  BY DEF PacketTypes
<1> QED BY <1>1, <1>2 DEF DD!Jobs

LEMMA SameLength ==
  ASSUME ddJobs \in Seq(DD!Jobs), ddJobs' \in Seq(DD!Jobs), DOMAIN ddJobs' = DOMAIN ddJobs
  PROVE  Len(ddJobs') = Len(ddJobs)
<1>1. 1..Len(ddJobs') = 1..Len(ddJobs) /\ Len(ddJobs) \in Nat /\ Len(ddJobs') \in Nat
  OBVIOUS
<1> QED BY <1>1

LEMMA PacketStepTypes ==
  ASSUME DD!DecoderConstants, PacketTypes, DecoderRest, NEW i \in DOMAIN ddJobs,
         \/ DD!EnsureClient(i) \/ DD!Connected(i) \/ DD!ConnectTimeout(i)
         \/ DD!EnsureSubscription(i) \/ DD!Subscribed(i) \/ DD!SubscribeFails(i)
  PROVE  DecoderRest'
<1>1. PICK step \in DD!Steps : DD!GoOn(i, step)
  BY DEF DD!EnsureClient, DD!Connected, DD!ConnectTimeout, DD!EnsureSubscription, DD!Subscribed,
     DD!SubscribeFails, DD!Steps
<1>2. DOMAIN ddJobs' = DOMAIN ddJobs /\ Len(ddJobs') = Len(ddJobs)
  <2>1. ddJobs' \in Seq(DD!Jobs) /\ DOMAIN ddJobs' = DOMAIN ddJobs
    BY <1>1, GoesOn DEF PacketTypes
  <2> QED BY <2>1, SameLength DEF PacketTypes
<1>3. i \in 1..MaxPackets /\ ddJobs[i].device \in Sensors
  BY PacketIs
<1>4. UNCHANGED <<ddKeys, ddNow, ddResponses, ddKnown>>
  BY DEF DD!EnsureClient, DD!Connected, DD!ConnectTimeout, DD!EnsureSubscription, DD!Subscribed,
     DD!SubscribeFails, DD!traffic
<1>5. /\ ddMu' \in {ddMu, i, 0} /\ ddSubMu' \in {ddSubMu, i, 0} /\ ddClient' \in {ddClient, TRUE}
      /\ ddSubscriptions' \subseteq ddSubscriptions \cup {ddJobs[i].device}
      /\ ddRoutes' \subseteq ddRoutes \cup {ddJobs[i].device}
  BY DEF DD!EnsureClient, DD!Connected, DD!ConnectTimeout, DD!EnsureSubscription, DD!Subscribed,
     DD!SubscribeFails
<1>6. ddAbandoned' \in 0..ddFaults' /\ ddFaults' \in 0..MaxFaults
  BY DEF DD!EnsureClient, DD!Connected, DD!ConnectTimeout, DD!EnsureSubscription, DD!Subscribed,
     DD!SubscribeFails, DD!Fault, DecoderRest, DD!DecoderConstants
<1>7. ddMu' \in 0..MaxPackets /\ ddSubMu' \in 0..MaxPackets
  BY <1>3, <1>5 DEF DecoderRest, DD!DecoderConstants
<1> QED BY <1>2, <1>3, <1>4, <1>5, <1>6, <1>7 DEF DecoderRest

\* The steps of its request, and its end.
LEMMA RequestStepTypes ==
  ASSUME DD!DecoderConstants, PacketTypes, DecoderRest, NEW i \in DOMAIN ddJobs,
         \/ DD!Publish(i) \/ DD!Published(i) \/ DD!PublishFails(i) \/ DD!Timeout(i)
         \/ DD!TakeResponse(i),
         PacketTypes'
  PROVE  DecoderRest'
<1>1. DOMAIN ddJobs' = DOMAIN ddJobs /\ Len(ddJobs') = Len(ddJobs)
  <2>1. DOMAIN ddJobs' = DOMAIN ddJobs
    BY DEF DD!Publish, DD!Published, DD!PublishFails, DD!Timeout, DD!TakeResponse, DD!GiveUp, DD!GoOn, PacketTypes
  <2> QED BY <2>1, SameLength DEF PacketTypes
<1>2. UNCHANGED <<DD!session, ddNow, ddKnown>> /\ ddResponses' \subseteq ddResponses \cup {i}
  BY DEF DD!Publish, DD!Published, DD!PublishFails, DD!Timeout, DD!TakeResponse, DD!GiveUp, DD!traffic
<1>3. ddKeys' \in [CipherIds -> (0..MaxClock) \cup {None}]
  <2>1. ddKeys' = ddKeys \/ ddKeys' = [ddKeys EXCEPT ![ddJobs[i].id] = ddNow]
    BY DEF DD!Publish, DD!Published, DD!PublishFails, DD!Timeout, DD!TakeResponse, DD!GiveUp
  <2> QED BY <2>1 DEF DecoderRest
<1>4. ddFaults' \in {ddFaults, ddFaults + 1} /\ (ddFaults' # ddFaults => ddFaults < MaxFaults)
  BY DEF DD!Publish, DD!Published, DD!PublishFails, DD!Timeout, DD!TakeResponse, DD!GiveUp, DD!Fault
<1>5. ddAbandoned' \in 0..ddFaults' /\ ddFaults' \in 0..MaxFaults
  BY <1>2, <1>4 DEF DecoderRest, DD!DecoderConstants, DD!session
<1> QED BY <1>1, <1>2, <1>3, <1>5 DEF DecoderRest, DD!session

\* What comes in: packets and messages; the platform, the broker and the clock.
LEMMA OtherStepTypes ==
  ASSUME DD!DecoderConstants, PacketTypes, DecoderRest,
         DD!Receive \/ DD!HandleMessage \/ DD!Answer \/ DD!Forget \/ DD!Tick \/ UNCHANGED DD!vars,
         PacketTypes'
  PROVE  DecoderRest'
<1>1. CASE DD!Receive
  <2>1. Len(ddJobs') <= MaxPackets /\ DOMAIN ddJobs \subseteq DOMAIN ddJobs'
    BY <1>1 DEF DD!Receive, PacketTypes, DD!DecoderConstants
  <2>2. ddKeys' \in [CipherIds -> (0..MaxClock) \cup {None}]
    BY <1>1 DEF DD!Receive, DD!LookUp, DecoderRest
  <2> QED BY <1>1, <2>1, <2>2 DEF DD!Receive, DD!session, DD!traffic, DecoderRest
<1>2. CASE DD!HandleMessage
  <2>1. DOMAIN ddJobs' = DOMAIN ddJobs
    BY <1>2 DEF DD!HandleMessage, PacketTypes
  <2>2. Len(ddJobs') = Len(ddJobs)
    BY <2>1, SameLength DEF PacketTypes
  <2>3. ddFaults' \in {ddFaults, ddFaults + 1} /\ (ddFaults' # ddFaults => ddFaults < MaxFaults)
    BY <1>2 DEF DD!HandleMessage, DD!Fault
  <2>4. UNCHANGED <<ddKeys, DD!session, ddResponses, ddKnown, ddNow>>
    BY <1>2 DEF DD!HandleMessage
  <2>5. ddAbandoned' \in 0..ddFaults' /\ ddFaults' \in 0..MaxFaults
    BY <2>3, <2>4 DEF DecoderRest, DD!DecoderConstants, DD!session
  <2> QED BY <2>1, <2>2, <2>4, <2>5 DEF DecoderRest, DD!session
<1>3. CASE DD!Answer
  <2>1. ddKnown' \subseteq CipherIds
    <3>1. \A i \in ddAsked : ddJobs[i].id \in CipherIds
      BY PacketIs DEF PacketTypes
    <3> QED BY <1>3, <3>1 DEF DD!Answer, DecoderRest
  <2> QED BY <1>3, <2>1 DEF DD!Answer, DD!session, DecoderRest
<1>4. CASE DD!Forget
  BY <1>4 DEF DD!Forget, DD!Fault, DD!traffic, DecoderRest, DD!DecoderConstants
<1>5. CASE DD!Tick
  BY <1>5 DEF DD!Tick, DD!session, DD!traffic, DecoderRest, DD!DecoderConstants
<1>6. CASE UNCHANGED DD!vars
  BY <1>6 DEF DD!vars, DD!session, DD!traffic, DecoderRest
<1> QED BY <1>1, <1>2, <1>3, <1>4, <1>5, <1>6

LEMMA DecoderRestStep ==
  ASSUME DD!DecoderConstants, DecoderInv, DecoderRest, [DD!Next]_(DD!vars)
  PROVE  DecoderRest'
<1>1. PacketTypes /\ PacketTypes'
  BY DecoderStep DEF DecoderInv
<1> QED BY <1>1, PacketStepTypes, RequestStepTypes, OtherStepTypes DEF DD!Next

-----------------------------------------------------------------------------
\* The archive: what the invariant leaves open.
ArchiveRest ==
  /\ AR!Cardinality(inLive) <= MaxLive
  /\ inDb \subseteq [id : Intruders, day : 0..MaxDay] /\ inDay \in 0..MaxDay
  /\ inFailures \in 0..MaxFailures

LEMMA ArchivePlaces ==
  ASSUME ArchiveInv
  PROVE  /\ inLive \subseteq Intruders /\ inExpired \subseteq Intruders /\ inTried \subseteq Intruders
         /\ inLost \subseteq Intruders /\ inDeleted \subseteq Intruders /\ AR!Popped \subseteq Intruders
BY DEF ArchiveInv, CallerTypes, AR!HandedOverOnce, RowsLeft

LEMMA ArchiveTypesAre == ASSUME ArchiveInv, ArchiveRest PROVE AR!TypeOK
BY ArchivePlaces DEF ArchiveInv, CallerTypes, ArchiveRest, AR!TypeOK

LEMMA IntrudersCounted ==
  /\ \A S : AR!Cardinality(S) = Cardinality(S)
  /\ AR!IntrusionConstants => IsFiniteSet(Intruders)
<1>1. \A S : AR!Cardinality(S) = Cardinality(S)
  BY Zenon DEF AR!Cardinality, Cardinality
<1>2. AR!IsFiniteSet(Intruders) => IsFiniteSet(Intruders)
  BY Zenon DEF AR!IsFiniteSet, IsFiniteSet
<1> QED BY <1>1, <1>2 DEF AR!IntrusionConstants

LEMMA InitArchiveRest == AR!IntrusionConstants /\ AR!Init => ArchiveRest
<1> SUFFICES ASSUME AR!IntrusionConstants, AR!Init PROVE ArchiveRest
  OBVIOUS
<1>1. AR!Cardinality(inLive) <= MaxLive
  BY IntrudersCounted, FS_EmptySet DEF AR!Init, AR!IntrusionConstants
<1> QED BY <1>1 DEF AR!Init, AR!IntrusionConstants, ArchiveRest

\* The list never grows beyond its limit: what is added replaces something.
LEMMA ListLimited ==
  ASSUME AR!IntrusionConstants, ArchiveInv, ArchiveRest,
         \/ inLive' \subseteq inLive
         \/ AR!Cardinality(inLive') <= MaxLive
         \/ \E t \in Intruders, old \in SUBSET inLive : \E d \in (inLive \ old) \cup {t} :
              inLive' = ((inLive \ old) \cup {t}) \ {d}
  PROVE  AR!Cardinality(inLive') <= MaxLive
<1>1. IsFiniteSet(inLive)
  BY IntrudersCounted, ArchivePlaces, FS_Subset
<1>2. MaxLive \in Nat /\ Cardinality(inLive) <= MaxLive /\ Cardinality(inLive) \in Nat
  BY <1>1, FS_CardinalityType, IntrudersCounted DEF ArchiveRest, AR!IntrusionConstants
<1>3. CASE inLive' \subseteq inLive
  <2>1. IsFiniteSet(inLive') /\ Cardinality(inLive') <= Cardinality(inLive)
    BY <1>1, <1>3, FS_Subset
  <2>2. Cardinality(inLive') \in Nat
    BY <2>1, FS_CardinalityType
  <2> QED BY <1>2, <2>1, <2>2, IntrudersCounted
<1>4. ASSUME NEW t \in Intruders, NEW old \in SUBSET inLive, NEW d \in (inLive \ old) \cup {t},
             inLive' = ((inLive \ old) \cup {t}) \ {d}
      PROVE  AR!Cardinality(inLive') <= MaxLive
  <2> DEFINE rest == inLive \ old
  <2>1. IsFiniteSet(rest) /\ Cardinality(rest) <= Cardinality(inLive)
    BY <1>1, FS_Subset
  <2> HIDE DEF rest
  <2>2. Cardinality(rest) \in Nat
    BY <2>1, FS_CardinalityType
  <2>3. IsFiniteSet(rest \cup {t}) /\ Cardinality(rest \cup {t}) \in {Cardinality(rest), Cardinality(rest) + 1}
    BY ONLY <2>1, FS_AddElement
  <2>4. Cardinality((rest \cup {t}) \ {d}) = Cardinality(rest \cup {t}) - 1
    BY <1>4, <2>3, FS_RemoveElement DEF rest
  <2>5. inLive' = (rest \cup {t}) \ {d}
    BY <1>4 DEF rest
  <2>6. Cardinality(inLive') <= MaxLive
    BY <1>2, <2>1, <2>2, <2>3, <2>4, <2>5
  <2> QED BY <2>6, IntrudersCounted
<1> QED BY <1>3, <1>4

LEMMA ArchiveRestStep ==
  ASSUME AR!IntrusionConstants, ArchiveInv, ArchiveRest, [AR!Next]_(AR!vars)
  PROVE  ArchiveRest'
<1>1. inDay' = inDay \/ (inDay < MaxDay /\ inDay' = inDay + 1)
  <2>1. CASE AR!Restart \/ AR!Tick \/ UNCHANGED AR!vars
    BY <2>1 DEF AR!Restart, AR!Tick, AR!vars
  <2>2. CASE AR!Delete \/ AR!PruneRetention
    BY <2>2 DEF AR!Delete, AR!PruneRetention, AR!Remove
  <2>3. ASSUME NEW c \in Clients, AR!Read(c) \/ AR!AddPosition(c) \/ AR!Pop(c) PROVE inDay' = inDay
    BY <2>3 DEF AR!Read, AR!AddPosition, AR!Prune, AR!Pop
  <2>4. ASSUME NEW c \in Clients, NEW t \in Intruders, AR!ArchivePosition(c, t) \/ AR!ArchiveFails(c, t)
        PROVE  inDay' = inDay
    BY <2>4 DEF AR!ArchivePosition, AR!ArchiveFails, AR!Done
  <2> QED BY <2>1, <2>2, <2>3, <2>4 DEF AR!Next
<1>2. inFailures' = inFailures \/ (inFailures < MaxFailures /\ inFailures' = inFailures + 1)
  <2>1. CASE AR!Restart \/ AR!Tick \/ UNCHANGED AR!vars
    BY <2>1 DEF AR!Restart, AR!Fault, AR!Tick, AR!vars
  <2>2. CASE AR!Delete \/ AR!PruneRetention
    BY <2>2 DEF AR!Delete, AR!PruneRetention, AR!Remove
  <2>3. ASSUME NEW c \in Clients, AR!Read(c) \/ AR!AddPosition(c) \/ AR!Pop(c) PROVE inFailures' = inFailures
    BY <2>3 DEF AR!Read, AR!AddPosition, AR!Prune, AR!Pop
  <2>4. ASSUME NEW c \in Clients, NEW t \in Intruders, AR!ArchivePosition(c, t) \/ AR!ArchiveFails(c, t)
        PROVE  inFailures' = inFailures \/ (inFailures < MaxFailures /\ inFailures' = inFailures + 1)
    BY <2>4 DEF AR!ArchivePosition, AR!ArchiveFails, AR!Fault
  <2> QED BY <2>1, <2>2, <2>3, <2>4 DEF AR!Next
<1>3. inDb' \subseteq [id : Intruders, day : 0..MaxDay]
  <2>1. \A t \in Intruders : AR!Record(t) \in [id : Intruders, day : 0..MaxDay]
    BY DEF AR!Record, ArchiveRest
  <2>2. CASE AR!Restart
    <3>1. \A late \in SUBSET (AR!Popped \ Uncracked) :
            {AR!Record(t) : t \in {u \in late : \A r \in inDb : r.id # u}}
              \subseteq [id : Intruders, day : 0..MaxDay]
      BY <2>1, ArchivePlaces
    <3> QED BY <2>2, <3>1 DEF AR!Restart, ArchiveRest
  <2>3. ASSUME NEW c \in Clients, NEW t \in Intruders, AR!ArchivePosition(c, t) \/ AR!ArchiveFails(c, t)
        PROVE  inDb' \subseteq [id : Intruders, day : 0..MaxDay]
    <3>1. inDb' = inDb \/ inDb' = inDb \cup {AR!Record(t)}
      BY <2>3 DEF AR!ArchivePosition, AR!ArchiveFails, AR!Insert
    <3> QED BY <2>1, <3>1 DEF ArchiveRest
  <2>4. CASE AR!Delete \/ AR!PruneRetention
    BY <2>4 DEF AR!Delete, AR!PruneRetention, AR!Remove, ArchiveRest
  <2>5. CASE \/ \E c \in Clients : AR!Read(c) \/ AR!AddPosition(c) \/ AR!Pop(c)
             \/ AR!Tick \/ UNCHANGED AR!vars
    BY <2>5 DEF AR!Read, AR!AddPosition, AR!Prune, AR!Pop, AR!Tick, AR!vars, ArchiveRest
  <2> QED BY <2>2, <2>3, <2>4, <2>5 DEF AR!Next
<1>4. AR!Cardinality(inLive') <= MaxLive
  <2>1. CASE \E c \in Clients : AR!AddPosition(c)
    <3>1. \/ AR!Cardinality(inLive') <= MaxLive
          \/ \E t \in Intruders, old \in SUBSET inLive : \E d \in (inLive \ old) \cup {t} :
               inLive' = ((inLive \ old) \cup {t}) \ {d}
      BY <2>1 DEF AR!AddPosition
    <3> QED BY <3>1, ListLimited
  <2>2. CASE ~\E c \in Clients : AR!AddPosition(c)
    <3>1. inLive' \subseteq inLive
      BY <2>2 DEF AR!Next, AR!vars, AR!list, AR!Read, AR!Pop, AR!ArchivePosition, AR!ArchiveFails, AR!Done,
         AR!Delete, AR!PruneRetention, AR!Remove, AR!Restart, AR!Tick
    <3> QED BY <3>1, ListLimited
  <2> QED BY <2>1, <2>2
<1> QED BY <1>1, <1>2, <1>3, <1>4 DEF ArchiveRest, AR!IntrusionConstants

-----------------------------------------------------------------------------
\* The relay.  A command moves the version twice and is carried out once at most.
CommandsCounted ==
  /\ rlCommands \in 0..MaxCommands
  /\ rlVersion + (IF rlMu = None THEN 0 ELSE 1) <= 2 * rlCommands
  /\ rlWrites + (IF rlMu # None /\ rlMu.at \in {"dial", "sent"} THEN 1 ELSE 0) <= rlCommands
\* No frame is from a write to come, in the queue or taken from it.
FramesBounded ==
  /\ Len(rlFrames) <= MaxFrames
  /\ \A i \in 1..Len(rlFrames) : rlFrames[i].after <= rlWrites
  /\ rlSeen = None \/ (rlSeen \in AnyFrames /\ rlSeen.after <= rlWrites)

\* Every query under way, or answered on its way, is the one awaited or made up for by a
\* report that was not asked for.
QueriesCounted ==
  /\ rlChanges \in 0..MaxChanges
  /\ rlAsked + Cardinality(Outputs) <= (IF rlAwaiting THEN 1 ELSE 0) + rlChanges
RelayFlags == rlConnected \in BOOLEAN /\ rlLink \in {"up", "down"}
RelayRest == CommandsCounted /\ FramesBounded /\ QueriesCounted /\ RelayFlags

LEMMA OutputsFinite ==
  ASSUME FramesQueued
  PROVE  IsFiniteSet(Outputs) /\ Cardinality(Outputs) \in Nat
<1>1. Len(rlFrames) \in Nat
  BY DEF FramesQueued
<1>2. IsFiniteSet(1..Len(rlFrames))
  BY <1>1, FS_Interval
<1>3. Outputs \in SUBSET (1..Len(rlFrames))
  BY DEF Outputs
<1>4. IsFiniteSet(Outputs)
  BY <1>2, <1>3, FS_Subset
<1> QED BY <1>4, FS_CardinalityType

LEMMA RelayTypesAre ==
  ASSUME RL!RelayConstants, RelayInv, CommandTypes, RelayRest
  PROVE  RL!TypeOK
<1> DEFINE n == Cardinality(Outputs)
<1>1. n \in Nat /\ rlAsked + n <= (IF rlAwaiting THEN 1 ELSE 0) + rlChanges
  BY OutputsFinite DEF RelayInv, RelayRest, QueriesCounted
<1> HIDE DEF n
<1>2. rlAsked \in 0..MaxFrames + MaxChanges + 1
  BY <1>1 DEF RelayInv, RelayCounts, FramesQueued, RelayRest, QueriesCounted, RL!RelayConstants
<1>3. /\ rlVersion \in 0..2 * MaxCommands /\ rlQueryVersion \in 0..2 * MaxCommands
      /\ rlWrites \in 0..MaxCommands /\ rlExecuted \in 0..MaxCommands /\ rlCommands \in 0..MaxCommands
  BY DEF RelayInv, RelayCounts, RelayRest, CommandsCounted, RL!RelayConstants
<1>4. \A f \in AnyFrames : f.after <= rlWrites => f \in RL!Frames
  BY <1>3 DEF AnyFrames, RL!Frames, RL!RelayConstants
<1>5. rlFrames \in Seq(RL!Frames)
  <2>1. \A i \in 1..Len(rlFrames) : rlFrames[i] \in RL!Frames
    BY <1>4 DEF RelayInv, FramesQueued, RelayRest, FramesBounded
  <2> QED BY <2>1 DEF RelayInv, FramesQueued
<1>6. rlSeen \in RL!Frames \cup {None}
  BY <1>4 DEF RelayRest, FramesBounded
<1>7. rlMu \in [value : RL!Values, at : {"dial", "sent", "answered"}] \cup {None}
  BY DEF CommandTypes
<1>8. rlAwaiting \in BOOLEAN /\ rlPushed \in BOOLEAN /\ rlOutput \in RL!Values
  BY DEF RelayInv, FramesQueued
<1> QED BY <1>2, <1>3, <1>5, <1>6, <1>7, <1>8 DEF RL!TypeOK, RelayRest, FramesBounded, QueriesCounted, RelayFlags

LEMMA InitRelayRest == RL!RelayConstants /\ RL!Init => RelayRest
<1> SUFFICES ASSUME RL!RelayConstants, RL!Init PROVE RelayRest
  OBVIOUS
<1>1. Outputs = {} /\ Len(rlFrames) = 0
  BY DEF Outputs, RL!Init
<1>2. Cardinality(Outputs) = 0
  BY <1>1, FS_EmptySet
<1>3. CommandsCounted
  BY DEF RL!Init, RL!RelayConstants, CommandsCounted
<1>5. RelayFlags
  BY Zenon DEF RL!Init, RelayFlags
<1>4. FramesBounded /\ QueriesCounted
  BY <1>1, <1>2 DEF RL!Init, RL!RelayConstants, FramesBounded, QueriesCounted
<1> QED BY <1>3, <1>4, <1>5 DEF RelayRest

LEMMA CommandsCountedStep ==
  ASSUME RL!RelayConstants, RelayInv, CommandTypes, CommandsCounted, [RL!Next]_(RL!vars)
  PROVE  CommandsCounted'
<1> USE DEF RelayInv, RelayCounts, CommandsCounted, RL!RelayConstants
<1>1. CASE RL!BeginSet
  <2>1. /\ rlVersion' = rlVersion + 1 /\ rlCommands' = rlCommands + 1 /\ rlWrites' = rlWrites
        /\ rlCommands < MaxCommands /\ rlMu = None
    BY <1>1 DEF RL!BeginSet, RL!relayVars
  <2> QED BY <2>1
<1>2. CASE RL!Send
  BY <1>2 DEF RL!Send, RL!relayVars
<1>3. CASE RL!Execute
  <2>1. /\ rlMu # None /\ rlMu.at = "sent" /\ rlMu' = [rlMu EXCEPT !.at = "answered"]
        /\ rlWrites' = rlWrites + 1 /\ UNCHANGED <<rlVersion, rlCommands>>
    BY <1>3 DEF RL!Execute
  <2>2. rlMu'.at = "answered"
    BY <2>1 DEF CommandTypes
  <2> QED BY <2>1, <2>2
<1>4. CASE RL!EndSet \/ RL!FailSet
  BY <1>4 DEF RL!EndSet, RL!FailSet, RL!relayVars
<1>5. CASE UNCHANGED RL!vars \/ RL!Field \/ RL!Answer \/ RL!Report \/ RL!Connect \/ RL!Poll \/ RL!Lose
             \/ RL!ReceiveInputs \/ RL!ReceiveOutputs \/ RL!Resync
  <2>1. UNCHANGED <<rlMu, rlVersion, rlWrites, rlCommands>>
    BY <1>5 DEF RL!vars, RL!controlVars, RL!relayVars, RL!Field, RL!Answer, RL!Report, RL!Connect, RL!Poll, RL!Lose,
       RL!ReceiveInputs, RL!ReceiveOutputs, RL!Resync
  <2> QED BY <2>1
<1> QED BY <1>1, <1>2, <1>3, <1>4, <1>5 DEF RL!Next

LEMMA FramesBoundedStep ==
  ASSUME RL!RelayConstants, RelayInv, FramesBounded, [RL!Next]_(RL!vars)
  PROVE  FramesBounded'
<1> USE DEF FramesBounded, RL!RelayConstants
<1>1. rlFrames \in Seq(AnyFrames) /\ rlWrites \in Nat /\ \A f \in AnyFrames : f.after \in Nat
  BY DEF RelayInv, RelayCounts, FramesQueued, AnyFrames
<1>2. ASSUME NEW f \in AnyFrames, f.after = rlWrites, Len(rlFrames) < MaxFrames,
             rlFrames' = Append(rlFrames, f), UNCHANGED <<rlWrites, rlSeen>>
      PROVE  FramesBounded'
  BY <1>1, <1>2
<1>3. CASE RL!Answer \/ RL!Report
  <2>1. PICK kind \in {"inputs", "outputs"}, unasked \in BOOLEAN :
          rlFrames' = Append(rlFrames, RL!Frame(kind, unasked))
    BY <1>3 DEF RL!Answer, RL!Report
  <2>2. RL!Frame(kind, unasked) \in AnyFrames /\ RL!Frame(kind, unasked).after = rlWrites
    BY DEF RL!Frame, AnyFrames, RelayInv, FramesQueued, RelayCounts
  <2>3. Len(rlFrames) < MaxFrames /\ UNCHANGED <<rlWrites, rlSeen>>
    BY <1>3 DEF RL!Answer, RL!Report, RL!relayVars
  <2> QED BY <1>2, <2>1, <2>2, <2>3
<1>4. CASE RL!ReceiveInputs \/ RL!ReceiveOutputs
  <2>1. /\ rlFrames # <<>> /\ rlFrames' = Tail(rlFrames) /\ rlWrites' = rlWrites
        /\ rlSeen' \in {rlSeen, Head(rlFrames)}
    BY <1>4 DEF RL!ReceiveInputs, RL!ReceiveOutputs, RL!relayVars
  <2>2. Head(rlFrames) = rlFrames[1] /\ Head(rlFrames) \in AnyFrames /\ 1 \in 1..Len(rlFrames)
    BY <1>1, <2>1
  <2>3. rlSeen' = None \/ (rlSeen' \in AnyFrames /\ rlSeen'.after <= rlWrites)
    BY <2>1, <2>2
  <2>4. Len(rlFrames') <= MaxFrames /\ \A i \in 1..Len(rlFrames') : rlFrames'[i].after <= rlWrites
    BY <1>1, <2>1
  <2> QED BY <2>1, <2>3, <2>4
<1>5. CASE RL!Connect \/ RL!Lose \/ RL!Resync
  <2>1. rlFrames' = <<>> /\ rlWrites' = rlWrites /\ rlSeen' \in {rlSeen, None}
    BY <1>5 DEF RL!Connect, RL!Lose, RL!Resync, RL!Down, RL!relayVars
  <2> QED BY <2>1
<1>6. CASE RL!BeginSet \/ RL!Send \/ RL!Execute \/ RL!EndSet \/ RL!FailSet \/ RL!Field \/ RL!Poll
             \/ UNCHANGED RL!vars
  <2>1. UNCHANGED <<rlFrames, rlSeen>> /\ rlWrites' \in {rlWrites, rlWrites + 1}
    BY <1>6 DEF RL!BeginSet, RL!Send, RL!Execute, RL!EndSet, RL!FailSet, RL!Field, RL!Poll, RL!Query, RL!vars,
       RL!monitorVars, RL!relayVars
  <2>2. \A i \in 1..Len(rlFrames) : rlFrames[i].after \in Nat
    BY <1>1
  <2> QED BY <1>1, <2>1, <2>2
<1> QED BY <1>3, <1>4, <1>5, <1>6 DEF RL!Next

LEMMA OutputsAppended ==
  ASSUME FramesQueued, NEW f \in AnyFrames, rlFrames' = Append(rlFrames, f)
  PROVE  /\ Cardinality(Outputs') \in Nat
         /\ Cardinality(Outputs') <= Cardinality(Outputs) + (IF f.kind = "outputs" THEN 1 ELSE 0)
<1>1. Outputs' = IF f.kind = "outputs" THEN Outputs \cup {Len(rlFrames) + 1} ELSE Outputs
  BY DEF FramesQueued, Outputs
<1>2. Cardinality(Outputs \cup {Len(rlFrames) + 1}) \in {Cardinality(Outputs), Cardinality(Outputs) + 1}
  BY OutputsFinite, FS_AddElement
<1> QED BY <1>1, <1>2, OutputsFinite

LEMMA OutputsTaken ==
  ASSUME FramesQueued, rlFrames # <<>>, rlFrames' = Tail(rlFrames)
  PROVE  /\ Cardinality(Outputs') \in Nat
         /\ Cardinality(Outputs')
              <= Cardinality(Outputs) - (IF Head(rlFrames).kind = "outputs" THEN 1 ELSE 0)
<1>1. /\ \A i \in Outputs' : i + 1 \in Outputs /\ i \in Nat /\ i >= 1
      /\ Head(rlFrames).kind = "outputs" => 1 \in Outputs
  BY Taken
<1> DEFINE rest == Outputs \ {1}
           f == [i \in Outputs' |-> i + 1]
<1>2. f \in Injection(Outputs', rest)
  BY <1>1 DEF Injection, IsInjective
<1>3. /\ IsFiniteSet(rest)
      /\ Cardinality(rest) = IF 1 \in Outputs THEN Cardinality(Outputs) - 1 ELSE Cardinality(Outputs)
  BY OutputsFinite, FS_RemoveElement
<1> HIDE DEF rest, f
<1>4. IsFiniteSet(Outputs') /\ Cardinality(Outputs') <= Cardinality(rest)
  BY <1>2, <1>3, FS_Injection
<1>5. Cardinality(Outputs') \in Nat /\ Cardinality(Outputs) \in Nat
  BY <1>4, OutputsFinite, FS_CardinalityType
<1> QED BY <1>1, <1>3, <1>4, <1>5

LEMMA QueriesCountedStep ==
  ASSUME RL!RelayConstants, RelayInv, QueriesCounted, [RL!Next]_(RL!vars)
  PROVE  QueriesCounted'
<1> DEFINE n == Cardinality(Outputs)
           m == Cardinality(Outputs')
<1>1. /\ n \in Nat /\ rlAsked \in Nat /\ rlChanges \in 0..MaxChanges /\ MaxChanges \in Nat
      /\ rlAsked + n <= (IF rlAwaiting THEN 1 ELSE 0) + rlChanges
  BY OutputsFinite DEF RelayInv, RelayCounts, QueriesCounted, RL!RelayConstants
<1>2. FramesQueued
  BY DEF RelayInv
<1>3. SUFFICES rlChanges' \in 0..MaxChanges
               /\ rlAsked' + m <= (IF rlAwaiting' THEN 1 ELSE 0) + rlChanges'
  BY DEF QueriesCounted
<1> HIDE DEF n, m
<1>4. CASE RL!Answer
  <2>1. m \in Nat /\ m <= n + 1
    <3>1. RL!Frame("outputs", FALSE) \in AnyFrames /\ RL!Frame("outputs", FALSE).kind = "outputs"
      BY DEF RL!Frame, AnyFrames, RelayInv, FramesQueued, RelayCounts
    <3>2. rlFrames' = Append(rlFrames, RL!Frame("outputs", FALSE))
      BY <1>4 DEF RL!Answer
    <3> QED BY <1>2, <3>1, <3>2, OutputsAppended DEF n, m
  <2>2. rlAsked > 0 /\ rlAsked' = rlAsked - 1 /\ UNCHANGED <<rlAwaiting, rlChanges>>
    BY <1>4 DEF RL!Answer
  <2> QED BY <1>1, <2>1, <2>2
<1>5. CASE RL!Report
  <2>1. m \in Nat /\ m <= n + 1
    <3>1. PICK kind \in {"inputs", "outputs"} : rlFrames' = Append(rlFrames, RL!Frame(kind, TRUE))
      BY <1>5 DEF RL!Report
    <3>2. RL!Frame(kind, TRUE) \in AnyFrames
      BY DEF RL!Frame, AnyFrames, RelayInv, FramesQueued, RelayCounts
    <3>3. /\ m \in Nat /\ m <= n + (IF RL!Frame(kind, TRUE).kind = "outputs" THEN 1 ELSE 0)
      BY <1>2, <3>1, <3>2, OutputsAppended DEF n, m
    <3>4. ASSUME NEW k \in {0, 1}, m <= n + k PROVE m <= n + 1
      BY <1>1, <3>3, <3>4
    <3> QED BY <3>3, <3>4
  <2>2. rlChanges < MaxChanges /\ rlChanges' = rlChanges + 1 /\ UNCHANGED <<rlAwaiting, rlAsked>>
    BY <1>5 DEF RL!Report
  <2> QED BY <1>1, <2>1, <2>2
<1>6. CASE RL!ReceiveInputs \/ RL!ReceiveOutputs
  <2>1. m \in Nat /\ m <= n - (IF Head(rlFrames).kind = "outputs" THEN 1 ELSE 0)
    BY <1>2, <1>6, OutputsTaken DEF RL!ReceiveInputs, RL!ReceiveOutputs, n, m
  <2>2. CASE RL!ReceiveInputs
    <3>1. /\ Head(rlFrames).kind = "inputs" /\ rlChanges' = rlChanges
          /\ \/ UNCHANGED <<rlAsked, rlAwaiting>>
             \/ ~rlAwaiting /\ rlAsked' = rlAsked + 1 /\ rlAwaiting' = TRUE
      BY <2>2 DEF RL!ReceiveInputs, RL!Query
    <3> QED BY <1>1, <2>1, <3>1
  <2>3. CASE RL!ReceiveOutputs
    <3>1. Head(rlFrames).kind = "outputs" /\ rlAwaiting' = FALSE /\ UNCHANGED <<rlAsked, rlChanges>>
      BY <2>3 DEF RL!ReceiveOutputs
    <3> QED BY <1>1, <2>1, <3>1
  <2> QED BY <1>6, <2>2, <2>3
<1>7. CASE RL!Connect \/ RL!Lose \/ RL!Resync
  <2>1. /\ rlFrames' = <<>> /\ rlChanges' = rlChanges
        /\ \/ rlAsked' = 1 /\ rlAwaiting' = TRUE
           \/ rlAsked' = 0 /\ rlAwaiting' = FALSE
    BY <1>7 DEF RL!Connect, RL!Lose, RL!Resync, RL!Down
  <2>2. Outputs' = {}
    BY <2>1 DEF Outputs
  <2>3. m = 0
    BY <2>2, FS_EmptySet DEF m
  <2> QED BY <1>1, <2>1, <2>3
<1>8. CASE RL!Poll
  <2>1. /\ ~rlAwaiting /\ rlAsked' = rlAsked + 1 /\ rlAwaiting' = TRUE
        /\ UNCHANGED <<rlFrames, rlChanges>>
    BY <1>8 DEF RL!Poll, RL!Query
  <2>2. m = n
    BY <2>1 DEF m, n, Outputs
  <2> QED BY <1>1, <2>1, <2>2
<1>9. CASE RL!BeginSet \/ RL!Send \/ RL!Execute \/ RL!EndSet \/ RL!FailSet \/ RL!Field \/ UNCHANGED RL!vars
  <2>1. /\ UNCHANGED <<rlFrames, rlAsked, rlAwaiting>>
        /\ rlChanges' = rlChanges \/ (rlChanges < MaxChanges /\ rlChanges' = rlChanges + 1)
    BY <1>9 DEF RL!BeginSet, RL!Send, RL!Execute, RL!EndSet, RL!FailSet, RL!Field, RL!vars, RL!monitorVars
  <2>2. m = n
    BY <2>1 DEF m, n, Outputs
  <2> QED BY <1>1, <2>1, <2>2
<1> QED BY <1>4, <1>5, <1>6, <1>7, <1>8, <1>9 DEF RL!Next

LEMMA RelayRestStep ==
  ASSUME RL!RelayConstants, RelayInv, CommandTypes, RelayRest, [RL!Next]_(RL!vars)
  PROVE  RelayRest'
<1>1. RelayFlags'
  BY DEF RelayRest, RelayFlags, RL!BeginSet, RL!Send, RL!Execute, RL!EndSet, RL!FailSet, RL!Field, RL!Answer,
     RL!Report, RL!Connect, RL!Poll, RL!Lose, RL!ReceiveInputs, RL!ReceiveOutputs, RL!Resync, RL!Down,
     RL!vars, RL!monitorVars, RL!Next
<1> QED BY <1>1, CommandsCountedStep, FramesBoundedStep, QueriesCountedStep DEF RelayRest

-----------------------------------------------------------------------------
\* The maps: what the invariant and the clock leave open.
MapRest ==
  /\ omManifest \in Packages \cup {None} /\ omWanted \in Packages \cup {None}
  /\ DOMAIN omBackups \subseteq 0..MaxSeconds
  /\ omDisturbed \in BOOLEAN /\ omUploads \in 0..MaxUploads

LEMMA MapTypesAre == ASSUME MapInv, UploadClock, MapRest PROVE OM!TypeOK
<1>1. OM!Range(omBackups) \subseteq Packages
  BY DEF OM!Range, MapInv, MapSafe, TileTypes
<1> QED BY <1>1 DEF OM!TypeOK, MapInv, MapSafe, UploadTypes, TileTypes, UploadClock, MapRest

LEMMA InitMapRest == OM!MapConstants /\ OM!Init => MapRest
<1> SUFFICES ASSUME OM!MapConstants, OM!Init PROVE MapRest
  OBVIOUS
<1>1. DOMAIN omBackups = {}
  BY DEF OM!Init
<1>2. omDisturbed \in BOOLEAN
  BY Zenon DEF OM!Init
<1>3. omManifest = None /\ omWanted = None /\ omUploads = 0
  BY DEF OM!Init
<1> QED BY <1>1, <1>2, <1>3 DEF OM!MapConstants, MapRest

LEMMA MapRestStep ==
  ASSUME OM!MapConstants, MapInv, MapRest, [OM!Next]_(OM!vars)
  PROVE  MapRest'
<1>1. /\ omManifest' \in Packages \cup {None} /\ omWanted' \in Packages \cup {None}
  <2>1. CASE \E c \in Clients : OM!WriteManifest(c)
    <3>1. PICK c \in Clients : OM!WriteManifest(c)
      BY <2>1
    <3>2. omUpload[c].package \in Packages
      BY <3>1, UploadIs DEF OM!WriteManifest, OM!At, OM!Uploads, MapInv, MapSafe
    <3> QED BY <3>1, <3>2 DEF OM!WriteManifest
  <2>2. CASE ~\E c \in Clients : OM!WriteManifest(c)
    <3>1. UNCHANGED <<omManifest, omWanted>>
      BY <2>2 DEF OM!Next, OM!vars, OM!tiles, OM!Begin, OM!Refuse, OM!Extract, OM!Backup, OM!NothingToBackup, OM!FailEarly,
         OM!Switch, OM!SwitchFails, OM!ManifestFails, OM!Cleanup, OM!Crash, OM!Tick
    <3> QED BY <3>1 DEF MapRest
  <2> QED BY <2>1, <2>2
<1>2. DOMAIN omBackups' \subseteq 0..MaxSeconds
  <2>1. CASE \E c \in Clients : OM!Backup(c)
    <3>1. PICK c \in Clients : OM!Backup(c)
      BY <2>1
    <3>2. omUpload[c].name \in 0..MaxSeconds
      BY <3>1, UploadIs DEF OM!Backup, OM!At, OM!Uploads, MapInv, MapSafe
    <3>3. DOMAIN omBackups' = DOMAIN omBackups \cup {omUpload[c].name}
      BY <3>1 DEF OM!Backup
    <3> QED BY <3>2, <3>3 DEF MapRest
  <2>2. CASE ~\E c \in Clients : OM!Backup(c)
    <3>1. DOMAIN omBackups' \subseteq DOMAIN omBackups
      BY <2>2 DEF OM!Next, OM!vars, OM!tiles, OM!Begin, OM!Refuse, OM!Extract, OM!NothingToBackup, OM!FailEarly,
         OM!Switch, OM!SwitchFails, OM!WriteManifest, OM!ManifestFails, OM!MoveBack, OM!Cleanup, OM!Crash, OM!Tick,
         OM!Restrict
    <3> QED BY <3>1 DEF MapRest
  <2> QED BY <2>1, <2>2
<1>3. omDisturbed' \in BOOLEAN
  <2>1. CASE \E c \in Clients : OM!Begin(c)
    BY <2>1, Zenon DEF OM!Begin
  <2>2. CASE \E c \in Clients : OM!SwitchFails(c) \/ OM!ManifestFails(c)
    <3>1. \A base : \A c \in Clients : OM!MoveBack(c, base) => omDisturbed' \in BOOLEAN
      BY Zenon DEF OM!MoveBack, MapRest
    <3> QED BY <2>2, <3>1, Zenon DEF OM!SwitchFails, OM!ManifestFails, MapRest
  <2>3. CASE OM!Crash
    BY <2>3, Zenon DEF OM!Crash
  <2>4. CASE \/ \E c \in Clients :
                  \/ OM!Refuse(c) \/ OM!Extract(c) \/ OM!Backup(c) \/ OM!NothingToBackup(c) \/ OM!FailEarly(c)
                  \/ OM!Switch(c) \/ OM!WriteManifest(c) \/ OM!Cleanup(c)
             \/ OM!Tick \/ UNCHANGED OM!vars
    <3>1. UNCHANGED omDisturbed
      BY <2>4 DEF OM!Refuse, OM!Extract, OM!Backup, OM!NothingToBackup, OM!FailEarly, OM!Switch, OM!WriteManifest,
         OM!Cleanup, OM!Tick, OM!vars
    <3> QED BY <3>1 DEF MapRest
  <2> QED BY <2>1, <2>2, <2>3, <2>4 DEF OM!Next
<1>4. omUploads' = omUploads \/ (omUploads < MaxUploads /\ omUploads' = omUploads + 1)
  <2>1. ASSUME NEW c \in Clients, OM!Begin(c) \/ OM!Refuse(c)
        PROVE  omUploads < MaxUploads /\ omUploads' = omUploads + 1
    BY <2>1 DEF OM!Begin, OM!Refuse
  <2>2. ASSUME NEW c \in Clients,
               \/ OM!Extract(c) \/ OM!Backup(c) \/ OM!NothingToBackup(c) \/ OM!FailEarly(c) \/ OM!Switch(c)
               \/ OM!SwitchFails(c) \/ OM!WriteManifest(c) \/ OM!ManifestFails(c) \/ OM!Cleanup(c)
        PROVE  omUploads' = omUploads
    BY <2>2 DEF OM!Extract, OM!Backup, OM!NothingToBackup, OM!FailEarly, OM!Switch, OM!SwitchFails,
       OM!WriteManifest, OM!ManifestFails, OM!Cleanup
  <2>3. CASE OM!Crash \/ OM!Tick \/ UNCHANGED OM!vars
    BY <2>3 DEF OM!Crash, OM!Tick, OM!vars
  <2> QED BY <2>1, <2>2, <2>3 DEF OM!Next
<1> QED BY <1>1, <1>2, <1>3, <1>4 DEF MapRest, OM!MapConstants

-----------------------------------------------------------------------------
\* The settings: what a request asks for are values of sections, and from its stages
\* on it has a whole document.
Documented(r) ==
  /\ r.want \in ST!Asks \cup {<<>>} /\ r.old \in [ST!Live -> ST!Values]
  /\ r.loaded \in [ST!Sections -> ST!Values] \cup {None}
  /\ r.at \in {"rtmp", "save", "apply"} => r.loaded \in [ST!Sections -> ST!Values]
  /\ r.at = "rtmp" => "rtmp" \in DOMAIN r.want
DocumentTypes == stSaved \in [ST!Sections -> ST!Values] /\ stRuntime \in [ST!Live -> ST!Values]
RequestsTyped == \A c \in Clients : stRequest[c] # ST!Idle => Documented(stRequest[c])
SettingFlags ==
  /\ stLock \in Clients \cup {None} /\ stSession \in BOOLEAN /\ stProcess \in BOOLEAN
  /\ stDisturbed \in BOOLEAN /\ stRequests \in 0..MaxSaves
SettingsRest == DocumentTypes /\ RequestsTyped /\ SettingFlags

LEMMA NothingAsked == \A f : f \in [{} -> ST!Values] => f = <<>>
OBVIOUS

\* A part of what may be asked for together may be asked for.
LEMMA WantIs ==
  ASSUME NEW want \in ST!Asks \cup {<<>>}
  PROVE  \E S : want \in [S -> ST!Values] /\ (S = {"ports"} \/ S = {"unattended"} \/ S \subseteq {"host", "rtmp", "general"})
<1>1. CASE want = <<>>
  <2>1. want \in [{} -> ST!Values]
    BY <1>1
  <2> QED BY <2>1
<1>2. CASE want \in UNION {[S -> ST!Values] : S \in (SUBSET {"host", "rtmp", "general"}) \ {{}}}
  BY <1>2
<1>3. CASE want \in [{"ports"} -> ST!Values] \cup [{"unattended"} -> ST!Values]
  BY <1>3
<1> QED BY <1>1, <1>2, <1>3 DEF ST!Asks

LEMMA WithoutHost ==
  ASSUME NEW want \in ST!Asks \cup {<<>>}
  PROVE  ST!Without(want, "host") \in ST!Asks \cup {<<>>}
<1>1. PICK S : want \in [S -> ST!Values] /\ (S = {"ports"} \/ S = {"unattended"} \/ S \subseteq {"host", "rtmp", "general"})
  BY WantIs
<1> DEFINE rest == ST!Without(want, "host")
<1>2. rest \in [S \ {"host"} -> ST!Values]
  BY <1>1 DEF ST!Without
<1> HIDE DEF rest
<1>3. CASE S = {"ports"} \/ S = {"unattended"}
  <2>1. S \ {"host"} = S
    BY <1>3
  <2> QED BY <1>2, <1>3, <2>1 DEF ST!Asks, rest
<1>4. CASE S \subseteq {"host", "rtmp", "general"} /\ S \ {"host"} # {}
  <2>1. S \ {"host"} \in (SUBSET {"host", "rtmp", "general"}) \ {{}}
    BY <1>4
  <2>2. rest \in UNION {[T -> ST!Values] : T \in (SUBSET {"host", "rtmp", "general"}) \ {{}}}
    BY <1>2, <2>1
  <2> QED BY <2>2 DEF ST!Asks, rest
<1>5. CASE S \ {"host"} = {}
  <2>1. rest \in [{} -> ST!Values]
    BY <1>2, <1>5
  <2> QED BY <2>1, NothingAsked DEF rest
<1> QED BY <1>1, <1>3, <1>4, <1>5

LEMMA WantedValues ==
  ASSUME NEW want \in ST!Asks \cup {<<>>}
  PROVE  \A s \in DOMAIN want : want[s] \in ST!Values
BY WantIs

LEMMA SettingsTypesAre == ASSUME SettingsInv, SettingsRest PROVE ST!TypeOK
<1>1. ASSUME NEW c \in Clients, stRequest[c] # ST!Idle PROVE stRequest[c] \in ST!Requests
  <2> DEFINE r == stRequest[c]
  <2>1. r = [at |-> r.at, want |-> r.want, loaded |-> r.loaded, old |-> r.old] /\ r.at \in Stages
    BY <1>1 DEF SettingsInv, Shape, Shaped, Staged
  <2>2. /\ r.want \in ST!Asks \cup {<<>>} /\ r.loaded \in [ST!Sections -> ST!Values] \cup {None}
        /\ r.old \in [ST!Live -> ST!Values]
    BY <1>1 DEF SettingsRest, RequestsTyped, Documented
  <2> HIDE DEF r
  <2>3. r \in ST!Requests
    BY <2>1, <2>2 DEF ST!Requests, Stages
  <2> QED BY <2>3 DEF r
<1>2. \A c \in Clients : stRequest[c] \in ST!Requests \cup {ST!Idle}
  BY <1>1
<1> QED BY <1>2 DEF ST!TypeOK, SettingsRest, DocumentTypes, SettingFlags

LEMMA InitSettingsRest == ST!SettingsConstants /\ ST!Init => SettingsRest
<1> SUFFICES ASSUME ST!SettingsConstants, ST!Init PROVE SettingsRest
  OBVIOUS
<1>1. DocumentTypes
  BY DEF ST!Init, DocumentTypes, ST!Values
<1>3. stSession \in BOOLEAN /\ stProcess \in BOOLEAN /\ stDisturbed \in BOOLEAN
  BY Zenon DEF ST!Init
<1>4. SettingFlags
  BY <1>3 DEF ST!Init, ST!SettingsConstants, SettingFlags
<1>2. RequestsTyped
  BY DEF ST!Init, RequestsTyped
<1> QED BY <1>1, <1>2, <1>4 DEF SettingsRest

LEMMA RequestTyped ==
  ASSUME SettingsInv, SettingsRest, NEW c \in Clients, NEW r, stRequest' = [stRequest EXCEPT ![c] = r],
         r = ST!Idle \/ Documented(r)
  PROVE  RequestsTyped'
<1>1. /\ stRequest'[c] = r /\ \A d \in Clients : d # c => stRequest'[d] = stRequest[d]
  BY DEF SettingsInv, Shape
<1>2. ASSUME NEW d \in Clients, stRequest'[d] # ST!Idle PROVE Documented(stRequest'[d])
  BY <1>1, <1>2 DEF SettingsRest, RequestsTyped
<1> QED BY <1>2 DEF RequestsTyped, Documented

LEMMA RequestGoesOn ==
  ASSUME SettingsInv, SettingsRest, NEW c \in Clients, 
         \/ ST!Begin(c) \/ ST!TakeLock(c) \/ ST!SetWebRTCListenHost(c) \/ ST!LoadUser(c)
         \/ ST!SetRTMPSettings(c) \/ ST!SaveEditableUser(c)
  PROVE  RequestsTyped'
<1> DEFINE q == stRequest[c]
<1>1. stRuntime \in [ST!Live -> ST!Values] /\ stSaved \in [ST!Sections -> ST!Values]
  BY DEF SettingsRest, DocumentTypes
<1>2. CASE ST!Begin(c)
  <2>1. PICK want \in ST!Asks :
          stRequest' = [stRequest EXCEPT ![c] =
            [at |-> IF DOMAIN want \cap ST!Video = {} THEN "load" ELSE "lock",
             want |-> want, loaded |-> None, old |-> stRuntime]]
    BY <1>2 DEF ST!Begin
  <2>2. Documented([at |-> IF DOMAIN want \cap ST!Video = {} THEN "load" ELSE "lock",
                    want |-> want, loaded |-> None, old |-> stRuntime])
    BY <1>1 DEF Documented
  <2> QED BY <2>1, <2>2, RequestTyped
<1>3. CASE ~ST!Begin(c)
  <2>1. q # ST!Idle /\ Shaped(q) /\ Documented(q)
    BY <1>3, IdleIsNoStage DEF ST!TakeLock, ST!SetWebRTCListenHost, ST!LoadUser, ST!SetRTMPSettings, ST!SaveEditableUser,
       SettingsInv, Shape, SettingsRest, RequestsTyped
  <2>2. CASE ST!TakeLock(c)
    <3>1. Documented([at |-> "host", want |-> q.want, loaded |-> None, old |-> stRuntime])
      BY <1>1, <2>1 DEF Documented
    <3>2. stRequest' = [stRequest EXCEPT ![c] = [at |-> "host", want |-> q.want, loaded |-> None, old |-> stRuntime]]
      BY <2>2 DEF ST!TakeLock
    <3> QED BY <3>1, <3>2, RequestTyped
  <2>3. CASE ST!SetWebRTCListenHost(c)
    <3> DEFINE want == IF ST!NewIn(c, "host") THEN q.want ELSE ST!Without(q.want, "host")
    <3>1. want \in ST!Asks \cup {<<>>}
      BY <2>1, WithoutHost DEF Documented
    <3>2. stRequest' = [stRequest EXCEPT ![c] = [at |-> "load", loaded |-> None, old |-> q.old, want |-> want]]
      BY <2>3 DEF ST!SetWebRTCListenHost
    <3> HIDE DEF want
    <3>3. Documented([at |-> "load", loaded |-> None, old |-> q.old, want |-> want])
      BY <2>1, <3>1 DEF Documented
    <3> QED BY <3>2, <3>3, RequestTyped
  <2>4. CASE ST!LoadUser(c)
    <3> DEFINE at == IF "rtmp" \in DOMAIN q.want THEN "rtmp" ELSE "save"
    <3>1. Documented([at |-> at, want |-> q.want, loaded |-> stSaved, old |-> q.old])
      BY <1>1, <2>1 DEF Documented
    <3>2. stRequest' = [stRequest EXCEPT ![c] = [at |-> at, want |-> q.want, loaded |-> stSaved, old |-> q.old]]
      BY <2>4 DEF ST!LoadUser
    <3> HIDE DEF at
    <3> QED BY <3>1, <3>2, RequestTyped
  <2>5. CASE ST!SetRTMPSettings(c) \/ ST!SaveEditableUser(c)
    <3>1. PICK at \in {"save", "apply"} : ST!To(c, at) /\ q.at \in {"rtmp", "save"}
      BY <2>5 DEF ST!SetRTMPSettings, ST!SaveEditableUser
    <3>2. stRequest' = [stRequest EXCEPT ![c] = [at |-> at, want |-> q.want, loaded |-> q.loaded, old |-> q.old]]
      BY <2>1, <3>1, SettingGoes DEF ST!To
    <3>3. Documented([at |-> at, want |-> q.want, loaded |-> q.loaded, old |-> q.old])
      BY <2>1, <3>1 DEF Documented
    <3> QED BY <3>2, <3>3, RequestTyped
  <2> QED BY <1>3, <2>2, <2>3, <2>4, <2>5
<1> QED BY <1>2, <1>3

\* What a request is at, and knows.
LEMMA RequestKnows ==
  ASSUME SettingsInv, SettingsRest, NEW c \in Clients, stRequest[c].at \in Stages
  PROVE  /\ stRequest[c] # ST!Idle /\ Documented(stRequest[c])
         /\ \A s \in DOMAIN stRequest[c].want : stRequest[c].want[s] \in ST!Values
<1>1. stRequest[c] # ST!Idle /\ Documented(stRequest[c])
  BY IdleIsNoStage DEF SettingsRest, RequestsTyped
<1> QED BY <1>1, WantedValues DEF Documented

\* Sections of one of the documents become what the program runs with.
LEMMA SetTypes ==
  ASSUME SettingsRest, NEW S, NEW f, ST!Set(S, f), \A s \in S \cap ST!Live : f[s] \in ST!Values
  PROVE  stRuntime' \in [ST!Live -> ST!Values]
BY DEF ST!Set, SettingsRest, DocumentTypes

LEMMA SavedTypes ==
  ASSUME NEW f \in [ST!Sections -> ST!Values], NEW want, \A s \in DOMAIN want : want[s] \in ST!Values
  PROVE  ST!Changed(f, want) \in [ST!Sections -> ST!Values]
BY DEF ST!Changed

LEMMA FailTypes ==
  ASSUME SettingsInv, SettingsRest, NEW c \in Clients, NEW S, ST!Fail(c, S), S \subseteq ST!Live,
         stRequest[c].at \in Stages
  PROVE  RequestsTyped' /\ DocumentTypes' /\ stDisturbed' \in BOOLEAN /\ stLock' \in Clients \cup {None}
<1>1. RequestsTyped'
  BY RequestTyped DEF ST!Fail
<1>2. DocumentTypes'
  <2>1. stRequest[c].old \in [ST!Live -> ST!Values]
    BY RequestKnows DEF Documented
  <2>2. stRuntime' = stRuntime \/ \E back \in SUBSET S : ST!Set(back, stRequest[c].old)
    BY DEF ST!Fail, ST!PutBack
  <2>3. stRuntime' \in [ST!Live -> ST!Values]
    BY <2>1, <2>2, SetTypes DEF SettingsRest, DocumentTypes
  <2> QED BY <2>3 DEF ST!Fail, SettingsRest, DocumentTypes
<1>3. stDisturbed' \in BOOLEAN
  BY Zenon DEF ST!Fail
<1>4. stLock' \in Clients \cup {None}
  BY DEF ST!Fail, ST!Unlock, SettingsRest, SettingFlags
<1> QED BY <1>1, <1>2, <1>3, <1>4

LEMMA FailsTypes ==
  ASSUME ST!SettingsConstants, SettingsInv, SettingsRest, NEW c \in Clients,
         ST!RefuseHost(c) \/ ST!LoadFails(c) \/ ST!RefuseRTMP(c) \/ ST!SaveFails(c)
  PROVE  SettingsRest'
<1>1. PICK S \in SUBSET ST!Live : ST!Fail(c, S)
  BY DEF ST!RefuseHost, ST!LoadFails, ST!RefuseRTMP, ST!SaveFails, ST!Live, ST!Video
<1>2. stRequest[c].at \in Stages
  BY DEF ST!RefuseHost, ST!LoadFails, ST!RefuseRTMP, ST!SaveFails, Stages
<1>3. RequestsTyped' /\ DocumentTypes' /\ stDisturbed' \in BOOLEAN /\ stLock' \in Clients \cup {None}
  BY <1>1, <1>2, FailTypes
<1>4. UNCHANGED <<stSession, stProcess, stRequests>>
  BY <1>1 DEF ST!Fail, ST!video
<1> QED BY <1>3, <1>4 DEF SettingsRest, SettingFlags

LEMMA GoesTypes ==
  ASSUME ST!SettingsConstants, SettingsInv, SettingsRest, NEW c \in Clients,
         \/ ST!Begin(c) \/ ST!TakeLock(c) \/ ST!SetWebRTCListenHost(c) \/ ST!LoadUser(c)
         \/ ST!SetRTMPSettings(c) \/ ST!SaveEditableUser(c) \/ ST!ApplyUserSettings(c)
  PROVE  SettingsRest'
<1>1. RequestsTyped'
  <2>1. CASE ST!ApplyUserSettings(c)
    BY <2>1, RequestTyped DEF ST!ApplyUserSettings
  <2> QED BY <2>1, RequestGoesOn
<1>2. stRuntime' \in [ST!Live -> ST!Values]
  <2>1. CASE ST!SetWebRTCListenHost(c)
    <3>1. \A s \in DOMAIN stRequest[c].want : stRequest[c].want[s] \in ST!Values
      BY <2>1, RequestKnows DEF ST!SetWebRTCListenHost, Stages
    <3> QED BY <2>1, <3>1, SetTypes DEF ST!SetWebRTCListenHost
  <2>2. CASE ST!SetRTMPSettings(c)
    <3>1. stRequest[c].at = "rtmp" /\ Documented(stRequest[c])
          /\ \A s \in DOMAIN stRequest[c].want : stRequest[c].want[s] \in ST!Values
      BY <2>2, RequestKnows DEF ST!SetRTMPSettings, Stages
    <3> QED BY <2>2, <3>1, SetTypes DEF ST!SetRTMPSettings, Documented
  <2>3. CASE ST!ApplyUserSettings(c)
    <3> DEFINE all == ST!Changed(stRequest[c].loaded, stRequest[c].want)
    <3>1. stRequest[c].at = "apply" /\ Documented(stRequest[c])
          /\ \A s \in DOMAIN stRequest[c].want : stRequest[c].want[s] \in ST!Values
      BY <2>3, RequestKnows DEF ST!ApplyUserSettings, Stages
    <3>2. all \in [ST!Sections -> ST!Values]
      BY <3>1, SavedTypes DEF Documented
    <3>3. \/ ST!Set(DOMAIN stRequest[c].want \cap {"ports"}, stRequest[c].want)
          \/ ST!Set({"general"}, all)
      BY <2>3 DEF ST!ApplyUserSettings
    <3> HIDE DEF all
    <3>4. \A s \in {"general"} \cap ST!Live : all[s] \in ST!Values
      BY <3>2 DEF ST!Sections
    <3> QED BY <3>1, <3>3, <3>4, SetTypes
  <2>4. CASE ST!Begin(c) \/ ST!TakeLock(c) \/ ST!LoadUser(c) \/ ST!SaveEditableUser(c)
    BY <2>4 DEF ST!Begin, ST!TakeLock, ST!LoadUser, ST!SaveEditableUser, SettingsRest, DocumentTypes
  <2> QED BY <2>1, <2>2, <2>3, <2>4
<1>3. stSaved' \in [ST!Sections -> ST!Values]
  <2>1. CASE ST!SaveEditableUser(c)
    <3>1. stRequest[c].at = "save" /\ Documented(stRequest[c])
          /\ \A s \in DOMAIN stRequest[c].want : stRequest[c].want[s] \in ST!Values
      BY <2>1, RequestKnows DEF ST!SaveEditableUser, Stages
    <3> QED BY <2>1, <3>1, SavedTypes DEF ST!SaveEditableUser, Documented
  <2>2. CASE ~ST!SaveEditableUser(c)
    BY <2>2 DEF ST!Begin, ST!TakeLock, ST!SetWebRTCListenHost, ST!LoadUser, ST!SetRTMPSettings,
       ST!ApplyUserSettings, SettingsRest, DocumentTypes
  <2> QED BY <2>1, <2>2
<1>4. stDisturbed' \in BOOLEAN
  <2>1. CASE ST!Begin(c)
    BY <2>1, Zenon DEF ST!Begin
  <2>2. CASE ~ST!Begin(c)
    BY <2>2 DEF ST!TakeLock, ST!SetWebRTCListenHost, ST!LoadUser, ST!SetRTMPSettings, ST!SaveEditableUser,
       ST!ApplyUserSettings, SettingsRest, SettingFlags
  <2> QED BY <2>1, <2>2
<1>5. stLock' \in Clients \cup {None} /\ UNCHANGED <<stSession, stProcess>> /\ stRequests' \in 0..MaxSaves
  BY DEF ST!Begin, ST!TakeLock, ST!SetWebRTCListenHost, ST!LoadUser, ST!SetRTMPSettings, ST!SaveEditableUser,
     ST!ApplyUserSettings, ST!Unlock, ST!video, SettingsRest, SettingFlags, ST!SettingsConstants
<1> QED BY <1>1, <1>2, <1>3, <1>4, <1>5 DEF SettingsRest, DocumentTypes, SettingFlags

LEMMA SettingsRestStep ==
  ASSUME ST!SettingsConstants, SettingsInv, SettingsRest, [ST!Next]_(ST!vars)
  PROVE  SettingsRest'
<1>1. CASE ST!Restart
  <2>1. PICK taken \in {ST!Live, ST!Live \ {"host"}, {}} :
          stRuntime' = [s \in ST!Live |-> IF s \in taken THEN stSaved[s] ELSE 0]
    BY <1>1 DEF ST!Restart
  <2>2. RequestsTyped' /\ DocumentTypes'
    BY <1>1, <2>1 DEF ST!Restart, RequestsTyped, SettingsRest, DocumentTypes, ST!Sections, ST!Values
  <2>3. stDisturbed' \in BOOLEAN
    BY <1>1, Zenon DEF ST!Restart
  <2> QED BY <1>1, <2>2, <2>3 DEF ST!Restart, SettingsRest, SettingFlags
<1>2. CASE ST!BeginSession \/ ST!StartProcess \/ ST!EndProcess \/ ST!EndSession \/ UNCHANGED ST!vars
  <2>1. /\ UNCHANGED <<stSaved, stRuntime, stRequest, stLock, stDisturbed, stRequests>>
        /\ stSession' \in {stSession, TRUE, FALSE} /\ stProcess' \in {stProcess, TRUE, FALSE}
    BY <1>2 DEF ST!BeginSession, ST!StartProcess, ST!EndProcess, ST!EndSession, ST!vars, ST!video
  <2> QED BY <2>1 DEF SettingsRest, DocumentTypes, RequestsTyped, SettingFlags
<1> QED BY <1>1, <1>2, FailsTypes, GoesTypes DEF ST!Next

------------------------------------------------------------------------------
\* A behaviour of the station is one of each part.

LEMMA StepsOfParts ==
  ASSUME [Next]_vars
  PROVE  /\ [VD!Next]_(VD!vars)
         /\ [AR!Next]_(AR!vars)
         /\ [NT!Next]_(NT!vars)
         /\ [DD!Next]_(DD!vars)
         /\ [FR!Next]_(FR!vars)
         /\ [OM!Next]_(OM!vars)
         /\ [RL!Next]_(RL!vars)
         /\ [ST!Next]_(ST!vars)
         /\ [DL!Next]_(DL!vars)
         /\ [PO!Next]_(PO!vars)
BY DEF Next, vars, vdVars, poVars, inVars, rlVars, ntVars, stVars, omVars, frVars, dlVars,
   ddVars, VD!vars,
   AR!history, AR!list, AR!vars, NT!files, NT!host, NT!vars, DD!session, DD!traffic,
   DD!vars, FR!cvars, FR!env, FR!known, FR!lvars, FR!vars, OM!tiles, OM!vars,
   RL!controlVars, RL!monitorVars, RL!relayVars, RL!vars, ST!vars, ST!video, DL!vars, PO!vars

LEMMA StartOfParts ==
  ASSUME Init
  PROVE  VD!Init /\ AR!Init /\ NT!Init /\ DD!Init /\ FR!Init /\ OM!Init /\ RL!Init /\ ST!Init
         /\ DL!Init /\ PO!Init
BY DEF Init

\* No expired target is forgotten between the two critical sections or handed to
\* the archive twice, and no deleted row comes back (pruneExpiredLocked,
\* archiveExpired), for any number of targets and callers.
THEOREM ExpiredHandedOver == Spec => []HandedOverOnce
<1>1. Init => ArchiveInv
  BY StartOfParts, InitArchive
<1>2. ArchiveInv /\ [Next]_vars => ArchiveInv'
  BY StepsOfParts, ArchiveStep
<1>3. ArchiveInv => HandedOverOnce
  BY DEF ArchiveInv, HandedOverOnce
<1> QED BY <1>1, <1>2, <1>3, PTL DEF Spec

\* Between updates that did not meet, and as long as putting back worked, the
\* managed document is one netplan accepts (network.Service.Update), for any
\* documents and clients.
THEOREM DocumentAccepted == Spec => []AcceptedAtRest
<1>1. NT!NetworkConstants
  BY StationConstants
<1>2. Init => NetworkInv
  BY <1>1, StartOfParts, InitNetwork
<1>3. NetworkInv /\ [Next]_vars => NetworkInv'
  BY <1>1, StepsOfParts, NetworkStep
<1>4. NetworkInv => AcceptedAtRest
  BY DEF NetworkInv, AcceptedAtRest, NT!AcceptedAtRest
<1> QED BY <1>2, <1>3, <1>4, PTL DEF Spec

\* Between requests that did not overlap the program runs with the settings, and the
\* manual location, that a restart would load (the settings route, applyUserSettings,
\* the manual-location handlers), for any number of clients and failures.
THEOREM RunsWithSaved == Spec => []RuntimeIsSaved
<1>1. DL!LocationConstants
  BY StationConstants
<1>2. Init => SettingsInv /\ LocationInv
  BY <1>1, StartOfParts, InitSettings, InitLocation
<1>3. SettingsInv /\ LocationInv /\ [Next]_vars => SettingsInv' /\ LocationInv'
  BY StepsOfParts, SettingsStep, LocationStep
<1>4. SettingsInv /\ LocationInv => RuntimeIsSaved
  BY DEF SettingsInv, LocationInv, RuntimeIsSaved, ST!RuntimeIsSaved
<1> QED BY <1>2, <1>3, <1>4, PTL DEF Spec

\* An installed map is not lost, and without disturbance the tiles in use and the
\* manifest are those installed last (offlinemap.Service.Upload), for any number of
\* uploads, failures and crashes.
THEOREM MapsAreKept == Spec => []MapKept
<1>1. OM!MapConstants
  BY StationConstants
<1>2. Init => MapInv /\ UploadClock
  BY <1>1, StartOfParts, InitMap
<1>3. MapInv /\ UploadClock /\ [Next]_vars => MapInv' /\ UploadClock'
  BY <1>1, StepsOfParts, MapStep
<1>4. MapInv => MapKept
  BY MapInvSuffices DEF MapKept
<1> QED BY <1>2, <1>3, <1>4, PTL DEF Spec

\* When the result of a decoded packet is added its drone is one row of the list,
\* whatever lines, placeholders and earlier results came before it, unless they crossed
\* (AddPosition, IngestLine, ingestEncryptedDID), for any number of drones and rows.
THEOREM RowIsOne == Spec => DecodedIsOneRow
<1>1. Init => PositionsInv
  BY StartOfParts, InitPositions
<1>2. PositionsInv /\ [Next]_vars => PositionsInv'
  BY StepsOfParts, PositionsStep
<1>3. PositionsInv /\ [Next]_vars
        => [\A j \in poJobs \ poJobs' :
              j.result = PO!Full /\ j.drone \notin poCrossed
                => PO!Cardinality(PO!Rows(poPositions', j.drone)) <= 1]_(PO!vars)
  BY StepsOfParts, DecodedRows
<1> QED BY <1>1, <1>2, <1>3, PTL DEF Spec, DecodedIsOneRow, PO!DecodedIsOneRow

LEMMA RelayFresh == Spec => RL!FreshAnswers
<1>1. Init => RelayInv /\ CommandTypes
  BY StartOfParts, InitRelay DEF RL!Init, CommandTypes
<1>2. RelayInv /\ CommandTypes /\ [Next]_vars => RelayInv' /\ CommandTypes'
  BY StepsOfParts, RelayStep, CommandTypesStep
<1>3. RelayInv /\ [Next]_vars
        => [RL!ReceiveOutputs /\ ~rlPushed => rlSeen'.after >= rlExecuted]_(RL!vars)
  BY StepsOfParts, OutputsStep
<1> QED BY <1>1, <1>2, <1>3, PTL DEF Spec, RL!FreshAnswers

\* An answer is taken for the question it answers: the relay's monitor passes on no
\* output from before a command that succeeded, unless one was reported unasked, an
\* answer of the decrypting platform reaches the packet that waits for it, and a
\* key counts only once it was accepted, for any number of commands, frames,
\* packets, faults and restarts of the session.
THEOREM AnswersMatchQuestions == Spec => AnswersMatch
<1>1. Spec => RL!FreshAnswers
  BY RelayFresh
<1>2. DD!DecoderConstants
  BY StationConstants
<1>3. Init => DecoderInv
  BY <1>2, StartOfParts, InitDecoder
<1>4. DecoderInv /\ [Next]_vars => DecoderInv'
  BY <1>2, StepsOfParts, DecoderStep
<1>5. DecoderInv => DD!KeyAccepted
  BY DEF DecoderInv, Accepted
<1>6. DecoderInv /\ [Next]_vars
        => [\A a \in ddAnswers \ ddAnswers' :
              (DD!At(a.request, "sent") \/ DD!At(a.request, "waiting"))
                => ddJobs'[a.request].got # None]_(DD!vars)
  BY <1>2, StepsOfParts, MessageArrives
<1> QED BY <1>1, <1>3, <1>4, <1>5, <1>6, PTL DEF Spec, AnswersMatch, DD!AnswerArrives

------------------------------------------------------------------------------
\* The receiver.  The two instances have the same definitions.
RP == INSTANCE FPVReceiverProofs WITH
  MaxChanges <- MaxPorts,
  port <- frPort, version <- frVersion, listener <- frListener,
  status <- frStatus, clients <- frClients, active <- frActive,
  loop <- frLoop, socket <- frSocket, conns <- frConns,
  closing <- frClosing, cancelled <- frCancelled, loose <- frLoose,
  taken <- frTaken, faults <- frFaults, command <- frCommand,
  waiter <- frWaiter

LEMMA ReceiverSame ==
  /\ FR!Init => RP!Init
  /\ [FR!Next]_(FR!vars) => [RP!Next]_(RP!vars)
BY DEF
   FR!Accept, RP!Accept, FR!AcceptFails, RP!AcceptFails, FR!At, RP!At,
   FR!Broken, RP!Broken, FR!Cancel, RP!Cancel, FR!Clear, RP!Clear,
   FR!CloseConnection, RP!CloseConnection, FR!CloseListener, RP!CloseListener,
   FR!CloseOld, RP!CloseOld, FR!Closed, RP!Closed,
   FR!CommandConnections, RP!CommandConnections, FR!CommandTimeout, RP!CommandTimeout,
   FR!ContextClosesConnection, RP!ContextClosesConnection,
   FR!ContextClosesListener, RP!ContextClosesListener, FR!Down, RP!Down, FR!End, RP!End,
   FR!EndConnection, RP!EndConnection, FR!EndListener, RP!EndListener,
   FR!Environment, RP!Environment, FR!Failed, RP!Failed, FR!Fault, RP!Fault,
   FR!HandleConnection, RP!HandleConnection, FR!Init, RP!Init, FR!LInit, RP!LInit,
   FR!Leave, RP!Leave, FR!LoopStep, RP!LoopStep, FR!Next, RP!Next,
   FR!NoClients, RP!NoClients, FR!Open, RP!Open, FR!Opened, RP!Opened, FR!Pick, RP!Pick,
   FR!ReadEnds, RP!ReadEnds, FR!Refused, RP!Refused, FR!Register, RP!Register,
   FR!RegisterSource, RP!RegisterSource, FR!RegisterWaiter, RP!RegisterWaiter,
   FR!Registered, RP!Registered, FR!Respond, RP!Respond, FR!Retry, RP!Retry,
   FR!Run, RP!Run, FR!SendATCommand, RP!SendATCommand, FR!Serve, RP!Serve,
   FR!SetFPVPort, RP!SetFPVPort, FR!SetListenerState, RP!SetListenerState,
   FR!SetPort, RP!SetPort, FR!Shut, RP!Shut, FR!Store, RP!Store, FR!Take, RP!Take,
   FR!To, RP!To, FR!Top, RP!Top, FR!Unregister, RP!Unregister,
   FR!UnregisterSource, RP!UnregisterSource, FR!Up, RP!Up, FR!Used, RP!Used,
   FR!Write, RP!Write, FR!WriteFails, RP!WriteFails, FR!config, RP!config,
   FR!cvars, RP!cvars, FR!env, RP!env, FR!known, RP!known, FR!lvars, RP!lvars,
   FR!vars, RP!vars

\* A receiver that accepts does so on the port it was told last, says so, and what
\* it reads came from there (fpv.Service.Run, SetPort), for any ports, addresses,
\* connections and failures.
THEOREM Listens == Spec => []ListensWhereTold
<1>1. RP!ListenerConstants
  <2>1. FR!ListenerConstants
    BY StationConstants
  <2> QED BY <2>1 DEF FR!ListenerConstants, RP!ListenerConstants, FR!Connections, RP!Connections
<1>2. Init => RP!Init
  BY StartOfParts, ReceiverSame
<1>3. [Next]_vars => [RP!Next]_(RP!vars)
  BY StepsOfParts, ReceiverSame
<1>4. RP!Spec => []RP!ListensWhereTold
  BY <1>1, RP!ListensThere
<1>5. RP!ListensWhereTold => ListensWhereTold
  BY DEF ListensWhereTold,
   FR!At, RP!At, FR!ListensWhereTold, RP!ListensWhereTold, FR!Up, RP!Up
<1> QED BY <1>2, <1>3, <1>4, <1>5, PTL DEF Spec, RP!Spec

------------------------------------------------------------------------------
\* The video.  The two instances have the same definitions.
VP == INSTANCE FPVVideoProofs WITH
  Viewers <- Clients,
  session <- vdSession, nextId <- vdNextId, viewer <- vdViewer,
  stop <- vdStop, shut <- vdShut, closing <- vdClosing, link <- vdLink,
  pipe <- vdPipe, tuned <- vdTuned, command <- vdCommand,
  recordPath <- vdRecordPath, process <- vdProcess,
  publisher <- vdPublisher, rtmp <- vdRtmp, records <- vdRecords,
  events <- vdEvents, overlap <- vdOverlap, misread <- vdMisread

LEMMA VideoSame ==
  /\ VD!VideoConstants => VP!VideoConstants
  /\ VD!Init => VP!Init
  /\ [VD!Next]_(VD!vars) => [VP!Next]_(VP!vars)
BY DEF
   VD!Answer, VP!Answer, VD!Answered, VP!Answered, VD!Attempts, VP!Attempts,
   VD!Begin, VP!Begin, VD!BeginShutdown, VP!BeginShutdown, VD!Calling, VP!Calling,
   VD!Cancel, VP!Cancel, VD!ClientGoes, VP!ClientGoes, VD!Close, VP!Close,
   VD!CloseByToken, VP!CloseByToken, VD!Closed, VP!Closed, VD!Connects, VP!Connects,
   VD!Device, VP!Device, VD!Disconnects, VP!Disconnects, VD!Ended, VP!Ended,
   VD!Event, VP!Event, VD!Free, VP!Free, VD!Go, VP!Go, VD!Handler, VP!Handler,
   VD!Init, VP!Init, VD!Kill, VP!Kill, VD!Killed, VP!Killed, VD!Leave, VP!Leave,
   VD!Next, VP!Next, VD!NoClose, VP!NoClose, VD!NoStop, VP!NoStop,
   VD!NoViewer, VP!NoViewer, VD!OffAnswered, VP!OffAnswered, VD!OffFailed, VP!OffFailed,
   VD!Outcomes, VP!Outcomes, VD!Own, VP!Own, VD!ProcessEnds, VP!ProcessEnds,
   VD!PublisherEnds, VP!PublisherEnds, VD!Quiet, VP!Quiet, VD!Reached, VP!Reached,
   VD!Release, VP!Release, VD!Served, VP!Served, VD!Sessions, VP!Sessions,
   VD!SetRTMP, VP!SetRTMP, VD!ShutdownCloses, VP!ShutdownCloses, VD!Start, VP!Start,
   VD!Starting, VP!Starting, VD!StopClosed, VP!StopClosed, VD!Stopper, VP!Stopper,
   VD!Stopping, VP!Stopping, VD!Threads, VP!Threads, VD!Timeout, VP!Timeout,
   VD!Told, VP!Told, VD!Tune, VP!Tune, VD!TuneAnswered, VP!TuneAnswered,
   VD!TurnOff, VP!TurnOff, VD!VideoConstants, VP!VideoConstants, VD!Wait, VP!Wait,
   VD!Work, VP!Work, VD!converter, VP!converter, VD!vars, VP!vars

\* The invariant of the video is one of the station.
LEMMA VideoInvariant == Spec => []VP!VideoInv
<1>1. VP!VideoConstants
  BY StationConstants, VideoSame
<1>2. Init => VP!VideoInv
  BY <1>1, StartOfParts, VideoSame, VP!InitVideo
<1>3. VP!VideoInv /\ [Next]_vars => VP!VideoInv'
  BY <1>1, StepsOfParts, VideoSame, VP!VideoStep
<1> QED BY <1>2, <1>3, PTL DEF Spec

\* While nobody watches no converter and no publisher runs that has not been told
\* to end, however the session ended and whatever failed on the way
\* (stopFPVVideo, its deferred calls and Server.Shutdown), unless a shutdown met a
\* viewer that was starting; for any number of viewers, sessions and failures.
THEOREM NothingRunsOn == Spec => []NothingLeftRunning
<1>1. VP!VideoInv => NothingLeftRunning
  BY VP!VideoSafe DEF NothingLeftRunning, VD!NothingLeftRunning, VP!NothingLeftRunning
<1> QED BY <1>1, VideoInvariant, PTL

\* A viewer that watches keeps its session and the process that serves it until
\* its own client leaves or closes it: no handler or stop of an earlier session
\* takes it away (stopFPVVideoSessionByID, stopFPVVideoSessionByToken,
\* tryBeginFPVVideoSessionWithRecording).
THEOREM StreamIsKept == Spec => []ViewerKeepsStream
<1>1. VP!VideoInv => ViewerKeepsStream
  BY VP!VideoSafe DEF ViewerKeepsStream, VD!ViewerKeepsStream, VP!ViewerKeepsStream
<1> QED BY <1>1, VideoInvariant, PTL

\* A recording shown as ready is complete: no process writes it any more and no
\* command on its way can tune the device to it, unless an answer was misread or a
\* shutdown met a viewer that was starting (persistFPVVideoRecord, StopVideo).
THEOREM ReadyIsComplete == Spec => []ReadyRecordComplete
<1>1. VP!VideoInv => ReadyRecordComplete
  BY VP!VideoSafe DEF ReadyRecordComplete, VD!ReadyRecordComplete, VP!ReadyRecordComplete,
     VD!Sessions, VP!Sessions
<1> QED BY <1>1, VideoInvariant, PTL

------------------------------------------------------------------------------
\* The types of the whole station, part by part.
LEMMA ReceiverTypes == Spec => []FR!TypeOK
<1>1. RP!ListenerConstants
  BY StationConstants
     DEF FR!ListenerConstants, RP!ListenerConstants, FR!Connections, RP!Connections
<1>2. Init => RP!IInv
  BY <1>1, StartOfParts, ReceiverSame, RP!InitIInv
<1>3. RP!IInv /\ [Next]_vars => RP!IInv'
  BY <1>1, StepsOfParts, ReceiverSame, RP!IInvStep
<1>4. RP!IInv => FR!TypeOK
  <2>1. RP!IInv => RP!TypeOK
    BY RP!IInvIs
  <2>2. RP!TypeOK => FR!TypeOK
    BY DEF FR!TypeOK, RP!TypeOK, FR!LTypeOK, RP!LTypeOK, FR!Down, RP!Down, FR!Up, RP!Up,
       FR!Failed, RP!Failed, FR!Connections, RP!Connections
  <2> QED BY <2>1, <2>2
<1> QED BY <1>2, <1>3, <1>4, PTL DEF Spec

LEMMA VideoTypes == Spec => []VD!TypeOK
<1>1. VP!VideoInv => VP!TypeOK
  BY DEF VP!VideoInv
<1>2. VP!TypeOK => VD!TypeOK
  BY DEF VD!TypeOK, VP!TypeOK, VD!Attempts, VP!Attempts, VD!Threads, VP!Threads,
     VD!Closes, VP!Closes, VD!Sessions, VP!Sessions
<1> QED BY <1>1, <1>2, VideoInvariant, PTL

LEMMA ArchiveTypes == Spec => []AR!TypeOK
<1>1. AR!IntrusionConstants
  BY StationConstants
<1>2. Init => ArchiveInv /\ ArchiveRest
  BY <1>1, StartOfParts, InitArchive, InitArchiveRest
<1>3. ArchiveInv /\ ArchiveRest /\ [Next]_vars => ArchiveInv' /\ ArchiveRest'
  BY <1>1, StepsOfParts, ArchiveStep, ArchiveRestStep
<1> QED BY <1>2, <1>3, ArchiveTypesAre, PTL DEF Spec

LEMMA DecoderIsTyped == Spec => []DD!TypeOK
<1>1. DD!DecoderConstants
  BY StationConstants
<1>2. Init => DecoderInv /\ DecoderRest
  BY <1>1, StartOfParts, InitDecoder, InitDecoderRest
<1>3. DecoderInv /\ DecoderRest /\ [Next]_vars => DecoderInv' /\ DecoderRest'
  BY <1>1, StepsOfParts, DecoderStep, DecoderRestStep
<1>4. DecoderInv /\ DecoderRest => DD!TypeOK
  BY <1>1, DecoderTypesAre DEF DecoderInv
<1> QED BY <1>2, <1>3, <1>4, PTL DEF Spec

LEMMA RelayTypes == Spec => []RL!TypeOK
<1> DEFINE Inv == RelayInv /\ CommandTypes /\ RelayRest
<1>1. RL!RelayConstants
  BY StationConstants
<1>2. Init => Inv
  BY <1>1, StartOfParts, InitRelay, InitRelayRest DEF RL!Init, CommandTypes
<1>3. Inv /\ [Next]_vars => Inv'
  BY <1>1, StepsOfParts, RelayStep, CommandTypesStep, RelayRestStep
<1>4. Inv => RL!TypeOK
  BY <1>1, RelayTypesAre
<1> QED BY <1>2, <1>3, <1>4, PTL DEF Spec

LEMMA MapsAreTyped == Spec => []OM!TypeOK
<1> DEFINE Inv == MapInv /\ UploadClock /\ MapRest
<1>1. OM!MapConstants
  BY StationConstants
<1>2. Init => Inv
  BY <1>1, StartOfParts, InitMap, InitMapRest
<1>3. Inv /\ [Next]_vars => Inv'
  BY <1>1, StepsOfParts, MapStep, MapRestStep
<1>4. Inv => OM!TypeOK
  BY MapTypesAre
<1> QED BY <1>2, <1>3, <1>4, PTL DEF Spec

LEMMA SettingsAreTyped == Spec => []ST!TypeOK
<1>1. ST!SettingsConstants
  BY StationConstants
<1>2. Init => SettingsInv /\ SettingsRest
  BY <1>1, StartOfParts, InitSettings, InitSettingsRest
<1>3. SettingsInv /\ SettingsRest /\ [Next]_vars => SettingsInv' /\ SettingsRest'
  BY <1>1, StepsOfParts, SettingsStep, SettingsRestStep
<1>4. SettingsInv /\ SettingsRest => ST!TypeOK
  BY SettingsTypesAre
<1> QED BY <1>2, <1>3, <1>4, PTL DEF Spec

LEMMA SmallPartsTyped == Spec => [](NT!TypeOK /\ DL!TypeOK /\ PO!TypeOK)
<1> DEFINE Inv == NetworkInv /\ DL!TypeOK /\ PositionsInv
<1>1. NT!NetworkConstants /\ DL!LocationConstants
  BY StationConstants
<1>2. Init => Inv
  BY <1>1, StartOfParts, InitNetwork, InitLocationTypes, InitPositions
<1>3. Inv /\ [Next]_vars => Inv'
  BY <1>1, StepsOfParts, NetworkStep, LocationTypes, PositionsStep
<1>4. Inv => NT!TypeOK /\ DL!TypeOK /\ PO!TypeOK
  BY DEF NetworkInv, PositionsInv
<1> QED BY <1>2, <1>3, <1>4, PTL DEF Spec

\* Every part of the station stays within its types, the bounds on its queues, its
\* queries and its requests in flight among them, for any number of clients, drones,
\* frames, packets, uploads, failures and restarts.
THEOREM TypesAreKept == Spec => []TypeOK
<1>1. /\ FR!TypeOK /\ VD!TypeOK /\ AR!TypeOK /\ DD!TypeOK /\ RL!TypeOK /\ OM!TypeOK
      /\ ST!TypeOK /\ NT!TypeOK /\ DL!TypeOK /\ PO!TypeOK
      => TypeOK
  BY DEF TypeOK
<1> QED BY <1>1, ReceiverTypes, VideoTypes, ArchiveTypes, DecoderIsTyped, RelayTypes, MapsAreTyped,
           SettingsAreTyped, SmallPartsTyped, PTL
==============================================================================
