----------------------------- MODULE Intrusions ------------------------------
(***************************************************************************)
(* The way of a positioning target from the live list into the intrusion     *)
(* archive (internal/store, internal/intrusion, the intrusion routes).       *)
(* Nothing sweeps the list: whoever reads or feeds it moves what has expired  *)
(* into a list of the store, then takes that whole list away in a second      *)
(* critical section and inserts target after target, without a retry.         *)
(*                                                                         *)
(* A target is one appearance of a drone, with its own id and first-seen      *)
(* time: the row's id.  Which reports make one is in Positions; what else is  *)
(* in a row, the place of the receiver for one (DeviceLocation), is left out. *)
(***************************************************************************)
EXTENDS Naturals, FiniteSets

CONSTANTS
  Targets, Uncracked, Callers, MaxLive, Retention, MaxDay, MaxFailures
IntrusionConstants ==
  /\ Uncracked \subseteq Targets /\ IsFiniteSet(Targets)
  /\ MaxLive \in Nat \ {0} /\ MaxDay \in Nat
  /\ Retention \in Nat \ {0} /\ MaxFailures \in Nat

VARIABLES
  live,     \* Store.positions
  expired,  \* Store.expiredPositions
  caller,   \* per goroutine: idle, about to pop, or what it has yet to insert
  db,       \* the rows: target and day of archiving
  day,      \* bound: the clock in days, up to MaxDay
  seen,     \* history: targets that have been in the list
  tried,    \* history: targets whose archiving has been tried
  lost,     \* history: targets dropped from memory: trimmed, absorbed, restart
  deleted,  \* history: rows an operator or the retention has removed
  failures  \* bound: failed insertions and restarts so far

list == <<live, expired, caller>>
history == <<seen, tried, lost, deleted>>
vars == <<list, db, day, history, failures>>

Idle == [at |-> "idle", batch |-> {}]
Popping == [at |-> "pop", batch |-> {}]

Init ==
  /\ live = {} /\ expired = {} /\ caller = [c \in Callers |-> Idle]
  /\ db = {} /\ day = 0 /\ seen = {} /\ tried = {} /\ lost = {} /\ deleted = {}
  /\ failures = 0

Popped == UNION {caller[c].batch : c \in Callers}
Fault == failures < MaxFailures /\ failures' = failures + 1
------------------------------------------------------------------------------
\* prunePositionsLocked, within a call that reads the list (Positions,
\* SetPositionTTL, HasCrackedScreenPosition...): what has expired is kept aside.
Prune(c, old) ==
  /\ caller[c] = Idle /\ old \subseteq live
  /\ expired' = expired \cup old
  /\ caller' = [caller EXCEPT ![c] = Popping]
  /\ UNCHANGED <<db, day, tried, deleted, failures>>
Read(c) ==
  \E old \in SUBSET live :
    Prune(c, old) /\ live' = live \ old /\ UNCHANGED <<seen, lost>>

\* AddPosition of a new target; what the limit or the absorption takes out of
\* the list is not kept.
AddPosition(c) ==
  \E t \in Targets \ seen, old \in SUBSET live :
    LET all == (live \ old) \cup {t}
    IN /\ Prune(c, old) /\ seen' = seen \cup {t}
       /\ \/ Cardinality(all) <= MaxLive /\ live' = all /\ UNCHANGED lost
          \/ \E d \in all : live' = all \ {d} /\ lost' = lost \cup {d}

\* popExpiredPositions.
\* Mutant: the list is read and not emptied.
PopKeeps(c) ==
  /\ caller[c] = Popping
  /\ caller' = [caller EXCEPT ![c] =
       IF expired = {} THEN Idle ELSE [at |-> "insert", batch |-> expired]]
  /\ UNCHANGED <<live, expired, db, day, history, failures>>
Pop(c) ==
  /\ caller[c] = Popping
  /\ caller' = [caller EXCEPT ![c] =
       IF expired = {} THEN Idle ELSE [at |-> "insert", batch |-> expired]]
  /\ expired' = {}
  /\ UNCHANGED <<live, db, day, history, failures>>
------------------------------------------------------------------------------
(* archiveExpiredPositions.                                                 *)

Record(t) == [id |-> t, day |-> day]

\* INSERT OR IGNORE.
Insert(t) ==
  db' = IF \E r \in db : r.id = t THEN db ELSE db \cup {Record(t)}

\* One target of the batch is done with.
Done(c, t) ==
  /\ caller[c].at = "insert" /\ t \in caller[c].batch
  /\ tried' = tried \cup {t}
  /\ caller' = [caller EXCEPT ![c] =
       IF @.batch = {t} THEN Idle
       ELSE [at |-> "insert", batch |-> @.batch \ {t}]]
  /\ UNCHANGED <<live, expired, day, seen, lost, deleted>>

\* A drone that was never decoded is not archived.
ArchivePosition(c, t) ==
  /\ Done(c, t) /\ IF t \in Uncracked THEN UNCHANGED db ELSE Insert(t)
  /\ UNCHANGED failures

\* The database does not answer within five seconds; it may have inserted the
\* row all the same.  The failure is logged.
ArchiveFails(c, t) ==
  /\ t \notin Uncracked /\ Done(c, t) /\ Fault
  /\ UNCHANGED db \/ Insert(t)
------------------------------------------------------------------------------
(* What removes rows.                                                       *)

Remove(rows) ==
  /\ db' = db \ rows /\ deleted' = deleted \cup {r.id : r \in rows}
  /\ UNCHANGED <<list, day, seen, tried, lost, failures>>

\* handleDeleteIntrusions and Delete.
Delete == \E rows \in (SUBSET db) \ {{}} : Remove(rows)

\* PruneRetention, when the settings are saved and now and then with a listing.
\* What was archived earlier on the last day that counts is old as well.
Old == {r \in db : r.day + Retention <= day}
PruneRetention ==
  \E rows \in (SUBSET Old) \ {{}} :
    {r \in Old : r.day + Retention < day} \subseteq rows /\ Remove(rows)
------------------------------------------------------------------------------
\* The program ends and starts: what is in memory is gone, only FPV targets are
\* archived at the end; insertions under way may have been carried out.
Restart ==
  /\ Fault
  /\ live' = {} /\ expired' = {} /\ caller' = [c \in Callers |-> Idle]
  /\ lost' = lost \cup live \cup expired \cup Popped
  /\ \E late \in SUBSET (Popped \ Uncracked) :
       db' = db \cup {Record(t) : t \in {u \in late : \A r \in db : r.id # u}}
  /\ UNCHANGED <<day, seen, tried, deleted>>

Tick ==
  /\ day < MaxDay /\ day' = day + 1
  /\ UNCHANGED <<list, db, history, failures>>

Next ==
  \/ \E c \in Callers :
       \/ Read(c) \/ AddPosition(c) \/ Pop(c)
       \/ \E t \in Targets : ArchivePosition(c, t) \/ ArchiveFails(c, t)
  \/ Delete \/ PruneRetention
  \/ Restart \/ Tick

Spec == Init /\ [][Next]_vars
------------------------------------------------------------------------------
TypeOK ==
  /\ live \subseteq Targets /\ Cardinality(live) <= MaxLive
  /\ expired \subseteq Targets
  /\ caller \in [Callers -> [at : {"idle", "pop", "insert"}, batch : SUBSET Targets]]
  /\ db \subseteq [id : Targets, day : 0..MaxDay]
  /\ day \in 0..MaxDay /\ failures \in 0..MaxFailures
  /\ {seen, tried, lost, deleted} \subseteq SUBSET Targets

\* Each target that expires is handed to the archive once, by whichever of the
\* callers comes first: none is forgotten between the two critical sections or
\* taken twice, what was set aside has somebody who will take it, and a row that
\* was removed does not come back.
HandedOverOnce ==
  /\ seen = live \cup expired \cup Popped \cup tried \cup lost
  /\ (live \cup expired \cup Popped) \cap tried = {}
  /\ (live \cup expired) \cap Popped = {}
  /\ \A c, d \in Callers : c # d => caller[c].batch \cap caller[d].batch = {}
  /\ expired # {} => \E c \in Callers : caller[c] = Popping
  /\ \A r \in db : r.id \notin deleted
==============================================================================
