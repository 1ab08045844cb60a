----------------------------- MODULE FPVArchive -----------------------------
(***************************************************************************)
(* The FPV targets of internal/store: signals merge into live targets,       *)
(* targets retire by age, by capacity or when the program stops, every       *)
(* change is published in order, and retired targets wait in a bounded ring  *)
(* for the intrusion archive, which may fail.                                *)
(*                                                                           *)
(* Time is left out: a target may expire at any moment, and an order of the  *)
(* live targets by LastSeen is all that is kept of their ages.               *)
(***************************************************************************)
EXTENDS Integers, SequencesExt

CONSTANTS MaxTargets,   \* bound: targets that appear in one behaviour
          Frequencies, Tolerance,  \* signals nearer than Tolerance may be the same
          Serials, NoSerial,       \* device serial numbers; most signals have none
          Receivers,    \* connections and API requests
          Capacity,     \* maxFPV
          QueueLimit,   \* fpvArchiveQueueLimit
          BatchSize,    \* fpvArchiveBatchSize
          Refused,      \* targets the archive never takes
          MaxSignals, MaxDrains, MaxFaults  \* bounds

Ids == 1..MaxTargets
Sweeper == "sweeper"
Drainer == "drainer"
Flushers == {Sweeper, Drainer}
Actors == Receivers \cup Flushers
Nobody == "nobody"

ASSUME FPVArchiveAssumption ==
  /\ Frequencies \subseteq Int /\ Tolerance \in Nat
  /\ NoSerial \notin Serials
  /\ Receivers \cap (Flushers \cup {Nobody}) = {}
  /\ {Capacity, QueueLimit, BatchSize} \subseteq Nat \ {0}
  /\ Refused \subseteq Ids
  /\ {MaxTargets, MaxSignals, MaxDrains, MaxFaults} \subseteq Nat

VARIABLES
  live,      \* s.fpv, oldest LastSeen first
  slots, head,  \* pendingFPV and pendingFPVHead
  next,      \* fpvSeq + 1
  eventMu,   \* who holds fpvEventMu
  outbox,    \* per actor: the events it has still to publish
  told,      \* what a subscriber was last told of each target
  gate,      \* who holds fpvArchiveGate
  flush,     \* per flusher: where it is in flushFPVArchives
  backoff,   \* fpvArchiveRetryAt lies in the future
  db,        \* intrusion_records
  valid,     \* history: targets of which some signal was valid
  evicted,   \* history: candidates overwritten in the ring (fpvArchiveDropped counts them)
  due,       \* history: what the current drain has to deliver
  signals, drains, faults  \* the bounds' counters

list == <<live, next, valid>>
queue == <<slots, head, evicted>>
events == <<eventMu, outbox, told>>
archive == <<gate, flush, backoff, db, due>>
budget == <<signals, drains, faults>>
vars == <<list, queue, events, archive, budget>>

Target == [id : Ids, frequency : Frequencies, serial : Serials \cup {NoSerial}, everValid : BOOLEAN]
Signal == [frequency : Frequencies, serial : Serials \cup {NoSerial}, valid : BOOLEAN]
Event == [type : {"updated", "removed"}, id : Ids]
IdleFlush == [pc |-> "idle", left |-> 0, batch |-> <<>>, ok |-> {}, tried |-> FALSE, err |-> FALSE]

LiveIds == {live[i].id : i \in DOMAIN live}
Pending == ToSet(slots)

TypeOK ==
  /\ live \in BoundedSeq(Target, Capacity)
  /\ slots \in BoundedSeq(Ids, QueueLimit) /\ IsInjective(slots)
  /\ head \in 0..(QueueLimit - 1) /\ (head # 0 => Len(slots) = QueueLimit)
  /\ next \in Nat \ {0}
  /\ eventMu \in Actors \cup {Nobody}
  /\ outbox \in [Actors -> Seq(Event)]
  /\ told \in [Ids -> {"nothing", "updated", "removed"}]
  /\ gate \in Flushers \cup {Nobody}
  /\ flush \in [Flushers -> [pc : {"idle", "gate", "take", "archive", "apply", "end"},
                            left : Nat, batch : Seq(Ids), ok : SUBSET Ids,
                            tried : BOOLEAN, err : BOOLEAN]]
  /\ backoff \in BOOLEAN
  /\ {db, valid, evicted, due} \subseteq SUBSET Ids
  /\ {signals, drains, faults} \subseteq Nat

-----------------------------------------------------------------------------
(* Which live target a signal belongs to.                                   *)

Near(t, s) == t.frequency - s.frequency \in (1 - Tolerance)..(Tolerance - 1)
Only(S) == IF Cardinality(S) = 1 THEN S ELSE {}

SameSerial(targets, s) ==
  {i \in DOMAIN targets : targets[i].serial = s.serial}
SameSerialNear(targets, s) ==
  {i \in DOMAIN targets : targets[i].serial = s.serial /\ Near(targets[i], s)}
WithSerial(targets, s) == SameSerial(targets, s)
Anonymous(targets, s) ==
  {i \in DOMAIN targets : targets[i].serial = NoSerial /\ Near(targets[i], s)}
Known(targets, s) ==
  {i \in DOMAIN targets : targets[i].serial # NoSerial /\ Near(targets[i], s)}

\* The index of the target to merge with, as a set of at most one.  A signal
\* that could belong to several targets becomes one of its own.
Find(targets, s) ==
  IF s.serial # NoSerial
    THEN IF WithSerial(targets, s) # {} THEN WithSerial(targets, s)
                                        ELSE Only(Anonymous(targets, s))
    ELSE IF Anonymous(targets, s) # {} THEN Only(Anonymous(targets, s))
                                       ELSE Only(Known(targets, s))

EverValid(t, s) == t.everValid \/ s.valid

\* The signal is newer than "after" of the live targets: an older one than the
\* target itself leaves its frequency and its place.
Merged(targets, i, s, after) ==
  LET known == [targets[i] EXCEPT !.serial = IF @ = NoSerial THEN s.serial ELSE @,
                                  !.everValid = EverValid(targets[i], s)]
  IN IF after < i
       THEN [targets EXCEPT ![i] = known]
       ELSE InsertAt(RemoveAt(targets, i), after, [known EXCEPT !.frequency = s.frequency])

Fresh(s) == [id |-> next, frequency |-> s.frequency, serial |-> s.serial, everValid |-> s.valid]

-----------------------------------------------------------------------------
(* Retirement: the ring and the events.                                     *)

Enqueue(q, id) ==
  IF Len(q.slots) < QueueLimit
    THEN [q EXCEPT !.slots = Append(@, id)]
    ELSE [slots |-> [q.slots EXCEPT ![q.head + 1] = id],
          head |-> (q.head + 1) % Len(q.slots),
          evicted |-> q.evicted \cup {q.slots[q.head + 1]}]

\* retireFPVLocked: only targets that were valid once become candidates.
QueueAfter(targets) ==
  LET queued[n \in 0..Len(targets)] ==
        IF n = 0 THEN [slots |-> slots, head |-> head, evicted |-> evicted]
        ELSE IF targets[n].everValid THEN Enqueue(queued[n - 1], targets[n].id)
                                     ELSE queued[n - 1]
  IN queued[Len(targets)]
Retire(targets) ==
  LET q == QueueAfter(targets)
  IN slots' = q.slots /\ head' = q.head /\ evicted' = q.evicted

Removals(targets) == [i \in DOMAIN targets |-> [type |-> "removed", id |-> targets[i].id]]
Update(id) == <<[type |-> "updated", id |-> id]>>

\* fpvEventMu is held from the change until its last event is published.
EventMuIgnored == TRUE
EventMuFree == eventMu = Nobody
Announce(a, evts) ==
  /\ outbox[a] = <<>>
  /\ outbox' = [outbox EXCEPT ![a] = evts]
  /\ eventMu' = IF evts = <<>> THEN Nobody ELSE a
  /\ UNCHANGED told

\* pruneFPVLocked: the k targets seen longest ago have expired; they retire in
\* the order of the slice, which is any.
Expired(k) == IF k < 2 THEN {SubSeq(live, 1, k)} ELSE SetToSeqs(ToSet(SubSeq(live, 1, k)))
Remaining(k) == SubSeq(live, k + 1, Len(live))
Prune(a, k, order) ==
  /\ EventMuFree
  /\ live' = Remaining(k)
  /\ Retire(order)
  /\ Announce(a, Removals(order))
  /\ UNCHANGED <<next, valid>>

-----------------------------------------------------------------------------
(* AddFPV, and the reads of the API, which prune as well.                   *)

\* trimNewestFPV: one target too many, the one seen longest ago goes.
Trimmed(targets) == SubSeq(targets, 1, Len(targets) - Capacity)
Kept(targets) == SubSeq(targets, 1 + Len(Trimmed(targets)), Len(targets))

\* A new target that is trimmed at once is not announced.
Announced(id, targets) ==
  IF \E i \in DOMAIN targets : targets[i].id = id THEN Update(id) ELSE <<>>

AddFPV(r, s, k, order, after) ==
  /\ EventMuFree
  /\ signals < MaxSignals /\ signals' = signals + 1
  /\ LET targets == Remaining(k)
         found == Find(targets, s)
     IN /\ after \in 0..Len(targets)
        /\ IF found = {}
             THEN LET all == InsertAt(targets, after + 1, Fresh(s))
                  IN /\ next \in Ids /\ next' = next + 1
                     /\ live' = Kept(all)
                     /\ Retire(order \o Trimmed(all))
                     /\ Announce(r, Removals(order \o Trimmed(all))
                                      \o Announced(next, Kept(all)))
                     /\ valid' = IF s.valid THEN valid \cup {next} ELSE valid
             ELSE LET i == CHOOSE i \in found : TRUE
                  IN /\ live' = Merged(targets, i, s, after)
                     /\ Retire(order)
                     /\ Announce(r, Removals(order) \o Update(targets[i].id))
                     /\ valid' = IF s.valid THEN valid \cup {targets[i].id} ELSE valid
                     /\ UNCHANGED next
  /\ UNCHANGED <<archive, drains, faults>>

Query(r, k, order) == Prune(r, k, order) /\ UNCHANGED <<archive, budget>>

\* Publish never waits.  A subscriber whose channel is full misses the event:
\* the others arrive in the same order, so it is left out here.
Publish(a) ==
  /\ outbox[a] # <<>>
  /\ told' = [told EXCEPT ![Head(outbox[a]).id] = Head(outbox[a]).type]
  /\ outbox' = [outbox EXCEPT ![a] = Tail(@)]
  /\ eventMu' = IF outbox'[a] = <<>> THEN Nobody ELSE eventMu
  /\ UNCHANGED <<list, queue, archive, budget>>

-----------------------------------------------------------------------------
(* SweepFPV, DrainFPV and the flush they end with.                          *)

At(p, pc) == flush[p].pc = pc
Fault == faults < MaxFaults /\ faults' = faults + 1

Sweep(k, order) ==
  /\ At(Sweeper, "idle")
  /\ Prune(Sweeper, k, order)
  /\ flush' = [flush EXCEPT ![Sweeper] = [IdleFlush EXCEPT !.pc = "gate"]]
  /\ UNCHANGED <<gate, backoff, db, due, budget>>

Drain(order) ==
  /\ At(Drainer, "idle")
  /\ drains < MaxDrains /\ drains' = drains + 1
  /\ Prune(Drainer, Len(live), order)
  /\ due' = Pending \cup (LiveIds \cap valid)
  /\ flush' = [flush EXCEPT ![Drainer] = [IdleFlush EXCEPT !.pc = "gate"]]
  /\ UNCHANGED <<gate, backoff, db, signals, faults>>

\* Only the drain goes on after its first batch: until it has tried as many as
\* were pending when it passed the gate.
LeftOneBatch(p) == BatchSize
Left(p) == IF p = Drainer THEN Len(slots) ELSE BatchSize

Enter(p) ==
  /\ At(p, "gate") /\ outbox[p] = <<>>
  /\ gate = Nobody
  /\ IF slots = <<>> \/ (p = Sweeper /\ backoff)
       THEN UNCHANGED gate /\ flush' = [flush EXCEPT ![p] = IdleFlush]
       ELSE gate' = p /\ flush' = [flush EXCEPT ![p].pc = "take", ![p].left = Left(p)]
  /\ UNCHANGED <<list, queue, events, backoff, db, due, budget>>

\* The caller's context ends while it waits at the gate.
GiveUp(p) ==
  /\ At(p, "gate") /\ outbox[p] = <<>> /\ gate # Nobody
  /\ Fault
  /\ flush' = [flush EXCEPT ![p] = IdleFlush]
  /\ UNCHANGED <<list, queue, events, gate, backoff, db, due, signals, drains>>

InOrder == [i \in DOMAIN slots |-> slots[((head + i - 1) % Len(slots)) + 1]]
Lesser(a, b) == IF a < b THEN a ELSE b

\* nextFPVArchiveBatch copies the candidates: they stay in the ring.
Take(p) ==
  /\ At(p, "take")
  /\ LET batch == SubSeq(InOrder, 1, Lesser(Len(slots), Lesser(BatchSize, flush[p].left)))
     IN flush' = IF batch = <<>>
                   THEN [flush EXCEPT ![p].pc = "end"]
                   ELSE [flush EXCEPT ![p].pc = "archive", ![p].batch = batch]
  /\ UNCHANGED <<list, queue, events, gate, backoff, db, due, budget>>

\* INSERT OR IGNORE: what is there already stays as it is.
Insert(ids) == db' = db \cup ids

\* archiveFPVBatch: each insertion succeeds or not, and one that fails may have
\* been carried out all the same.
Archive(p) ==
  /\ At(p, "archive")
  /\ \E ok \in SUBSET (ToSet(flush[p].batch) \ Refused) :
       LET failed == ToSet(flush[p].batch) \ (ok \cup Refused)
       IN /\ IF failed = {} THEN UNCHANGED faults ELSE Fault
          /\ \E late \in SUBSET failed : Insert(ok \cup late)
          /\ flush' = [flush EXCEPT ![p].pc = "apply", ![p].ok = ok, ![p].tried = TRUE,
                                     ![p].err = @ \/ ok # ToSet(flush[p].batch)]
  /\ UNCHANGED <<list, queue, events, gate, backoff, due, signals, drains>>

\* What of a queue is in S, in the order of the queue.
Among(q, S) ==
  LET chosen[n \in 0..Len(q)] ==
        IF n = 0 THEN <<>>
        ELSE IF q[n] \in S THEN Append(chosen[n - 1], q[n]) ELSE chosen[n - 1]
  IN chosen[Len(q)]

\* applyFPVArchiveBatch looks the targets up again, for the ring may have moved
\* on meanwhile: what succeeded leaves, what failed goes to the end.
RetryFirst(q, ok, failed) == Among(q, failed) \o Among(q, ToSet(q) \ (ok \cup failed))
RetryByCount(q, ok, failed) ==
  LET n == Lesser(Len(q), Cardinality(ok \cup failed))
  IN SubSeq(q, n + 1, Len(q)) \o Among(SubSeq(q, 1, n), failed)
RetryLast(q, ok, failed) == Among(q, ToSet(q) \ (ok \cup failed)) \o Among(q, failed)

HeadKept(h) == h
HeadAfter(h) == 0

Apply(p) ==
  /\ At(p, "apply")
  /\ slots' = RetryLast(InOrder, flush[p].ok, ToSet(flush[p].batch) \ flush[p].ok)
  /\ head' = HeadAfter(head)
  /\ \E stop \in BOOLEAN :     \* the context has ended
       /\ IF stop /\ p = Drainer THEN Fault ELSE UNCHANGED faults
       /\ LET left == flush[p].left - Len(flush[p].batch)
          IN flush' = [flush EXCEPT
               ![p].pc = IF p = Drainer /\ ~stop /\ left > 0 THEN "take" ELSE "end",
               ![p].left = left, ![p].batch = <<>>, ![p].ok = {}]
  /\ UNCHANGED <<list, evicted, events, gate, backoff, db, due, signals, drains>>

\* updateFPVArchiveBackoff, then the gate opens.
Finish(p) ==
  /\ At(p, "end")
  /\ backoff' = IF flush[p].tried THEN flush[p].err /\ slots # <<>> ELSE backoff
  /\ gate' = Nobody
  /\ flush' = [flush EXCEPT ![p] = IdleFlush]
  /\ due' = IF p = Drainer THEN {} ELSE due
  /\ UNCHANGED <<list, queue, events, db, budget>>

Elapse ==
  /\ backoff /\ backoff' = FALSE
  /\ UNCHANGED <<list, queue, events, gate, flush, db, due, budget>>

FlushStep(p) == Enter(p) \/ GiveUp(p) \/ Take(p) \/ Archive(p) \/ Apply(p) \/ Finish(p)

-----------------------------------------------------------------------------
Init ==
  /\ live = <<>> /\ next = 1 /\ valid = {}
  /\ slots = <<>> /\ head = 0 /\ evicted = {}
  /\ eventMu = Nobody /\ outbox = [a \in Actors |-> <<>>]
  /\ told = [t \in Ids |-> "nothing"]
  /\ gate = Nobody /\ flush = [p \in Flushers |-> IdleFlush]
  /\ backoff = FALSE /\ db = {} /\ due = {}
  /\ signals = 0 /\ drains = 0 /\ faults = 0

SomeSweep == \E k \in 0..Len(live) : \E order \in Expired(k) : Sweep(k, order)
SomeDrain == \E order \in Expired(Len(live)) : Drain(order)
Api == \E r \in Receivers, k \in 0..Len(live) :
         \E order \in Expired(k) :
           \/ Query(r, k, order)
           \/ \E s \in Signal, after \in 0..Len(live) : AddFPV(r, s, k, order, after)

Next == \/ Api \/ SomeSweep \/ SomeDrain \/ Elapse
        \/ \E a \in Actors : Publish(a)
        \/ \E p \in Flushers : FlushStep(p)

Spec == Init /\ [][Next]_vars

(* The ticker sweeps every second, goroutines run, the backoff is at most a
   minute.  Signals, reads, the drain and failures are not fair. *)
Fairness == /\ WF_vars(SomeSweep) /\ WF_vars(Elapse)
            /\ \A a \in Actors : WF_vars(Publish(a))
            /\ \A p \in Flushers : WF_vars(FlushStep(p))
FairSpec == Spec /\ Fairness

-----------------------------------------------------------------------------
(* Properties.                                                              *)

\* Two live targets never have the same serial number, whatever signals with
\* and without one are merged in between.
UniqueSerial ==
  \A i, j \in DOMAIN live :
    live[i].serial = live[j].serial /\ live[i].serial # NoSerial => i = j

\* No subscriber hears of a target again after it was told of its removal, nor
\* of a removal before the update it removes.
ToldInOrder ==
  [][\A t \in Ids : told[t] = "removed" => told'[t] = "removed"]_vars

\* A drain that ends without an error, and in time, has delivered all that was live or pending
\* when it began, also when the sweeper was in the middle of a batch.
DrainDelivers ==
  [][(flush[Drainer].pc \in {"gate", "end"} /\ At(Drainer, "idle")' /\ ~flush[Drainer].err
        /\ flush[Drainer].left = 0 /\ UNCHANGED faults) => due \subseteq db \cup evicted]_vars

\* A candidate does not wait for ever, even when others are refused again and
\* again: sweeping alone archives it.
EventuallyArchived ==
  \A t \in Ids \ Refused : t \in Pending ~> t \notin Pending

\* The store keeps the promise of ArchivePromise.
fate == [t \in Ids |->
  IF t \in LiveIds THEN "live"
  ELSE IF t >= next THEN "unseen"
  ELSE IF t \in Pending THEN "owed"
  ELSE IF t \in db THEN "archived"
  ELSE IF t \in evicted THEN "dropped" ELSE "ended"]
Contract == INSTANCE ArchivePromise WITH Capacity <- QueueLimit, worthy <- valid
Promise == Contract!Spec
=============================================================================
