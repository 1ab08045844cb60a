-------------------------- MODULE FPVArchiveProofs --------------------------
(***************************************************************************)
(* The safety of FPVArchive, for any number of targets, places and flushes:  *)
(* lemmas about the functions on sequences the module is built from, the     *)
(* inductive invariant ArchiveInv with one lemma per action, the step        *)
(* simulation that shows the store to keep ArchivePromise, and the order of  *)
(* the ring, from which a drain delivers what it found.                      *)
(*                                                                           *)
(* QueueAfter and Among are recursive functions: what they compute is proved *)
(* by induction over the set of the lengths for which it holds.              *)
(***************************************************************************)
EXTENDS FPVArchive, FiniteSetTheorems, WellFoundedInduction, NaturalsInduction, TLAPS

-----------------------------------------------------------------------------
(* Induction over the naturals, and recursion over an interval, for sets:    *)
(* the provers cannot instantiate a theorem about operators.                 *)

LEMMA SetInduction ==
  ASSUME NEW S, 0 \in S, \A n \in Nat : n \in S => n + 1 \in S
  PROVE  Nat \subseteq S
<1> SUFFICES ASSUME Nat \ S # {} PROVE FALSE
  OBVIOUS
<1>1. IsWellFoundedOn(OpToRel(<, Nat), Nat)
  BY NatLessThanWellFounded
<1>2. PICK x \in Nat \ S : \A y \in Nat \ S : ~(<<y, x>> \in OpToRel(<, Nat))
  BY <1>1, WFMin
<1>3. x # 0 /\ x - 1 \in Nat
  OBVIOUS
<1>4. <<x - 1, x>> \in OpToRel(<, Nat)
  BY <1>3 DEF OpToRel
<1>5. x - 1 \in S
  BY <1>2, <1>3, <1>4
<1>6. (x - 1) + 1 = x
  BY <1>3
<1> QED BY <1>3, <1>5, <1>6

LEMMA Recursion ==
  ASSUME NEW A, NEW a \in A, NEW m \in Nat, NEW step \in [1..m -> [A -> A]]
  PROVE  \E f \in [0..m -> A] : f[0] = a /\ \A n \in 1..m : f[n] = step[n][f[n - 1]]
<1> DEFINE Upto(k, f) == f[0] = a /\ \A n \in 1..k : f[n] = step[n][f[n - 1]]
           S == {k \in Nat : k <= m => \E f \in [0..k -> A] : Upto(k, f)}
<1>1. 0 \in S
  <2>1. [n \in 0..0 |-> a] \in [0..0 -> A] /\ Upto(0, [n \in 0..0 |-> a])
    OBVIOUS
  <2> QED BY <2>1
<1>2. ASSUME NEW k \in Nat, k \in S PROVE k + 1 \in S
  <2> SUFFICES ASSUME k + 1 <= m PROVE \E f \in [0..(k + 1) -> A] : Upto(k + 1, f)
    OBVIOUS
  <2>1. PICK f \in [0..k -> A] : Upto(k, f)
    BY <1>2
  <2> DEFINE g == [n \in 0..(k + 1) |-> IF n <= k THEN f[n] ELSE step[k + 1][f[k]]]
  <2>2. k + 1 \in 1..m /\ f[k] \in A /\ step[k + 1] \in [A -> A] /\ step[k + 1][f[k]] \in A
    BY <2>1
  <2>3. \A n \in 0..k : g[n] = f[n] /\ f[n] \in A
    BY <2>1
  <2>4. g[k + 1] = step[k + 1][f[k]] /\ g[k] = f[k]
    BY <2>3
  <2>5. g \in [0..(k + 1) -> A]
    BY <2>2, <2>3
  <2> HIDE DEF g
  <2>6. g[0] = a
    BY <2>1, <2>3
  <2>7. \A n \in 1..k : n \in 0..k /\ n - 1 \in 0..k
    OBVIOUS
  <2>8. \A n \in 1..k : g[n] = step[n][g[n - 1]]
    BY <2>1, <2>3, <2>7
  <2>9. \A n \in 1..(k + 1) : n \in 1..k \/ (n = k + 1 /\ n - 1 = k)
    OBVIOUS
  <2>10. \A n \in 1..(k + 1) : g[n] = step[n][g[n - 1]]
    BY <2>4, <2>8, <2>9
  <2> QED BY <2>5, <2>6, <2>10
<1>3. Nat \subseteq S
  <2> HIDE DEF S
  <2> QED BY <1>1, <1>2, SetInduction
<1> QED BY <1>3

Stepwise(A, a, m, step) == a \in A /\ m \in Nat /\ step \in [1..m -> [A -> A]]
HasSteps(A, a, m, step) ==
  \E f \in [0..m -> A] : f[0] = a /\ \A n \in 1..m : f[n] = step[n][f[n - 1]]

LEMMA RecursionFor ==
  \A A, a, m, step : Stepwise(A, a, m, step) => HasSteps(A, a, m, step)
<1> TAKE A, a, m, step
<1> HAVE Stepwise(A, a, m, step)
<1> QED BY Recursion DEF Stepwise, HasSteps

-----------------------------------------------------------------------------
(* The ring.                                                                 *)

\* A queue as the ring can be: the head moves only once it is full.
Queues ==
  {q \in [slots : Seq(Ids), head : 0..(QueueLimit - 1), evicted : SUBSET Ids] :
     Len(q.slots) <= QueueLimit /\ (q.head # 0 => Len(q.slots) = QueueLimit)}

LEMMA NextPlace ==
  ASSUME NEW n \in Nat \ {0}, NEW h \in 0..(n - 1)
  PROVE  (h + 1) % n = IF h + 1 = n THEN 0 ELSE h + 1
OBVIOUS

LEMMA Enqueues ==
  ASSUME NEW q \in Queues, NEW id \in Ids
  PROVE  /\ Enqueue(q, id) \in Queues
         /\ Len(q.slots) < QueueLimit =>
              Enqueue(q, id).slots = Append(q.slots, id) /\ Enqueue(q, id).evicted = q.evicted
         /\ Len(q.slots) >= QueueLimit =>
              /\ q.head + 1 \in 1..Len(q.slots) /\ Len(q.slots) = QueueLimit
              /\ Enqueue(q, id).slots = [q.slots EXCEPT ![q.head + 1] = id]
              /\ Enqueue(q, id).evicted = q.evicted \cup {q.slots[q.head + 1]}
<1>1. QueueLimit \in Nat \ {0}
  BY FPVArchiveAssumption
<1>2. /\ q.slots \in Seq(Ids) /\ q.head \in 0..(QueueLimit - 1) /\ q.evicted \in SUBSET Ids
      /\ Len(q.slots) <= QueueLimit /\ (q.head # 0 => Len(q.slots) = QueueLimit)
      /\ q \in [slots : Seq(Ids), head : 0..(QueueLimit - 1), evicted : SUBSET Ids]
  BY DEF Queues
<1>3. CASE Len(q.slots) < QueueLimit
  <2>1. Enqueue(q, id) = [q EXCEPT !.slots = Append(q.slots, id)]
    BY <1>3 DEF Enqueue
  <2>2. Append(q.slots, id) \in Seq(Ids) /\ Len(Append(q.slots, id)) <= QueueLimit /\ q.head = 0
    BY <1>1, <1>2, <1>3
  <2>3. Enqueue(q, id).slots = Append(q.slots, id) /\ Enqueue(q, id).evicted = q.evicted
        /\ Enqueue(q, id) = [slots |-> Append(q.slots, id), head |-> q.head, evicted |-> q.evicted]
    BY <1>2, <2>1
  <2>4. Enqueue(q, id) \in Queues
    BY <1>1, <1>2, <2>2, <2>3 DEF Queues
  <2> QED BY <1>1, <1>2, <1>3, <2>3, <2>4
<1>4. CASE Len(q.slots) >= QueueLimit
  <2>1. Len(q.slots) = QueueLimit /\ q.head + 1 \in 1..Len(q.slots)
    BY <1>1, <1>2, <1>4
  <2> DEFINE e == [slots |-> [q.slots EXCEPT ![q.head + 1] = id],
                   head |-> (q.head + 1) % Len(q.slots),
                   evicted |-> q.evicted \cup {q.slots[q.head + 1]}]
  <2>2. Enqueue(q, id) = e
    BY <1>4, <1>1, <2>1 DEF Enqueue
  <2>3. [q.slots EXCEPT ![q.head + 1] = id] \in Seq(Ids)
        /\ Len([q.slots EXCEPT ![q.head + 1] = id]) = QueueLimit
    BY <1>2, <2>1
  <2>4. (q.head + 1) % Len(q.slots) \in 0..(QueueLimit - 1)
    BY <1>1, <1>2, <2>1, NextPlace
  <2>5. q.slots[q.head + 1] \in Ids
    BY <1>2, <2>1
  <2>6. e \in Queues
    BY <1>2, <2>3, <2>4, <2>5, <1>1 DEF Queues
  <2>7. Enqueue(q, id) \in Queues
    BY <2>2, <2>6
  <2>8. /\ Enqueue(q, id).slots = [q.slots EXCEPT ![q.head + 1] = id]
        /\ Enqueue(q, id).evicted = q.evicted \cup {q.slots[q.head + 1]}
    BY <2>2
  <2>9. ~(Len(q.slots) < QueueLimit)
    BY <2>1, <1>1
  <2> HIDE DEF e
  <2> QED BY <2>1, <2>7, <2>8, <2>9
<1> QED BY <1>1, <1>2, <1>3, <1>4

Queue == [slots |-> slots, head |-> head, evicted |-> evicted]

\* The queue after each of the retired targets.
LEMMA QueueSteps ==
  ASSUME NEW targets \in Seq(Target), Queue \in Queues
  PROVE  \E f \in [0..Len(targets) -> Queues] :
           /\ f[0] = Queue /\ QueueAfter(targets) = f[Len(targets)]
           /\ \A n \in 1..Len(targets) :
                f[n] = IF targets[n].everValid THEN Enqueue(f[n - 1], targets[n].id) ELSE f[n - 1]
<1> DEFINE m == Len(targets)
           step == [n \in 1..m |-> [q \in Queues |->
                      IF targets[n].everValid THEN Enqueue(q, targets[n].id) ELSE q]]
           body(f) == [n \in 0..m |->
                        IF n = 0 THEN Queue
                        ELSE IF targets[n].everValid THEN Enqueue(f[n - 1], targets[n].id)
                                                     ELSE f[n - 1]]
<1>1. \A n \in 1..m : targets[n].id \in Ids
  <2>1. \A n \in 1..m : targets[n] \in Target
    OBVIOUS
  <2> QED BY <2>1 DEF Target
<1>2. step \in [1..m -> [Queues -> Queues]]
  BY <1>1, Enqueues
<1>3. m \in Nat
  OBVIOUS
<1>4. PICK f \in [0..m -> Queues] : f[0] = Queue /\ \A n \in 1..m : f[n] = step[n][f[n - 1]]
  <2>1. Queue \in Queues
    OBVIOUS
  <2> HIDE DEF step, m
  <2>2. Stepwise(Queues, Queue, m, step)
    BY <1>2, <1>3, <2>1 DEF Stepwise
  <2>3. HasSteps(Queues, Queue, m, step)
    BY ONLY <2>2, RecursionFor, Zenon
  <2> QED BY <2>3 DEF HasSteps
<1>5. \A n \in 1..m : f[n - 1] \in Queues
  BY <1>4, <1>3
<1>6. \A n \in 1..m : f[n] = IF targets[n].everValid THEN Enqueue(f[n - 1], targets[n].id)
                                                     ELSE f[n - 1]
  BY <1>4, <1>5
<1>7. f = body(f)
  BY <1>4, <1>6, <1>3
<1>8. \E g : g = body(g)
  BY <1>7
<1> DEFINE c == CHOOSE g : g = body(g)
<1>9. c = body(c)
  BY <1>8
<1>10. QueueAfter(targets) = c[m]
  BY DEF QueueAfter, Queue
<1> HIDE DEF c
<1>11. \A n \in Nat : n <= m => c[n] = f[n]
  <2> DEFINE S == {n \in Nat : n <= m => c[n] = f[n]}
  <2>1. 0 \in S
    BY <1>4, <1>9, <1>3
  <2>2. ASSUME NEW n \in Nat, n \in S PROVE n + 1 \in S
    <3> SUFFICES ASSUME n + 1 <= m PROVE c[n + 1] = f[n + 1]
      OBVIOUS
    <3>1. n + 1 \in 0..m /\ n + 1 \in 1..m /\ n + 1 # 0 /\ (n + 1) - 1 = n
      BY <1>3
    <3>2. c[n] = f[n]
      BY <2>2, <3>1
    <3>3. c[n + 1] = IF targets[n + 1].everValid THEN Enqueue(c[n], targets[n + 1].id) ELSE c[n]
      BY <1>9, <3>1
    <3> QED BY <1>6, <3>1, <3>2, <3>3
  <2>3. Nat \subseteq S
    <3> HIDE DEF S
    <3> QED BY <2>1, <2>2, SetInduction
  <2> QED BY <2>3
<1> QED BY <1>3, <1>4, <1>6, <1>10, <1>11

\* The queue q is what the ring has become after the candidates of C: each of them
\* waits or was overwritten, and nothing is overwritten while there is room.
Candidates(targets, n) == {targets[i].id : i \in {j \in 1..n : targets[j].everValid}}
Became(q, C) ==
  /\ q \in Queues /\ IsInjective(q.slots)
  /\ ToSet(q.slots) \cap q.evicted = {}
  /\ ToSet(q.slots) \cup q.evicted = Pending \cup evicted \cup C
  /\ ToSet(q.slots) \subseteq Pending \cup C /\ evicted \subseteq q.evicted
  /\ q.evicted # evicted => Len(q.slots) = QueueLimit

LEMMA AppendSet ==
  ASSUME NEW s \in Seq(Ids), NEW x \in Ids
  PROVE  /\ ToSet(Append(s, x)) = ToSet(s) \cup {x}
         /\ IsInjective(s) /\ x \notin ToSet(s) => IsInjective(Append(s, x))
<1> DEFINE t == Append(s, x)
<1>1. DOMAIN s = 1..Len(s) /\ DOMAIN t = 1..(Len(s) + 1) /\ t[Len(s) + 1] = x /\ Len(s) \in Nat
      /\ \A i \in 1..Len(s) : t[i] = s[i]
  OBVIOUS
<1> HIDE DEF t
<1>2. \A i \in 1..(Len(s) + 1) : i \in 1..Len(s) \/ i = Len(s) + 1
  BY <1>1
<1>3. ToSet(t) = ToSet(s) \cup {x}
  <2>1. \A y : y \in ToSet(t) <=> \E i \in 1..(Len(s) + 1) : y = t[i]
    BY <1>1 DEF ToSet
  <2>2. \A y : y \in ToSet(s) <=> \E i \in 1..Len(s) : y = s[i]
    BY <1>1 DEF ToSet
  <2>3. \A i \in 1..Len(s) : i \in 1..(Len(s) + 1)
    BY <1>1
  <2>4. Len(s) + 1 \in 1..(Len(s) + 1)
    BY <1>1
  <2> QED BY <2>1, <2>2, <2>3, <2>4, <1>1, <1>2
<1>4. ASSUME IsInjective(s), x \notin ToSet(s) PROVE IsInjective(t)
  <2>1. \A i \in 1..Len(s) : s[i] # x
    BY <1>1, <1>4 DEF ToSet
  <2> QED BY <1>1, <1>2, <1>4, <2>1 DEF IsInjective
<1> QED BY <1>3, <1>4 DEF t

LEMMA ReplaceSet ==
  ASSUME NEW s \in Seq(Ids), NEW x \in Ids, NEW k \in 1..Len(s), IsInjective(s), x \notin ToSet(s)
  PROVE  /\ ToSet([s EXCEPT ![k] = x]) = (ToSet(s) \ {s[k]}) \cup {x}
         /\ IsInjective([s EXCEPT ![k] = x]) /\ s[k] \in ToSet(s)
         /\ Len([s EXCEPT ![k] = x]) = Len(s)
<1> DEFINE t == [s EXCEPT ![k] = x]
<1>1. DOMAIN s = 1..Len(s) /\ DOMAIN t = 1..Len(s) /\ t[k] = x /\ Len(t) = Len(s)
      /\ \A i \in 1..Len(s) : i # k => t[i] = s[i]
  OBVIOUS
<1>2. \A i \in 1..Len(s) : s[i] # x /\ (i # k => s[i] # s[k])
  BY <1>1 DEF ToSet, IsInjective
<1> HIDE DEF t
<1>3. ToSet(t) = (ToSet(s) \ {s[k]}) \cup {x}
  <2>1. \A y : y \in ToSet(t) <=> \E i \in 1..Len(s) : y = t[i]
    BY <1>1 DEF ToSet
  <2>2. \A y : y \in ToSet(s) <=> \E i \in 1..Len(s) : y = s[i]
    BY <1>1 DEF ToSet
  <2> QED BY <2>1, <2>2, <1>1, <1>2
<1>4. IsInjective(t)
  BY <1>1, <1>2 DEF IsInjective
<1>5. s[k] \in ToSet(s)
  BY <1>1 DEF ToSet
<1> QED BY <1>1, <1>3, <1>4, <1>5 DEF t

LEMMA BecomesNext ==
  ASSUME NEW q, NEW C, Became(q, C), NEW id \in Ids, id \notin Pending \cup evicted \cup C
  PROVE  Became(Enqueue(q, id), C \cup {id})
<1>1. q \in Queues /\ q.slots \in Seq(Ids) /\ id \notin ToSet(q.slots) /\ id \notin q.evicted
      /\ IsInjective(q.slots) /\ Len(q.slots) \in Nat /\ QueueLimit \in Nat \ {0}
      /\ Len(q.slots) <= QueueLimit
  BY FPVArchiveAssumption DEF Became, Queues
<1> DEFINE e == Enqueue(q, id)
<1>2. e \in Queues
  BY <1>1, Enqueues
<1>3. CASE Len(q.slots) < QueueLimit
  <2>1. e.slots = Append(q.slots, id) /\ e.evicted = q.evicted
    BY <1>1, <1>3, Enqueues
  <2>2. ToSet(e.slots) = ToSet(q.slots) \cup {id} /\ IsInjective(e.slots)
    BY <1>1, <2>1, AppendSet
  <2>3. e.evicted # evicted => Len(e.slots) = QueueLimit
    BY <1>1, <1>3, <2>1 DEF Became
  <2> HIDE DEF e
  <2> QED BY <1>1, <1>2, <2>1, <2>2, <2>3 DEF Became, e
<1>4. CASE Len(q.slots) >= QueueLimit
  <2> DEFINE k == q.head + 1
  <2>1. k \in 1..Len(q.slots) /\ Len(q.slots) = QueueLimit
        /\ e.slots = [q.slots EXCEPT ![k] = id] /\ e.evicted = q.evicted \cup {q.slots[k]}
    BY <1>1, <1>4, Enqueues
  <2> HIDE DEF k, e
  <2>2. /\ ToSet(e.slots) = (ToSet(q.slots) \ {q.slots[k]}) \cup {id} /\ IsInjective(e.slots)
        /\ q.slots[k] \in ToSet(q.slots) /\ Len(e.slots) = QueueLimit
    BY <1>1, <2>1, ReplaceSet
  <2> QED BY <1>1, <1>2, <2>1, <2>2 DEF Became, e
<1> QED BY <1>1, <1>3, <1>4

LEMMA BecomesAll ==
  ASSUME NEW targets \in Seq(Target), Queue \in Queues, IsInjective(slots), Pending \cap evicted = {},
         \A i, j \in 1..Len(targets) : targets[i].id = targets[j].id => i = j,
         \A i \in 1..Len(targets) : targets[i].everValid => targets[i].id \notin Pending \cup evicted
  PROVE  Became(QueueAfter(targets), Candidates(targets, Len(targets)))
<1> DEFINE m == Len(targets)
<1>1. PICK f \in [0..m -> Queues] :
        /\ f[0] = Queue /\ QueueAfter(targets) = f[m]
        /\ \A n \in 1..m :
             f[n] = IF targets[n].everValid THEN Enqueue(f[n - 1], targets[n].id) ELSE f[n - 1]
  BY QueueSteps
<1>2. m \in Nat /\ \A n \in 1..m : targets[n] \in Target
  OBVIOUS
<1>3. \A n \in 1..m : targets[n].id \in Ids
  BY <1>2 DEF Target
<1> HIDE DEF m
<1> DEFINE S == {n \in Nat : n <= m => Became(f[n], Candidates(targets, n))}
<1>4. 0 \in S
  <2>1. Candidates(targets, 0) = {}
    BY DEF Candidates
  <2>2. Became(Queue, {})
    BY DEF Became, Queue, Pending
  <2> QED BY <1>1, <2>1, <2>2
<1>5. ASSUME NEW n \in Nat, n \in S PROVE n + 1 \in S
  <2> SUFFICES ASSUME n + 1 <= m PROVE Became(f[n + 1], Candidates(targets, n + 1))
    OBVIOUS
  <2>1. n + 1 \in 1..m /\ (n + 1) - 1 = n /\ n <= m
    BY <1>2
  <2>2. Became(f[n], Candidates(targets, n))
    BY <1>5, <2>1
  <2>3. f[n + 1] = IF targets[n + 1].everValid THEN Enqueue(f[n], targets[n + 1].id) ELSE f[n]
    BY <1>1, <2>1
  <2>4. \A j \in 1..(n + 1) : j \in 1..n \/ j = n + 1
    OBVIOUS
  <2>5. CASE targets[n + 1].everValid
    <3>1. Candidates(targets, n + 1) = Candidates(targets, n) \cup {targets[n + 1].id}
      BY <2>4, <2>5 DEF Candidates
    <3>2. targets[n + 1].id \notin Candidates(targets, n)
      BY <2>1, <1>2 DEF Candidates, m
    <3> QED BY <2>1, <2>2, <2>3, <2>5, <3>1, <3>2, <1>3, BecomesNext DEF m
  <2>6. CASE ~targets[n + 1].everValid
    <3>1. Candidates(targets, n + 1) = Candidates(targets, n)
      BY <2>4, <2>6 DEF Candidates
    <3> QED BY <2>2, <2>3, <2>6, <3>1
  <2> QED BY <2>5, <2>6
<1>6. Nat \subseteq S
  <2> HIDE DEF S
  <2> QED BY <1>4, <1>5, SetInduction
<1> QED BY <1>1, <1>2, <1>6 DEF m

-----------------------------------------------------------------------------
(* What of a queue is in a set.                                              *)

Chosen(s, x, S) == IF x \in S THEN Append(s, x) ELSE s
AmongBy(q, S, f) ==
  /\ f \in [0..Len(q) -> Seq(Ids)]
  /\ f[0] = <<>> /\ Among(q, S) = f[Len(q)]
  /\ \A n \in 1..Len(q) : f[n] = Chosen(f[n - 1], q[n], S)

LEMMA AmongSteps ==
  ASSUME NEW q \in Seq(Ids), NEW S
  PROVE  \E f : AmongBy(q, S, f)
<1> DEFINE m == Len(q)
           A == Seq(Ids)
           step == [n \in 1..m |-> [s \in A |-> Chosen(s, q[n], S)]]
           body(f) == [n \in 0..m |->
                        IF n = 0 THEN <<>>
                        ELSE Chosen(f[n - 1], q[n], S)]
<1>1. \A n \in 1..m : q[n] \in Ids
  OBVIOUS
<1>2. step \in [1..m -> [A -> A]]
  BY <1>1 DEF Chosen
<1>3. m \in Nat /\ <<>> \in A
  OBVIOUS
<1>4. PICK f \in [0..m -> A] : f[0] = <<>> /\ \A n \in 1..m : f[n] = step[n][f[n - 1]]
  <2> HIDE DEF step, m, A
  <2>1. Stepwise(A, <<>>, m, step)
    BY <1>2, <1>3 DEF Stepwise
  <2>2. HasSteps(A, <<>>, m, step)
    BY ONLY <2>1, RecursionFor, Zenon
  <2> QED BY <2>2 DEF HasSteps
<1>5. \A n \in 1..m : f[n - 1] \in A
  BY <1>4, <1>3
<1>6. \A n \in 1..m : f[n] = Chosen(f[n - 1], q[n], S)
  BY <1>4, <1>5
<1>7. f = body(f)
  BY <1>4, <1>6, <1>3
<1>8. \E g : g = body(g)
  BY <1>7
<1> DEFINE c == CHOOSE g : g = body(g)
<1>9. c = body(c)
  BY <1>8
<1>10. Among(q, S) = c[m]
  BY DEF Among, Chosen
<1> HIDE DEF c
<1>11. \A n \in Nat : n <= m => c[n] = f[n]
  <2> DEFINE R == {n \in Nat : n <= m => c[n] = f[n]}
  <2>1. 0 \in R
    BY <1>4, <1>9, <1>3
  <2>2. ASSUME NEW n \in Nat, n \in R PROVE n + 1 \in R
    <3> SUFFICES ASSUME n + 1 <= m PROVE c[n + 1] = f[n + 1]
      OBVIOUS
    <3>1. n + 1 \in 0..m /\ n + 1 \in 1..m /\ n + 1 # 0 /\ (n + 1) - 1 = n
      BY <1>3
    <3>2. c[n] = f[n]
      BY <2>2, <3>1
    <3>3. c[n + 1] = Chosen(c[n], q[n + 1], S)
      BY <1>9, <3>1
    <3> QED BY <1>6, <3>1, <3>2, <3>3
  <2>3. Nat \subseteq R
    <3> HIDE DEF R
    <3> QED BY <2>1, <2>2, SetInduction
  <2> QED BY <2>3
<1>12. Among(q, S) = f[m]
  BY <1>3, <1>10, <1>11
<1>13. AmongBy(q, S, f)
  BY <1>4, <1>6, <1>12 DEF AmongBy
<1> QED BY <1>13

LEMMA ChosenFacts ==
  ASSUME NEW s \in Seq(Ids), NEW x \in Ids, NEW S
  PROVE  /\ Chosen(s, x, S) \in Seq(Ids)
         /\ x \in S => Len(Chosen(s, x, S)) = Len(s) + 1
         /\ x \notin S => Len(Chosen(s, x, S)) = Len(s)
         /\ ToSet(Chosen(s, x, S)) = ToSet(s) \cup ({x} \cap S)
         /\ IsInjective(s) /\ x \notin ToSet(s) => IsInjective(Chosen(s, x, S))
<1>1. CASE x \in S
  <2>1. Chosen(s, x, S) = Append(s, x)
    BY <1>1 DEF Chosen
  <2>2. Append(s, x) \in Seq(Ids) /\ Len(Append(s, x)) = Len(s) + 1
    OBVIOUS
  <2> QED BY <1>1, <2>1, <2>2, AppendSet
<1>2. CASE x \notin S
  <2>1. Chosen(s, x, S) = s
    BY <1>2 DEF Chosen
  <2> QED BY <1>2, <2>1
<1> QED BY <1>1, <1>2

\* The first n of a queue, and what two choices among them have come to.
First(q, n) == {q[i] : i \in 1..n}
Among2(q, S, n, s, t) ==
  /\ s \in Seq(Ids) /\ t \in Seq(Ids) /\ ToSet(s) = First(q, n) \cap S
  /\ IsInjective(q) => IsInjective(s)
  /\ Len(s) + Len(t) <= n

LEMMA Among2Next ==
  ASSUME NEW q \in Seq(Ids), NEW S, NEW T, S \cap T = {}, NEW n \in Nat, n + 1 <= Len(q),
         NEW s, NEW t, Among2(q, S, n, s, t)
  PROVE  Among2(q, S, n + 1, Chosen(s, q[n + 1], S), Chosen(t, q[n + 1], T))
<1> DEFINE x == q[n + 1]
<1>1. x \in Ids /\ n + 1 \in DOMAIN q /\ \A j \in 1..n : j \in DOMAIN q
  OBVIOUS
<1>2. \A j \in 1..(n + 1) : j \in 1..n \/ j = n + 1
  OBVIOUS
<1>3. First(q, n + 1) = First(q, n) \cup {x}
  BY <1>2 DEF First
<1>4. IsInjective(q) => x \notin First(q, n)
  BY <1>1 DEF First, IsInjective
<1> HIDE DEF x
<1>5. s \in Seq(Ids) /\ t \in Seq(Ids) /\ Len(s) \in Nat /\ Len(t) \in Nat
  BY DEF Among2
<1>6. x \notin S \/ x \notin T
  OBVIOUS
<1>7. Len(Chosen(s, x, S)) + Len(Chosen(t, x, T)) <= n + 1
  <2>1. Len(s) + Len(t) <= n
    BY DEF Among2
  <2>2. Len(Chosen(s, x, S)) = Len(s) \/ (x \in S /\ Len(Chosen(s, x, S)) = Len(s) + 1)
    BY <1>1, <1>5, ChosenFacts
  <2>3. Len(Chosen(t, x, T)) = Len(t) \/ (x \in T /\ Len(Chosen(t, x, T)) = Len(t) + 1)
    BY <1>1, <1>5, ChosenFacts
  <2> QED BY <2>1, <2>2, <2>3, <1>5, <1>6
<1>8. ToSet(Chosen(s, x, S)) = First(q, n + 1) \cap S
  <2>1. ToSet(Chosen(s, x, S)) = ToSet(s) \cup ({x} \cap S)
    BY <1>1, <1>5, ChosenFacts
  <2>2. ToSet(s) = First(q, n) \cap S
    BY DEF Among2
  <2> QED BY ONLY <2>1, <2>2, <1>3
<1>9. IsInjective(q) => IsInjective(Chosen(s, x, S))
  BY <1>1, <1>4, <1>5, ChosenFacts DEF Among2
<1>10. Chosen(s, x, S) \in Seq(Ids) /\ Chosen(t, x, T) \in Seq(Ids)
  BY <1>1, <1>5, ChosenFacts
<1> QED BY <1>7, <1>8, <1>9, <1>10 DEF Among2, x

LEMMA AmongFacts ==
  ASSUME NEW q \in Seq(Ids), NEW S, NEW T, S \cap T = {}
  PROVE  /\ Among(q, S) \in Seq(Ids) /\ ToSet(Among(q, S)) = ToSet(q) \cap S
         /\ IsInjective(q) => IsInjective(Among(q, S))
         /\ Len(Among(q, S)) + Len(Among(q, T)) <= Len(q)
<1> DEFINE m == Len(q)
<1>1. PICK f : AmongBy(q, S, f)
  BY AmongSteps
<1>2. PICK g : AmongBy(q, T, g)
  BY AmongSteps
<1> DEFINE R == {n \in Nat : n <= m => Among2(q, S, n, f[n], g[n])}
<1>3. 0 \in R
  <2>1. First(q, 0) = {} /\ ToSet(<<>>) = {} /\ IsInjective(<<>>) /\ <<>> \in Seq(Ids) /\ Len(<<>>) = 0
    BY DEF First, ToSet, IsInjective
  <2>2. f[0] = <<>> /\ g[0] = <<>>
    BY <1>1, <1>2 DEF AmongBy
  <2>3. Among2(q, S, 0, <<>>, <<>>)
    BY <2>1 DEF Among2
  <2> QED BY <2>2, <2>3
<1>4. ASSUME NEW n \in Nat, n \in R PROVE n + 1 \in R
  <2> SUFFICES ASSUME n + 1 <= m PROVE Among2(q, S, n + 1, f[n + 1], g[n + 1])
    OBVIOUS
  <2>1. n + 1 \in 1..m /\ (n + 1) - 1 = n /\ n <= m
    OBVIOUS
  <2>2. Among2(q, S, n, f[n], g[n])
    BY <1>4, <2>1
  <2>3. f[n + 1] = Chosen(f[n], q[n + 1], S) /\ g[n + 1] = Chosen(g[n], q[n + 1], T)
    BY <1>1, <1>2, <2>1 DEF AmongBy
  <2> HIDE DEF R
  <2> QED BY <2>2, <2>3, Among2Next
<1>5. Nat \subseteq R
  <2> HIDE DEF R
  <2> QED BY <1>3, <1>4, SetInduction
<1>6. m \in Nat /\ m <= m
  OBVIOUS
<1>7. Among2(q, S, m, f[m], g[m])
  BY <1>5, <1>6
<1>8. First(q, m) = ToSet(q)
  BY DEF First, ToSet
<1>9. Among(q, S) = f[m] /\ Among(q, T) = g[m]
  BY <1>1, <1>2 DEF AmongBy
<1> HIDE DEF m
<1>10. /\ f[m] \in Seq(Ids) /\ ToSet(f[m]) = First(q, m) \cap S
       /\ IsInjective(q) => IsInjective(f[m])
       /\ Len(f[m]) + Len(g[m]) <= m
  BY <1>7 DEF Among2
<1> QED BY <1>8, <1>9, <1>10 DEF m

-----------------------------------------------------------------------------
(* The ring in the order of its candidates.                                  *)

LEMMA Around ==
  ASSUME NEW n \in Nat \ {0}, NEW a \in 0..(n + n - 1)
  PROVE  a % n = IF a < n THEN a ELSE a - n
OBVIOUS

LEMMA InOrderFacts ==
  ASSUME Queue \in Queues, IsInjective(slots)
  PROVE  /\ InOrder \in Seq(Ids) /\ Len(InOrder) = Len(slots)
         /\ ToSet(InOrder) = Pending /\ IsInjective(InOrder)
<1> DEFINE n == Len(slots)
           place(i) == IF head + i <= n THEN head + i ELSE head + i - n
<1>1. slots \in Seq(Ids) /\ n \in Nat /\ head \in Nat /\ (n > 0 => head < n) /\ DOMAIN slots = 1..n
  BY FPVArchiveAssumption DEF Queue, Queues
<1>2. \A i \in 1..n : ((head + i - 1) % n) + 1 = place(i) /\ place(i) \in 1..n
  <2> TAKE i \in 1..n
  <2>1. n \in Nat \ {0} /\ head + i - 1 \in 0..(n + n - 1)
    BY <1>1
  <2> DEFINE a == head + i - 1
  <2>2. a % n = IF a < n THEN a ELSE a - n
    <3>1. n \in Nat \ {0} /\ a \in 0..(n + n - 1)
      BY <2>1
    <3> HIDE DEF n, a
    <3> QED BY <3>1, Around
  <2> QED BY <1>1, <2>1, <2>2
<1>3. InOrder = [i \in 1..n |-> slots[place(i)]]
  BY <1>1, <1>2 DEF InOrder
<1>4. \A i \in 1..n : slots[place(i)] \in Ids
  BY <1>1, <1>2
<1>5. InOrder \in Seq(Ids) /\ Len(InOrder) = n /\ DOMAIN InOrder = 1..n
      /\ \A i \in 1..n : InOrder[i] = slots[place(i)]
  BY <1>1, <1>3, <1>4
<1>6. \A i, j \in 1..n : place(i) = place(j) => i = j
  BY <1>1
<1>7. \A k \in 1..n : \E i \in 1..n : place(i) = k
  <2> TAKE k \in 1..n
  <2> DEFINE i == IF k > head THEN k - head ELSE k - head + n
  <2>1. i \in 1..n /\ place(i) = k
    BY <1>1
  <2> QED BY <2>1
<1> HIDE DEF n, place
<1>8. IsInjective(InOrder)
  BY <1>1, <1>2, <1>5, <1>6 DEF IsInjective
<1>9. ToSet(InOrder) = Pending
  <2>1. \A y : y \in ToSet(InOrder) <=> \E i \in 1..n : y = slots[place(i)]
    BY <1>5 DEF ToSet
  <2>2. \A y : y \in Pending <=> \E k \in 1..n : y = slots[k]
    BY <1>1 DEF Pending, ToSet
  <2> QED BY <2>1, <2>2, <1>2, <1>7
<1> QED BY <1>5, <1>8, <1>9 DEF n

LEMMA Joined ==
  ASSUME NEW s \in Seq(Ids), NEW t \in Seq(Ids)
  PROVE  /\ s \o t \in Seq(Ids) /\ Len(s \o t) = Len(s) + Len(t) /\ ToSet(s \o t) = ToSet(s) \cup ToSet(t)
         /\ IsInjective(s) /\ IsInjective(t) /\ ToSet(s) \cap ToSet(t) = {} => IsInjective(s \o t)
<1> DEFINE u == s \o t
<1>1. /\ u \in Seq(Ids) /\ Len(u) = Len(s) + Len(t) /\ Len(s) \in Nat /\ Len(t) \in Nat
      /\ DOMAIN u = 1..(Len(s) + Len(t)) /\ DOMAIN s = 1..Len(s) /\ DOMAIN t = 1..Len(t)
      /\ \A i \in 1..Len(s) : u[i] = s[i]
      /\ \A i \in 1..Len(t) : u[Len(s) + i] = t[i]
  OBVIOUS
<1> HIDE DEF u
<1>2. \A i \in DOMAIN u : i \in DOMAIN s \/ \E j \in DOMAIN t : i = Len(s) + j
  <2> TAKE i \in DOMAIN u
  <2>1. i \in DOMAIN s \/ (i - Len(s) \in DOMAIN t /\ i = Len(s) + (i - Len(s)))
    BY <1>1
  <2> QED BY <2>1
<1>3. \A j \in DOMAIN t : Len(s) + j \in DOMAIN u
  BY <1>1
<1>4. \A i \in DOMAIN s : i \in DOMAIN u
  BY <1>1
<1>5. ToSet(u) = ToSet(s) \cup ToSet(t)
  BY <1>1, <1>2, <1>3, <1>4 DEF ToSet
<1>6. ASSUME IsInjective(s), IsInjective(t), ToSet(s) \cap ToSet(t) = {} PROVE IsInjective(u)
  <2>1. \A i \in DOMAIN s, j \in DOMAIN t : s[i] # t[j]
    BY <1>6 DEF ToSet
  <2>2. \A i, j \in DOMAIN t : Len(s) + i = Len(s) + j <=> i = j
    BY <1>1
  <2> QED BY <1>1, <1>2, <1>6, <2>1, <2>2 DEF IsInjective
<1> QED BY <1>1, <1>5, <1>6 DEF u

\* What stays after a batch: all but what succeeded.
LEMMA RetryFacts ==
  ASSUME NEW q \in Seq(Ids), IsInjective(q), NEW ok, NEW failed, ok \cap failed = {}
  PROVE  /\ RetryLast(q, ok, failed) \in Seq(Ids) /\ Len(RetryLast(q, ok, failed)) <= Len(q)
         /\ ToSet(RetryLast(q, ok, failed)) = ToSet(q) \ ok
         /\ IsInjective(RetryLast(q, ok, failed))
<1> DEFINE S == ToSet(q) \ (ok \cup failed)
           a == Among(q, S)
           b == Among(q, failed)
<1>1. S \cap failed = {} /\ failed \cap S = {}
  OBVIOUS
<1>2. a \in Seq(Ids) /\ ToSet(a) = ToSet(q) \cap S /\ IsInjective(a) /\ Len(a) + Len(b) <= Len(q)
  <2> HIDE DEF S
  <2> QED BY <1>1, AmongFacts
<1>3. b \in Seq(Ids) /\ ToSet(b) = ToSet(q) \cap failed /\ IsInjective(b)
  <2> HIDE DEF S
  <2> QED BY <1>1, AmongFacts
<1>4. RetryLast(q, ok, failed) = a \o b
  BY DEF RetryLast
<1> HIDE DEF a, b
<1>5. ToSet(a) \cap ToSet(b) = {} /\ ToSet(a) \cup ToSet(b) = ToSet(q) \ ok
  BY <1>2, <1>3
<1> QED BY <1>2, <1>3, <1>4, <1>5, Joined

LEMMA Bounded ==
  ASSUME NEW S, NEW n \in Nat
  PROVE  \A s : s \in BoundedSeq(S, n) <=> s \in Seq(S) /\ Len(s) <= n
<1> TAKE s
<1>1. ASSUME s \in BoundedSeq(S, n) PROVE s \in Seq(S) /\ Len(s) <= n
  <2>1. PICK m \in 0..n : s \in [1..m -> S]
    BY <1>1 DEF BoundedSeq, SeqOf
  <2> QED BY <2>1
<1>2. ASSUME s \in Seq(S), Len(s) <= n PROVE s \in BoundedSeq(S, n)
  <2>1. Len(s) \in 0..n /\ s \in [1..Len(s) -> S]
    BY <1>2
  <2> QED BY <2>1 DEF BoundedSeq, SeqOf
<1> QED BY <1>1, <1>2

-----------------------------------------------------------------------------
(* The live targets.                                                         *)

TargetIds(s) == {s[i].id : i \in DOMAIN s}
Distinct(s) == \A i, j \in DOMAIN s : s[i].id = s[j].id => i = j

LEMMA Section ==
  ASSUME NEW S, NEW s \in Seq(S), NEW a \in 1..(Len(s) + 1), NEW b \in 0..Len(s), a <= b + 1
  PROVE  /\ SubSeq(s, a, b) \in Seq(S) /\ Len(SubSeq(s, a, b)) = b - a + 1
         /\ DOMAIN SubSeq(s, a, b) = 1..(b - a + 1)
         /\ \A i \in 1..(b - a + 1) : SubSeq(s, a, b)[i] = s[a + i - 1] /\ a + i - 1 \in 1..Len(s)
OBVIOUS

\* The targets that expired are those seen longest ago, each of them once.
LEMMA ExpiredFacts ==
  ASSUME live \in Seq(Target), Distinct(live), NEW k \in 0..Len(live), NEW order \in Expired(k)
  PROVE  /\ order \in Seq(Target) /\ Distinct(order)
         /\ \A i \in DOMAIN order : \E j \in 1..k : order[i] = live[j]
         /\ \A j \in 1..k : \E i \in DOMAIN order : order[i] = live[j]
<1> DEFINE old == SubSeq(live, 1, k)
<1>1. /\ old \in Seq(Target) /\ DOMAIN old = 1..k /\ \A i \in 1..k : old[i] = live[i] /\ i \in DOMAIN live
      /\ old \in [1..k -> ToSet(old)] /\ k \in Nat
  <2>1. 1 \in 1..(Len(live) + 1) /\ k \in 0..Len(live) /\ 1 <= k + 1 /\ k - 1 + 1 = k
        /\ DOMAIN live = 1..Len(live)
    OBVIOUS
  <2>2. /\ old \in Seq(Target) /\ DOMAIN old = 1..k
        /\ \A i \in 1..k : old[i] = live[1 + i - 1] /\ 1 + i - 1 \in 1..Len(live)
    BY ONLY <2>1, live \in Seq(Target), k \in 0..Len(live), Section
  <2>3. \A i \in 1..k : 1 + i - 1 = i
    OBVIOUS
  <2> HIDE DEF old
  <2>4. old \in [1..k -> ToSet(old)]
    BY <2>2 DEF ToSet
  <2> QED BY <2>1, <2>2, <2>3, <2>4
<1>2. \A x : x \in ToSet(old) <=> \E j \in 1..k : x = live[j]
  BY <1>1 DEF ToSet
<1>3. ToSet(old) \subseteq Target
  BY <1>1, <1>2
<1>4. CASE k < 2
  <2>1. order = old
    BY <1>4 DEF Expired
  <2> HIDE DEF old
  <2> QED BY <1>1, <2>1 DEF Distinct
<1>5. CASE ~(k < 2)
  <2> DEFINE X == ToSet(old)
             c == Cardinality(X)
  <2>1. order \in [1..c -> X] /\ \A i, j \in 1..c : i # j => order[i] # order[j]
    BY <1>5 DEF Expired, SetToSeqs
  <2>2. old \in Surjection(1..k, X)
    BY <1>1, <1>2 DEF Surjection
  <2>3. IsFiniteSet(1..k) /\ IsFiniteSet(1..c)
    BY <1>1, FS_Interval, FS_CardinalityType, <2>2, FS_Surjection
  <2>4. IsFiniteSet(X) /\ c \in Nat
    BY <2>2, <2>3, FS_Surjection, FS_CardinalityType
  <2> HIDE DEF old, X, c
  <2>5. order \in Injection(1..c, X)
    BY <2>1 DEF Injection, IsInjective
  <2>6. Cardinality(1..c) = c /\ Cardinality(X) = c
    BY <2>4, FS_Interval DEF c
  <2>7. order \in Surjection(1..c, X)
    BY <2>4, <2>5, <2>6, FS_Injection
  <2>8. X \subseteq Target /\ \A x : x \in X <=> \E j \in 1..k : x = live[j]
    BY <1>2, <1>3 DEF X
  <2>9. order \in [1..c -> Target] /\ DOMAIN order = 1..c
    BY <2>1, <2>8
  <2>10. order \in Seq(Target)
    BY <2>4, <2>9
  <2>11. \A i \in 1..c : \E j \in 1..k : order[i] = live[j]
    BY <2>1, <2>8
  <2>12. \A j \in 1..k : \E i \in 1..c : order[i] = live[j]
    BY <2>7, <2>8 DEF Surjection
  <2>13. Distinct(order)
    BY <2>1, <2>9, <2>11, <1>1 DEF Distinct
  <2> QED BY <2>9, <2>10, <2>11, <2>12, <2>13
<1> QED BY <1>4, <1>5

LEMMA Concatenated ==
  ASSUME NEW S, NEW s \in Seq(S), NEW t \in Seq(S)
  PROVE  /\ s \o t \in Seq(S) /\ Len(s \o t) = Len(s) + Len(t)
         /\ DOMAIN (s \o t) = 1..(Len(s) + Len(t))
         /\ \A i \in 1..(Len(s) + Len(t)) :
              (s \o t)[i] = IF i <= Len(s) THEN s[i] ELSE t[i - Len(s)]
OBVIOUS

LEMMA Inserted ==
  ASSUME NEW S, NEW s \in Seq(S), NEW k \in 1..(Len(s) + 1), NEW e \in S
  PROVE  /\ InsertAt(s, k, e) \in Seq(S) /\ Len(InsertAt(s, k, e)) = Len(s) + 1
         /\ DOMAIN InsertAt(s, k, e) = 1..(Len(s) + 1)
         /\ \A i \in 1..(Len(s) + 1) :
              InsertAt(s, k, e)[i] = IF i < k THEN s[i] ELSE IF i = k THEN e ELSE s[i - 1]
<1> DEFINE n == Len(s)
           a == SubSeq(s, 1, k - 1)
           b == SubSeq(s, k, n)
<1>1. n \in Nat /\ k \in Nat /\ 1 <= k /\ k <= n + 1
  OBVIOUS
<1>2. a \in Seq(S) /\ Len(a) = k - 1 /\ \A i \in 1..(k - 1) : a[i] = s[i]
  <2>1. 1 \in 1..(n + 1) /\ k - 1 \in 0..n /\ 1 <= k - 1 + 1 /\ k - 1 - 1 + 1 = k - 1
    BY <1>1
  <2>2. \A i \in 1..(k - 1) : 1 + i - 1 = i
    BY <1>1
  <2> QED BY <2>1, <2>2, Section
<1>3. b \in Seq(S) /\ Len(b) = n - k + 1 /\ \A i \in 1..(n - k + 1) : b[i] = s[k + i - 1]
  <2>1. k \in 1..(n + 1) /\ n \in 0..n /\ k <= n + 1
    BY <1>1
  <2> QED BY <2>1, Section
<1>4. <<e>> \in Seq(S) /\ Len(<<e>>) = 1 /\ <<e>>[1] = e
  OBVIOUS
<1> HIDE DEF a, b
<1>5. /\ a \o <<e>> \in Seq(S) /\ Len(a \o <<e>>) = k
      /\ \A i \in 1..k : (a \o <<e>>)[i] = IF i < k THEN s[i] ELSE e
  BY <1>1, <1>2, <1>4, Concatenated
<1> DEFINE c == a \o <<e>>
<1>6. InsertAt(s, k, e) = c \o b
  BY DEF InsertAt, a, b
<1> HIDE DEF c, n
<1>7. c \in Seq(S) /\ Len(c) = k /\ \A i \in 1..k : c[i] = IF i < k THEN s[i] ELSE e
  BY <1>5 DEF c
<1>8. /\ c \o b \in Seq(S) /\ Len(c \o b) = n + 1 /\ DOMAIN (c \o b) = 1..(n + 1)
      /\ \A i \in 1..(n + 1) : (c \o b)[i] = IF i <= k THEN c[i] ELSE b[i - k]
  <2>1. Len(c) + Len(b) = n + 1
    BY <1>1, <1>3, <1>7
  <2>2. /\ c \o b \in Seq(S) /\ Len(c \o b) = Len(c) + Len(b) /\ DOMAIN (c \o b) = 1..(Len(c) + Len(b))
        /\ \A i \in 1..(Len(c) + Len(b)) : (c \o b)[i] = IF i <= Len(c) THEN c[i] ELSE b[i - Len(c)]
    BY <1>3, <1>7, Concatenated
  <2> QED BY ONLY <2>1, <2>2, <1>7
<1>9. \A i \in 1..(n + 1) : (c \o b)[i] = IF i < k THEN s[i] ELSE IF i = k THEN e ELSE s[i - 1]
  <2> TAKE i \in 1..(n + 1)
  <2>1. CASE i <= k
    BY <2>1, <1>1, <1>7, <1>8
  <2>2. CASE i > k
    <3>1. i - k \in 1..(n - k + 1) /\ k + (i - k) - 1 = i - 1 /\ ~(i <= k) /\ ~(i < k) /\ i # k
      BY <1>1, <2>2
    <3>2. (c \o b)[i] = b[i - k]
      BY ONLY <1>8, <3>1, i \in 1..(n + 1)
    <3>3. b[i - k] = s[k + (i - k) - 1]
      BY ONLY <1>3, <3>1
    <3>4. s[k + (i - k) - 1] = s[i - 1]
      BY ONLY <3>1, Zenon
    <3>5. (c \o b)[i] = s[i - 1]
      BY ONLY <3>2, <3>3, <3>4, Zenon
    <3>6. i \in Int /\ k \in Int
      BY <1>1
    <3> QED BY ONLY <3>1, <3>5, <3>6, Zenon
  <2>3. i <= k \/ i > k
    BY <1>1
  <2> QED BY ONLY <2>1, <2>2, <2>3, Zenon
<1> QED BY <1>6, <1>8, <1>9 DEF n

LEMMA Removed ==
  ASSUME NEW S, NEW s \in Seq(S), NEW k \in 1..Len(s)
  PROVE  /\ RemoveAt(s, k) \in Seq(S) /\ Len(RemoveAt(s, k)) = Len(s) - 1
         /\ \A i \in 1..(Len(s) - 1) : RemoveAt(s, k)[i] = IF i < k THEN s[i] ELSE s[i + 1]
<1> DEFINE n == Len(s)
           a == SubSeq(s, 1, k - 1)
           b == SubSeq(s, k + 1, n)
<1>1. n \in Nat /\ k \in Nat /\ 1 <= k /\ k <= n
  OBVIOUS
<1>2. a \in Seq(S) /\ Len(a) = k - 1 /\ \A i \in 1..(k - 1) : a[i] = s[i]
  <2>1. 1 \in 1..(n + 1) /\ k - 1 \in 0..n /\ 1 <= k - 1 + 1 /\ k - 1 - 1 + 1 = k - 1
    BY <1>1
  <2>2. \A i \in 1..(k - 1) : 1 + i - 1 = i
    BY <1>1
  <2> QED BY <2>1, <2>2, Section
<1>3. b \in Seq(S) /\ Len(b) = n - k /\ \A i \in 1..(n - k) : b[i] = s[k + i]
  <2>1. k + 1 \in 1..(n + 1) /\ n \in 0..n /\ k + 1 <= n + 1 /\ n - (k + 1) + 1 = n - k
    BY <1>1
  <2>2. \A i \in 1..(n - k) : k + 1 + i - 1 = k + i
    BY <1>1
  <2> DEFINE h == k + 1
  <2>3. /\ b \in Seq(S) /\ Len(b) = n - (k + 1) + 1
        /\ \A i \in 1..(n - (k + 1) + 1) : b[i] = s[k + 1 + i - 1]
    <3>1. h \in 1..(Len(s) + 1) /\ n \in 0..Len(s) /\ h <= n + 1 /\ b = SubSeq(s, h, n)
      BY <2>1
    <3>2. s \in Seq(S)
      OBVIOUS
    <3> HIDE DEF h, n, b
    <3>3. /\ b \in Seq(S) /\ Len(b) = n - h + 1
          /\ \A i \in 1..(n - h + 1) : b[i] = s[h + i - 1]
      BY ONLY <3>1, <3>2, Section
    <3> QED BY <3>3 DEF h
  <2> HIDE DEF n, b
  <2> QED BY ONLY <2>1, <2>2, <2>3
<1>4. RemoveAt(s, k) = a \o b
  BY DEF RemoveAt
<1> HIDE DEF a, b, n
<1>5. /\ a \o b \in Seq(S) /\ Len(a \o b) = n - 1
      /\ \A i \in 1..(n - 1) : (a \o b)[i] = IF i <= k - 1 THEN a[i] ELSE b[i - (k - 1)]
  <2>1. Len(a) + Len(b) = n - 1
    BY <1>1, <1>2, <1>3
  <2>2. /\ a \o b \in Seq(S) /\ Len(a \o b) = Len(a) + Len(b)
        /\ \A i \in 1..(Len(a) + Len(b)) : (a \o b)[i] = IF i <= Len(a) THEN a[i] ELSE b[i - Len(a)]
    BY <1>2, <1>3, Concatenated
  <2> QED BY ONLY <2>1, <2>2, <1>2
<1>6. \A i \in 1..(n - 1) : (a \o b)[i] = IF i < k THEN s[i] ELSE s[i + 1]
  <2> TAKE i \in 1..(n - 1)
  <2>1. CASE i < k
    BY <2>1, <1>1, <1>2, <1>5
  <2>2. CASE i >= k
    <3>1. i - (k - 1) \in 1..(n - k) /\ k + (i - (k - 1)) = i + 1 /\ ~(i <= k - 1) /\ ~(i < k)
      BY <1>1, <2>2
    <3>2. (a \o b)[i] = b[i - (k - 1)]
      BY ONLY <1>5, <3>1, i \in 1..(n - 1)
    <3>3. b[i - (k - 1)] = s[k + (i - (k - 1))]
      BY ONLY <1>3, <3>1
    <3>4. s[k + (i - (k - 1))] = s[i + 1]
      BY ONLY <3>1, Zenon
    <3>5. (a \o b)[i] = s[i + 1]
      BY ONLY <3>2, <3>3, <3>4, Zenon
    <3>6. i \in Int /\ k \in Int
      BY <1>1
    <3> QED BY ONLY <3>1, <3>5, <3>6, Zenon
  <2>3. i < k \/ i >= k
    BY <1>1
  <2> QED BY ONLY <2>1, <2>2, <2>3, Zenon
<1> QED BY <1>4, <1>5, <1>6 DEF n

\* What the changes of the list do to its targets.
LEMMA SetOf == \A s, n : DOMAIN s = 1..n => \A x : x \in ToSet(s) <=> \E i \in 1..n : x = s[i]
BY DEF ToSet

LEMMA InsertedTargets ==
  ASSUME NEW s \in Seq(Target), NEW k \in 1..(Len(s) + 1), NEW e \in Target
  PROVE  /\ InsertAt(s, k, e) \in Seq(Target) /\ Len(InsertAt(s, k, e)) = Len(s) + 1
         /\ ToSet(InsertAt(s, k, e)) = ToSet(s) \cup {e}
         /\ Distinct(s) /\ (\A x \in ToSet(s) : x.id # e.id) => Distinct(InsertAt(s, k, e))
<1> DEFINE t == InsertAt(s, k, e)
           n == Len(s)
<1>1. /\ t \in Seq(Target) /\ Len(t) = n + 1 /\ DOMAIN t = 1..(n + 1)
      /\ \A i \in 1..(n + 1) : t[i] = IF i < k THEN s[i] ELSE IF i = k THEN e ELSE s[i - 1]
  BY Inserted
<1>2. n \in Nat /\ k \in 1..(n + 1) /\ DOMAIN s = 1..n
  OBVIOUS
<1> HIDE DEF t, n
<1>3. \A i \in 1..(n + 1) : \/ (i = k /\ t[i] = e)
                            \/ (i < k /\ i \in 1..n /\ t[i] = s[i])
                            \/ (i > k /\ i - 1 \in 1..n /\ t[i] = s[i - 1])
  BY <1>1, <1>2
<1>4. \A j \in 1..n : (j \in 1..(n + 1) /\ t[j] = s[j]) \/ (j + 1 \in 1..(n + 1) /\ t[j + 1] = s[j])
  <2> TAKE j \in 1..n
  <2>1. CASE j < k
    BY <1>1, <1>2, <2>1
  <2>2. CASE j >= k
    <3>1. j + 1 \in 1..(n + 1) /\ j + 1 > k /\ (j + 1) - 1 = j
      BY <1>2, <2>2
    <3>2. t[j + 1] = s[(j + 1) - 1]
      BY <1>3, <1>2, <3>1
    <3> QED BY <3>1, <3>2
  <2> QED BY <1>2, <2>1, <2>2
<1>5. t[k] = e
  BY <1>1, <1>2
<1>6. ToSet(t) = ToSet(s) \cup {e}
  <2>1. \A x : x \in ToSet(t) <=> \E i \in 1..(n + 1) : x = t[i]
    BY <1>1, SetOf
  <2>2. \A x : x \in ToSet(s) <=> \E i \in 1..n : x = s[i]
    BY <1>2, SetOf
  <2>3. \A i \in 1..(n + 1) : t[i] = e \/ \E j \in 1..n : t[i] = s[j]
    BY <1>3
  <2>4. \A j \in 1..n : \E i \in 1..(n + 1) : t[i] = s[j]
    BY <1>4
  <2> QED BY <1>2, <1>5, <2>1, <2>2, <2>3, <2>4
<1>7. ASSUME Distinct(s), \A x \in ToSet(s) : x.id # e.id PROVE Distinct(t)
  <2>1. \A i \in 1..n : s[i].id # e.id
    BY <1>2, <1>7, SetOf
  <2>2. \A i, j \in 1..n : s[i].id = s[j].id => i = j
    BY <1>2, <1>7 DEF Distinct
  <2> SUFFICES ASSUME NEW i \in 1..(n + 1), NEW j \in 1..(n + 1), t[i].id = t[j].id PROVE i = j
    BY <1>1 DEF Distinct
  <2>3. CASE i = k \/ j = k
    BY <1>3, <2>1, <2>3
  <2>4. CASE i < k /\ j < k
    BY <1>3, <1>2, <2>2, <2>4
  <2>5. CASE i > k /\ j > k
    <3>1. i - 1 \in 1..n /\ j - 1 \in 1..n /\ t[i] = s[i - 1] /\ t[j] = s[j - 1]
      BY <1>3, <1>2, <2>5
    <3>2. i - 1 = j - 1
      BY <2>2, <3>1
    <3> QED BY <3>2, <1>2
  <2>6. CASE i < k /\ j > k
    <3>1. i \in 1..n /\ j - 1 \in 1..n /\ t[i] = s[i] /\ t[j] = s[j - 1]
      BY <1>3, <1>2, <2>6
    <3>2. i = j - 1
      BY <2>2, <3>1
    <3> QED BY <3>2, <2>6, <1>2
  <2>7. CASE i > k /\ j < k
    <3>1. i - 1 \in 1..n /\ j \in 1..n /\ t[i] = s[i - 1] /\ t[j] = s[j]
      BY <1>3, <1>2, <2>7
    <3>2. i - 1 = j
      BY <2>2, <3>1
    <3> QED BY <3>2, <2>7, <1>2
  <2> QED BY <1>2, <2>3, <2>4, <2>5, <2>6, <2>7
<1> QED BY <1>1, <1>6, <1>7 DEF t, n

LEMMA ReplacedTargets ==
  ASSUME NEW s \in Seq(Target), NEW i \in 1..Len(s), NEW e \in Target, Distinct(s), e.id = s[i].id
  PROVE  /\ [s EXCEPT ![i] = e] \in Seq(Target) /\ Len([s EXCEPT ![i] = e]) = Len(s)
         /\ Distinct([s EXCEPT ![i] = e])
         /\ \A x : x \in ToSet([s EXCEPT ![i] = e]) <=> x = e \/ (x \in ToSet(s) /\ x # s[i])
<1> DEFINE t == [s EXCEPT ![i] = e]
           n == Len(s)
<1>1. /\ t \in Seq(Target) /\ Len(t) = n /\ DOMAIN t = 1..n /\ DOMAIN s = 1..n /\ t[i] = e
      /\ i \in 1..n /\ \A j \in 1..n : j # i => t[j] = s[j]
  OBVIOUS
<1> HIDE DEF t, n
<1>2. \A j \in 1..n : s[j] = s[i] => j = i
  BY <1>1 DEF Distinct
<1>3. \A x : x \in ToSet(t) <=> x = e \/ (x \in ToSet(s) /\ x # s[i])
  BY <1>1, <1>2, SetOf
<1>4. Distinct(t)
  BY <1>1 DEF Distinct
<1> QED BY <1>1, <1>3, <1>4 DEF t, n

LEMMA RemovedTargets ==
  ASSUME NEW s \in Seq(Target), NEW k \in 1..Len(s), Distinct(s)
  PROVE  /\ RemoveAt(s, k) \in Seq(Target) /\ Len(RemoveAt(s, k)) = Len(s) - 1
         /\ Distinct(RemoveAt(s, k))
         /\ \A x : x \in ToSet(RemoveAt(s, k)) <=> x \in ToSet(s) /\ x # s[k]
<1> DEFINE t == RemoveAt(s, k)
           n == Len(s)
<1>1. /\ t \in Seq(Target) /\ Len(t) = n - 1
      /\ \A i \in 1..(n - 1) : t[i] = IF i < k THEN s[i] ELSE s[i + 1]
  BY Removed
<1>2. n \in Nat /\ k \in 1..n /\ DOMAIN s = 1..n
  OBVIOUS
<1> HIDE DEF t, n
<1>3. DOMAIN t = 1..(n - 1)
  BY <1>1, <1>2
<1>4. \A i \in 1..(n - 1) : (i < k /\ i \in 1..n /\ t[i] = s[i])
        \/ (i >= k /\ i + 1 \in 1..n /\ t[i] = s[i + 1])
  BY <1>1, <1>2
<1>5. \A j \in 1..n : j = k \/ (j < k /\ j \in 1..(n - 1) /\ t[j] = s[j])
        \/ (j > k /\ j - 1 \in 1..(n - 1) /\ t[j - 1] = s[j])
  <2> TAKE j \in 1..n
  <2>1. CASE j > k
    <3>1. j - 1 \in 1..(n - 1) /\ ~(j - 1 < k) /\ (j - 1) + 1 = j
      BY <1>2, <2>1
    <3>2. t[j - 1] = s[(j - 1) + 1]
      BY <1>4, <1>2, <3>1
    <3> QED BY <2>1, <3>1, <3>2
  <2>2. CASE j <= k
    BY <1>1, <1>2, <2>2
  <2> QED BY <1>2, <2>1, <2>2
<1>6. \A i, j \in 1..n : s[i].id = s[j].id => i = j
  BY <1>2 DEF Distinct
<1>7. \A x : x \in ToSet(t) <=> x \in ToSet(s) /\ x # s[k]
  <2>1. \A i \in 1..(n - 1) : t[i] # s[k] /\ \E j \in 1..n : t[i] = s[j]
    BY <1>2, <1>4, <1>6
  <2>2. \A j \in 1..n : s[j] # s[k] => \E i \in 1..(n - 1) : t[i] = s[j]
    BY <1>5
  <2>3. \A x : x \in ToSet(t) <=> \E i \in 1..(n - 1) : x = t[i]
    BY <1>3, SetOf
  <2>4. \A x : x \in ToSet(s) <=> \E i \in 1..n : x = s[i]
    BY <1>2, SetOf
  <2>5. \A x : x \in ToSet(t) => x \in ToSet(s) /\ x # s[k]
    BY ONLY <2>1, <2>3, <2>4
  <2>6. \A x : x \in ToSet(s) /\ x # s[k] => x \in ToSet(t)
    BY ONLY <2>2, <2>3, <2>4
  <2> QED BY ONLY <2>5, <2>6, Zenon
<1>8. Distinct(t)
  <2> SUFFICES ASSUME NEW i \in 1..(n - 1), NEW j \in 1..(n - 1), t[i].id = t[j].id PROVE i = j
    BY <1>3 DEF Distinct
  <2>1. CASE i < k /\ j < k
    BY <1>4, <1>2, <1>6, <2>1
  <2>2. CASE i >= k /\ j >= k
    <3>1. i + 1 = j + 1
      BY <1>4, <1>2, <1>6, <2>2
    <3> QED BY <3>1, <1>2
  <2>3. CASE i < k /\ j >= k
    <3>1. i = j + 1
      BY <1>4, <1>2, <1>6, <2>3
    <3> QED BY <3>1, <1>2, <2>3
  <2>4. CASE i >= k /\ j < k
    <3>1. i + 1 = j
      BY <1>4, <1>2, <1>6, <2>4
    <3> QED BY <3>1, <1>2, <2>4
  <2> QED BY <1>2, <2>1, <2>2, <2>3, <2>4
<1> QED BY <1>1, <1>7, <1>8 DEF t, n

\* A list cut in two.
LEMMA CutTargets ==
  ASSUME NEW s \in Seq(Target), NEW k \in 0..Len(s), Distinct(s)
  PROVE  LET a == SubSeq(s, 1, k)  b == SubSeq(s, k + 1, Len(s))
         IN /\ a \in Seq(Target) /\ Len(a) = k /\ Distinct(a)
            /\ b \in Seq(Target) /\ Len(b) = Len(s) - k /\ Distinct(b)
            /\ ToSet(s) = ToSet(a) \cup ToSet(b)
            /\ \A x \in ToSet(a), y \in ToSet(b) : x.id # y.id
            /\ \A x : x \in ToSet(a) <=> \E i \in 1..k : x = s[i]
<1> DEFINE a == SubSeq(s, 1, k)
           b == SubSeq(s, k + 1, Len(s))
           n == Len(s)
<1>1. n \in Nat /\ k \in 0..n /\ DOMAIN s = 1..n
  OBVIOUS
<1>2. a \in Seq(Target) /\ Len(a) = k /\ DOMAIN a = 1..k /\ \A i \in 1..k : a[i] = s[i] /\ i \in 1..n
  <2>1. 1 \in 1..(n + 1) /\ k \in 0..n /\ 1 <= k + 1 /\ k - 1 + 1 = k
    BY <1>1
  <2>2. \A i \in 1..k : 1 + i - 1 = i /\ i \in 1..n
    BY <1>1
  <2>3. /\ a \in Seq(Target) /\ Len(a) = k - 1 + 1 /\ DOMAIN a = 1..(k - 1 + 1)
        /\ \A i \in 1..(k - 1 + 1) : a[i] = s[1 + i - 1]
    BY <2>1, Section
  <2> HIDE DEF a, n
  <2> QED BY ONLY <2>1, <2>2, <2>3
<1> DEFINE h == k + 1
<1>3. b \in Seq(Target) /\ Len(b) = n - k /\ DOMAIN b = 1..(n - k)
      /\ \A i \in 1..(n - k) : b[i] = s[k + i] /\ k + i \in 1..n
  <2>1. h \in 1..(Len(s) + 1) /\ n \in 0..Len(s) /\ h <= n + 1 /\ b = SubSeq(s, h, n) /\ n - h + 1 = n - k
    BY <1>1
  <2>2. s \in Seq(Target)
    OBVIOUS
  <2>3. \A i \in 1..(n - k) : h + i - 1 = k + i /\ k + i \in 1..n
    BY <1>1
  <2> HIDE DEF h, n, b
  <2>4. /\ b \in Seq(Target) /\ Len(b) = n - h + 1 /\ DOMAIN b = 1..(n - h + 1)
        /\ \A i \in 1..(n - h + 1) : b[i] = s[h + i - 1]
    BY ONLY <2>1, <2>2, Section
  <2> QED BY ONLY <2>1, <2>3, <2>4
<1> HIDE DEF a, b, n, h
<1>4. \A i, j \in 1..n : s[i].id = s[j].id => i = j
  BY <1>1 DEF Distinct
<1>5. Distinct(a)
  BY <1>2, <1>4 DEF Distinct
<1>6. Distinct(b)
  <2> SUFFICES ASSUME NEW i \in 1..(n - k), NEW j \in 1..(n - k), b[i].id = b[j].id PROVE i = j
    BY <1>3 DEF Distinct
  <2>1. k + i = k + j
    BY <1>3, <1>4
  <2> QED BY <1>1, <2>1
<1>7. \A x : x \in ToSet(a) <=> \E i \in 1..k : x = s[i]
  BY <1>2, SetOf
<1>8. \A x : x \in ToSet(b) <=> \E i \in 1..(n - k) : x = s[k + i]
  BY <1>3, SetOf
<1>9. \A j \in 1..n : j \in 1..k \/ (j - k \in 1..(n - k) /\ k + (j - k) = j)
  BY <1>1
<1>10. ToSet(s) = ToSet(a) \cup ToSet(b)
  <2>1. \A j \in 1..n : j \in 1..k \/ \E i \in 1..(n - k) : j = k + i
    BY <1>9
  <2>2. \A x : x \in ToSet(s) <=> \E i \in 1..n : x = s[i]
    BY <1>1, SetOf
  <2>3. \A i \in 1..k : i \in 1..n
    BY <1>1
  <2>4. \A i \in 1..(n - k) : k + i \in 1..n
    BY <1>3
  <2>5. \A x \in ToSet(s) : x \in ToSet(a) \/ x \in ToSet(b)
    BY ONLY <2>1, <2>2, <1>7, <1>8
  <2>6. \A x \in ToSet(a) : x \in ToSet(s)
    BY ONLY <2>2, <2>3, <1>7
  <2>7. \A x \in ToSet(b) : x \in ToSet(s)
    BY ONLY <2>2, <2>4, <1>8
  <2> QED BY ONLY <2>5, <2>6, <2>7
<1>11. \A i \in 1..k, j \in 1..(n - k) : i # k + j
  BY <1>1
<1>12. \A x \in ToSet(a), y \in ToSet(b) : x.id # y.id
  BY <1>2, <1>3, <1>4, <1>7, <1>8, <1>11
<1> QED BY <1>2, <1>3, <1>5, <1>6, <1>7, <1>10, <1>12 DEF a, b, n

LEMMA JoinedTargets ==
  ASSUME NEW s \in Seq(Target), NEW t \in Seq(Target), Distinct(s), Distinct(t),
         \A x \in ToSet(s), y \in ToSet(t) : x.id # y.id
  PROVE  s \o t \in Seq(Target) /\ ToSet(s \o t) = ToSet(s) \cup ToSet(t) /\ Distinct(s \o t)
<1> DEFINE u == s \o t
           m == Len(s)
           n == Len(t)
<1>1. /\ u \in Seq(Target) /\ DOMAIN u = 1..(m + n) /\ m \in Nat /\ n \in Nat
      /\ DOMAIN s = 1..m /\ DOMAIN t = 1..n
      /\ \A i \in 1..m : u[i] = s[i]
      /\ \A i \in 1..n : u[m + i] = t[i]
  OBVIOUS
<1> HIDE DEF u, m, n
<1>2. \A i \in 1..(m + n) : i \in 1..m \/ \E j \in 1..n : i = m + j
  <2> TAKE i \in 1..(m + n)
  <2>1. i \in 1..m \/ (i - m \in 1..n /\ i = m + (i - m))
    BY <1>1
  <2> QED BY <2>1
<1>3. \A j \in 1..n : m + j \in 1..(m + n)
  BY <1>1
<1>4. \A i \in 1..m : i \in 1..(m + n)
  BY <1>1
<1>5. ToSet(u) = ToSet(s) \cup ToSet(t)
  <2>1. \A x : x \in ToSet(u) <=> \E i \in 1..(m + n) : x = u[i]
    BY <1>1, SetOf
  <2>2. \A x : x \in ToSet(s) <=> \E i \in 1..m : x = s[i]
    BY <1>1, SetOf
  <2>3. \A x : x \in ToSet(t) <=> \E i \in 1..n : x = t[i]
    BY <1>1, SetOf
  <2>4. \A i \in 1..(m + n) : (\E j \in 1..m : u[i] = s[j]) \/ (\E j \in 1..n : u[i] = t[j])
    BY <1>1, <1>2
  <2>5. \A j \in 1..m : \E i \in 1..(m + n) : s[j] = u[i]
    BY <1>1, <1>4
  <2>6. \A j \in 1..n : \E i \in 1..(m + n) : t[j] = u[i]
    BY <1>1, <1>3
  <2> QED BY ONLY <2>1, <2>2, <2>3, <2>4, <2>5, <2>6
<1>6. \A i \in 1..m, j \in 1..n : s[i].id # t[j].id
  BY <1>1, SetOf
<1>7. \A i, j \in 1..n : m + i = m + j <=> i = j
  BY <1>1
<1>8. Distinct(u)
  <2> SUFFICES ASSUME NEW i \in 1..(m + n), NEW j \in 1..(m + n), u[i].id = u[j].id PROVE i = j
    BY <1>1 DEF Distinct
  <2>1. CASE i \in 1..m /\ j \in 1..m
    BY <1>1, <2>1 DEF Distinct
  <2>2. ASSUME i \in 1..m, NEW b \in 1..n, j = m + b PROVE FALSE
    BY <1>1, <1>6, <2>2
  <2>3. ASSUME j \in 1..m, NEW a \in 1..n, i = m + a PROVE FALSE
    BY <1>1, <1>6, <2>3
  <2>4. ASSUME NEW a \in 1..n, i = m + a, NEW b \in 1..n, j = m + b PROVE i = j
    <3>1. t[a].id = t[b].id
      BY <1>1, <2>4
    <3>2. a = b
      BY <3>1, <1>1 DEF Distinct
    <3> QED BY <3>2, <2>4
  <2> QED BY <1>2, <2>1, <2>2, <2>3, <2>4
<1> QED BY <1>1, <1>5, <1>8 DEF u

\* Pruning parts the list: what expired, in whatever order, and what remains.
LEMMA PrunedTargets ==
  ASSUME live \in Seq(Target), Distinct(live), NEW k \in 0..Len(live), NEW order \in Expired(k)
  PROVE  /\ order \in Seq(Target) /\ Distinct(order)
         /\ Remaining(k) \in Seq(Target) /\ Len(Remaining(k)) = Len(live) - k /\ Distinct(Remaining(k))
         /\ ToSet(live) = ToSet(order) \cup ToSet(Remaining(k))
         /\ \A x \in ToSet(order), y \in ToSet(Remaining(k)) : x.id # y.id
<1> DEFINE a == SubSeq(live, 1, k)
           b == SubSeq(live, k + 1, Len(live))
<1>1. /\ b \in Seq(Target) /\ Len(b) = Len(live) - k /\ Distinct(b)
      /\ ToSet(live) = ToSet(a) \cup ToSet(b)
      /\ \A x \in ToSet(a), y \in ToSet(b) : x.id # y.id
      /\ \A x : x \in ToSet(a) <=> \E i \in 1..k : x = live[i]
  BY CutTargets
<1>2. /\ order \in Seq(Target) /\ Distinct(order)
      /\ \A i \in DOMAIN order : \E j \in 1..k : order[i] = live[j]
      /\ \A j \in 1..k : \E i \in DOMAIN order : order[i] = live[j]
  BY ExpiredFacts
<1>3. Remaining(k) = b
  BY DEF Remaining
<1> HIDE DEF a, b
<1>4. \A x : x \in ToSet(order) <=> \E i \in DOMAIN order : x = order[i]
  BY DEF ToSet
<1>5. \A x : x \in ToSet(order) <=> x \in ToSet(a)
  <2>1. \A x : x \in ToSet(a) <=> \E i \in 1..k : x = live[i]
    BY <1>1
  <2>2. \A i \in DOMAIN order : order[i] \in ToSet(a)
    BY ONLY <1>2, <2>1
  <2>3. \A j \in 1..k : live[j] \in ToSet(order)
    BY ONLY <1>2, <1>4
  <2> QED BY ONLY <1>4, <2>1, <2>2, <2>3
<1>6. ToSet(order) = ToSet(a)
  BY ONLY <1>5
<1> QED BY ONLY <1>1, <1>2, <1>3, <1>6

LEMMA TrimmedTargets ==
  ASSUME NEW all \in Seq(Target), Distinct(all)
  PROVE  /\ Trimmed(all) \in Seq(Target) /\ Distinct(Trimmed(all))
         /\ Kept(all) \in Seq(Target) /\ Len(Kept(all)) <= Capacity /\ Distinct(Kept(all))
         /\ ToSet(all) = ToSet(Trimmed(all)) \cup ToSet(Kept(all))
         /\ \A x \in ToSet(Trimmed(all)), y \in ToSet(Kept(all)) : x.id # y.id
<1> DEFINE n == Len(all)
           k == IF n > Capacity THEN n - Capacity ELSE 0
           a == SubSeq(all, 1, k)
           b == SubSeq(all, k + 1, n)
<1>1. n \in Nat /\ Capacity \in Nat /\ k \in 0..Len(all) /\ n - k <= Capacity
  BY FPVArchiveAssumption
<1>2. Trimmed(all) = a
  <2>1. CASE n > Capacity
    BY <2>1 DEF Trimmed
  <2>2. CASE ~(n > Capacity)
    <3>1. SubSeq(all, 1, n - Capacity) = <<>> /\ SubSeq(all, 1, 0) = <<>>
      BY <1>1, <2>2
    <3> QED BY <2>2, <3>1 DEF Trimmed
  <2> QED BY <2>1, <2>2
<1> HIDE DEF k
<1>3. /\ a \in Seq(Target) /\ Len(a) = k /\ Distinct(a)
      /\ b \in Seq(Target) /\ Len(b) = n - k /\ Distinct(b)
      /\ ToSet(all) = ToSet(a) \cup ToSet(b)
      /\ \A x \in ToSet(a), y \in ToSet(b) : x.id # y.id
  BY <1>1, CutTargets
<1>4. Kept(all) = b
  <2>1. 1 + Len(a) = k + 1
    BY <1>1, <1>3
  <2> HIDE DEF a
  <2> QED BY <1>2, <2>1 DEF Kept
<1> HIDE DEF a, b, n
<1> QED BY ONLY <1>1, <1>2, <1>3, <1>4

\* Merging replaces one target by one of the same identity.
LEMMA MergedTargets ==
  ASSUME NEW t \in Seq(Target), Distinct(t), NEW i \in 1..Len(t), NEW s \in Signal,
         NEW after \in 0..Len(t)
  PROVE  \E e \in Target :
           /\ e.id = t[i].id /\ (e.everValid <=> t[i].everValid \/ s.valid)
           /\ e.serial = IF t[i].serial = NoSerial THEN s.serial ELSE t[i].serial
           /\ Merged(t, i, s, after) \in Seq(Target) /\ Len(Merged(t, i, s, after)) = Len(t)
           /\ Distinct(Merged(t, i, s, after))
           /\ \A x : x \in ToSet(Merged(t, i, s, after)) <=> x = e \/ (x \in ToSet(t) /\ x # t[i])
<1> DEFINE o == t[i]
           known == [o EXCEPT !.serial = IF @ = NoSerial THEN s.serial ELSE @,
                              !.everValid = EverValid(o, s)]
           moved == [known EXCEPT !.frequency = s.frequency]
           m == Merged(t, i, s, after)
<1>1. o \in Target /\ s.serial \in Serials \cup {NoSerial} /\ s.frequency \in Frequencies
      /\ s.valid \in BOOLEAN
  BY DEF Signal
<1>2. EverValid(o, s) \in BOOLEAN /\ (EverValid(o, s) <=> o.everValid \/ s.valid)
  BY <1>1 DEF EverValid, Target
<1>3. /\ known \in Target /\ known.id = o.id /\ (known.everValid <=> o.everValid \/ s.valid)
      /\ known.serial = IF o.serial = NoSerial THEN s.serial ELSE o.serial
  <2> HIDE DEF o
  <2> QED BY <1>1, <1>2 DEF Target
<1>4. /\ moved \in Target /\ moved.id = o.id /\ (moved.everValid <=> o.everValid \/ s.valid)
      /\ moved.serial = IF o.serial = NoSerial THEN s.serial ELSE o.serial
  <2> HIDE DEF o, known
  <2> QED BY <1>1, <1>3 DEF Target
<1>5. m = IF after < i THEN [t EXCEPT ![i] = known] ELSE InsertAt(RemoveAt(t, i), after, moved)
  BY DEF Merged
<1>6. \A x \in ToSet(t) : x # o => x.id # o.id
  BY DEF ToSet, Distinct
<1> HIDE DEF o, known, moved
<1>7. CASE after < i
  <2>1. o = t[i]
    BY DEF o
  <2>2. /\ [t EXCEPT ![i] = known] \in Seq(Target) /\ Len([t EXCEPT ![i] = known]) = Len(t)
        /\ Distinct([t EXCEPT ![i] = known])
        /\ \A x : x \in ToSet([t EXCEPT ![i] = known]) <=> x = known \/ (x \in ToSet(t) /\ x # t[i])
    BY <1>3, <2>1, ReplacedTargets
  <2> HIDE DEF m
  <2>3. m = [t EXCEPT ![i] = known]
    BY <1>5, <1>7
  <2> QED BY <1>3, <2>1, <2>2, <2>3 DEF m
<1>8. CASE ~(after < i)
  <2> DEFINE r == RemoveAt(t, i)
             u == InsertAt(r, after, moved)
  <2>1. o = t[i]
    BY DEF o
  <2>2. /\ r \in Seq(Target) /\ Len(r) = Len(t) - 1 /\ Distinct(r)
        /\ \A x : x \in ToSet(r) <=> x \in ToSet(t) /\ x # t[i]
    BY RemovedTargets
  <2>3. after \in 1..(Len(r) + 1)
    BY <1>8, <2>2
  <2> HIDE DEF r
  <2>4. /\ u \in Seq(Target) /\ Len(u) = Len(r) + 1 /\ ToSet(u) = ToSet(r) \cup {moved}
        /\ Distinct(r) /\ (\A x \in ToSet(r) : x.id # moved.id) => Distinct(u)
    BY <1>4, <2>2, <2>3, InsertedTargets
  <2>5. \A x \in ToSet(r) : x.id # moved.id
    BY <1>4, <1>6, <2>1, <2>2
  <2>6. Len(u) = Len(t)
    BY <2>2, <2>4
  <2> HIDE DEF m, u
  <2>7. m = u
    BY <1>5, <1>8 DEF u, r
  <2>8. \A x : x \in ToSet(u) <=> x = moved \/ (x \in ToSet(t) /\ x # t[i])
    BY ONLY <2>2, <2>4
  <2> QED BY <1>4, <2>1, <2>2, <2>4, <2>5, <2>6, <2>7, <2>8 DEF m
<1> QED BY <1>7, <1>8

\* A signal with a serial number that is known belongs to the target that has it.
LEMMA FindFacts ==
  ASSUME NEW t, NEW s
  PROVE  /\ Find(t, s) \subseteq DOMAIN t
         /\ Find(t, s) = {} /\ s.serial # NoSerial => \A j \in DOMAIN t : t[j].serial # s.serial
         /\ \A i \in Find(t, s) : t[i].serial = NoSerial /\ s.serial # NoSerial
              => \A j \in DOMAIN t : t[j].serial # s.serial
<1>1. \A S : Only(S) \subseteq S
  BY DEF Only
<1>2. WithSerial(t, s) = {i \in DOMAIN t : t[i].serial = s.serial}
  BY DEF WithSerial, SameSerial
<1>3. Anonymous(t, s) \subseteq DOMAIN t /\ Known(t, s) \subseteq DOMAIN t
  BY DEF Anonymous, Known
<1> QED BY <1>1, <1>2, <1>3 DEF Find

-----------------------------------------------------------------------------
(* The inductive invariant.                                                  *)

IdsIn(S) == {x.id : x \in S}
OneEach(S) == \A x, y \in S : x.serial = y.serial /\ x.serial # NoSerial => x = y

\* Each live target is known once, and knows whether it was ever valid.
Lives ==
  /\ Distinct(live)
  /\ \A x \in ToSet(live) : x.id < next /\ (x.everValid <=> x.id \in valid)
  /\ OneEach(ToSet(live))

\* Where the valid targets are: live, or pending or overwritten, or archived.
Places ==
  /\ LiveIds \cap (Pending \cup db \cup evicted) = {}
  /\ Pending \cap evicted = {}
  /\ Pending \cup db \cup evicted \subseteq valid
  /\ valid \subseteq LiveIds \cup Pending \cup db \cup evicted
  /\ \A t \in valid : t < next

\* A flush works on its batch while it holds the gate; the batch was pending, and
\* what succeeded is in the archive.
Flushing ==
  \A p \in Flushers :
    /\ flush[p].pc \in {"take", "archive", "apply", "end"} => gate = p
    /\ flush[p].pc \in {"archive", "apply"} =>
         /\ ToSet(flush[p].batch) \subseteq Pending \cup evicted
         /\ Len(flush[p].batch) <= flush[p].left
    /\ flush[p].pc = "apply" => flush[p].ok \subseteq db \cap ToSet(flush[p].batch)

\* Events wait only with the one that holds fpvEventMu.  A removal is of a target
\* that is gone, an update of a live one.
Gone(t) == t \notin LiveIds /\ t < next
Telling ==
  /\ \A a \in Actors : outbox[a] # <<>> => eventMu = a
  /\ \A a \in Actors : \A i \in DOMAIN outbox[a] :
       /\ outbox[a][i].type = "removed" => Gone(outbox[a][i].id)
       /\ outbox[a][i].type = "updated" => outbox[a][i].id \in LiveIds
  /\ \A t \in Ids : told[t] = "removed" => Gone(t)

ArchiveInv == TypeOK /\ Lives /\ Places /\ Flushing /\ Telling

LEMMA IdsAreNumbers == Ids \subseteq Nat
BY DEF Ids

LEMMA LiveFacts ==
  ASSUME live \in Seq(Target)
  PROVE  LiveIds = IdsIn(ToSet(live)) /\ LiveIds \subseteq Ids
<1>1. \A i \in DOMAIN live : live[i] \in Target
  OBVIOUS
<1> QED BY <1>1 DEF LiveIds, IdsIn, ToSet, Target

LEMMA TypeFacts ==
  ASSUME TypeOK
  PROVE  /\ live \in Seq(Target) /\ Len(live) <= Capacity /\ Queue \in Queues /\ IsInjective(slots)
         /\ slots \in Seq(Ids) /\ Len(slots) <= QueueLimit
         /\ QueueLimit \in Nat \ {0} /\ Capacity \in Nat \ {0} /\ BatchSize \in Nat \ {0}
<1>1. QueueLimit \in Nat \ {0} /\ Capacity \in Nat \ {0} /\ BatchSize \in Nat \ {0}
  BY FPVArchiveAssumption
<1>2. /\ live \in BoundedSeq(Target, Capacity) /\ slots \in BoundedSeq(Ids, QueueLimit) /\ IsInjective(slots)
      /\ head \in 0..(QueueLimit - 1) /\ (head # 0 => Len(slots) = QueueLimit) /\ evicted \in SUBSET Ids
  BY DEF TypeOK
<1>3. live \in Seq(Target) /\ Len(live) <= Capacity /\ slots \in Seq(Ids) /\ Len(slots) <= QueueLimit
  BY <1>1, <1>2, Bounded
<1>4. Queue \in Queues
  BY <1>2, <1>3 DEF Queue, Queues
<1> QED BY <1>1, <1>2, <1>3, <1>4

\* What every change of the list has in common: of the targets that were live, and
\* at most one that appeared, each is live or has retired.
Changes(R, N) ==
  /\ R \in Seq(Target) /\ Distinct(R)
  /\ live' \in Seq(Target) /\ Len(live') <= Capacity /\ Distinct(live') /\ OneEach(ToSet(live'))
  /\ IdsIn(ToSet(R)) \cap LiveIds' = {}
  /\ IdsIn(ToSet(R)) \cup LiveIds' = LiveIds \cup N
  /\ \A x \in ToSet(R) \cup ToSet(live') : x.everValid <=> x.id \in valid'
  /\ (N = {} /\ next' = next) \/ (N = {next} /\ next \in Ids /\ next' = next + 1)
  /\ valid \subseteq valid' /\ valid' \subseteq valid \cup LiveIds \cup N
  /\ Retire(R)

\* The events that tell of it: removals, then at most one update.
Tells(a, R) ==
  /\ EventMuFree
  /\ \E u : /\ Announce(a, Removals(R) \o u)
            /\ u = <<>> \/ \E t \in LiveIds' : u = Update(t)

LEMMA RemovalsFacts ==
  ASSUME NEW R \in Seq(Target)
  PROVE  /\ Removals(R) \in Seq(Event) /\ Len(Removals(R)) = Len(R)
         /\ \A i \in 1..Len(R) : Removals(R)[i] = [type |-> "removed", id |-> R[i].id] /\ R[i].id \in Ids
<1> DEFINE e(i) == [type |-> "removed", id |-> R[i].id]
<1>1. \A i \in 1..Len(R) : R[i] \in Target
  OBVIOUS
<1>2. \A i \in 1..Len(R) : R[i].id \in Ids
  BY <1>1 DEF Target
<1>3. \A i \in 1..Len(R) : e(i) \in Event
  BY <1>2 DEF Event
<1>4. Removals(R) = [i \in 1..Len(R) |-> e(i)] /\ Len(R) \in Nat
  BY DEF Removals
<1> HIDE DEF e
<1>5. Removals(R) \in Seq(Event) /\ Len(Removals(R)) = Len(R) /\ \A i \in 1..Len(R) : Removals(R)[i] = e(i)
  BY <1>3, <1>4
<1> QED BY <1>2, <1>5 DEF e

LEMMA PruneChanges ==
  ASSUME ArchiveInv, NEW a \in Actors, NEW k \in 0..Len(live), NEW order \in Expired(k),
         Prune(a, k, order)
  PROVE  Changes(order, {}) /\ Tells(a, order)
<1>1. live \in Seq(Target) /\ Len(live) <= Capacity /\ Distinct(live) /\ Len(live) \in Nat /\ k \in Nat
      /\ Capacity \in Nat
  BY TypeFacts DEF ArchiveInv, Lives
<1> DEFINE b == Remaining(k)
<1>2. /\ order \in Seq(Target) /\ Distinct(order)
      /\ b \in Seq(Target) /\ Len(b) = Len(live) - k /\ Distinct(b)
      /\ ToSet(live) = ToSet(order) \cup ToSet(b)
      /\ \A x \in ToSet(order), y \in ToSet(b) : x.id # y.id
  BY <1>1, PrunedTargets
<1>3. live' = b /\ Retire(order) /\ UNCHANGED <<next, valid>>
  BY DEF Prune
<1> HIDE DEF b
<1>4. LiveIds' = IdsIn(ToSet(b)) /\ LiveIds = IdsIn(ToSet(live))
  <2>1. LiveIds' = IdsIn(ToSet(live'))
    BY DEF LiveIds, IdsIn, ToSet
  <2> QED BY <1>1, <1>3, <2>1, LiveFacts
<1>5. Len(live') <= Capacity
  BY <1>1, <1>2, <1>3
<1>6. OneEach(ToSet(b))
  BY <1>2 DEF ArchiveInv, Lives, OneEach
<1>7. \A x \in ToSet(order) \cup ToSet(b) : x.everValid <=> x.id \in valid
  BY <1>2 DEF ArchiveInv, Lives
<1>8. IdsIn(ToSet(order)) \cap IdsIn(ToSet(b)) = {}
      /\ IdsIn(ToSet(order)) \cup IdsIn(ToSet(b)) = IdsIn(ToSet(live))
  BY <1>2 DEF IdsIn
<1>9. Changes(order, {})
  BY <1>2, <1>3, <1>4, <1>5, <1>6, <1>7, <1>8 DEF Changes
<1>10. Removals(order) \o <<>> = Removals(order)
  <2>1. Removals(order) \in Seq(Event)
    BY <1>2, RemovalsFacts
  <2> QED BY <2>1
<1>11. Tells(a, order)
  BY <1>10 DEF Tells, Prune
<1> QED BY <1>9, <1>11

LEMMA AddChanges ==
  ASSUME ArchiveInv, NEW r \in Receivers, NEW s \in Signal, NEW k \in 0..Len(live),
         NEW order \in Expired(k), NEW after \in 0..Len(live), AddFPV(r, s, k, order, after)
  PROVE  \E R, N : Changes(R, N) /\ Tells(r, R)
<1>1. live \in Seq(Target) /\ Distinct(live) /\ live \in Seq(Target) /\ Capacity \in Nat
      /\ Len(live) <= Capacity
  BY TypeFacts DEF ArchiveInv, Lives
<1> DEFINE b == Remaining(k)
           found == Find(b, s)
<1>2. /\ order \in Seq(Target) /\ Distinct(order)
      /\ b \in Seq(Target) /\ Len(b) = Len(live) - k /\ Distinct(b)
      /\ ToSet(live) = ToSet(order) \cup ToSet(b)
      /\ \A x \in ToSet(order), y \in ToSet(b) : x.id # y.id
  BY <1>1, PrunedTargets
<1>3. LiveIds = IdsIn(ToSet(live)) /\ \A t \in Seq(Target) : live' = t => LiveIds' = IdsIn(ToSet(t))
  <2>1. LiveIds' = IdsIn(ToSet(live'))
    BY DEF LiveIds, IdsIn, ToSet
  <2> QED BY <1>1, <2>1, LiveFacts
<1>4. \A x \in ToSet(live) : x.id < next /\ (x.everValid <=> x.id \in valid)
  BY DEF ArchiveInv, Lives
<1>5. \A t \in valid : t < next
  BY DEF ArchiveInv, Places
<1>6. OneEach(ToSet(live)) /\ next \in Nat
  BY DEF ArchiveInv, Lives, TypeOK
<1>7. s.valid \in BOOLEAN /\ s.serial \in Serials \cup {NoSerial} /\ s.frequency \in Frequencies
  BY DEF Signal
<1>8. /\ found \subseteq DOMAIN b
      /\ found = {} /\ s.serial # NoSerial => \A j \in DOMAIN b : b[j].serial # s.serial
      /\ \A i \in found : b[i].serial = NoSerial /\ s.serial # NoSerial
           => \A j \in DOMAIN b : b[j].serial # s.serial
  BY FindFacts
<1>9. EventMuFree /\ after \in 0..Len(b)
  BY DEF AddFPV
<1>10. CASE found = {}
  <2> DEFINE f == Fresh(s)
             all == InsertAt(b, after + 1, f)
             R == order \o Trimmed(all)
             K == Kept(all)
             u == Announced(next, K)
  <2>1. /\ next \in Ids /\ next' = next + 1 /\ live' = K /\ Retire(R)
        /\ Announce(r, Removals(R) \o u)
        /\ valid' = IF s.valid THEN valid \cup {next} ELSE valid
    BY <1>10 DEF AddFPV
  <2>2. f \in Target /\ f.id = next /\ f.everValid = s.valid /\ f.serial = s.serial
    BY <1>7, <2>1 DEF Fresh, Target
  <2> HIDE DEF b, found, f
  <2>3. /\ all \in Seq(Target) /\ ToSet(all) = ToSet(b) \cup {f} /\ Distinct(all)
    <3>1. after + 1 \in 1..(Len(b) + 1)
      BY <1>9
    <3>2. \A x \in ToSet(b) : x.id # f.id
      BY <1>2, <1>4, <1>6, <2>2
    <3> DEFINE h == after + 1
    <3> HIDE DEF h
    <3>3. h \in 1..(Len(b) + 1) /\ all = InsertAt(b, h, f)
      BY <3>1 DEF h
    <3> HIDE DEF all
    <3> QED BY ONLY <1>2, <2>2, <3>2, <3>3, InsertedTargets
  <2> HIDE DEF all
  <2>4. /\ Trimmed(all) \in Seq(Target) /\ Distinct(Trimmed(all))
        /\ K \in Seq(Target) /\ Len(K) <= Capacity /\ Distinct(K)
        /\ ToSet(all) = ToSet(Trimmed(all)) \cup ToSet(K)
        /\ \A x \in ToSet(Trimmed(all)), y \in ToSet(K) : x.id # y.id
    BY <2>3, TrimmedTargets
  <2> HIDE DEF K
  <2>5. \A x \in ToSet(order) : x.id # f.id /\ \A y \in ToSet(all) : x.id # y.id
    BY <1>2, <1>4, <1>6, <2>2, <2>3
  <2>6. R \in Seq(Target) /\ ToSet(R) = ToSet(order) \cup ToSet(Trimmed(all)) /\ Distinct(R)
    BY <1>2, <2>4, <2>5, JoinedTargets
  <2> HIDE DEF R
  <2>7. ToSet(R) \cup ToSet(K) = ToSet(live) \cup {f}
    BY ONLY <1>2, <2>3, <2>4, <2>6
  <2>8. \A x \in ToSet(R), y \in ToSet(K) : x.id # y.id
    BY ONLY <2>4, <2>5, <2>6
  <2>9. IdsIn(ToSet(R)) \cap IdsIn(ToSet(K)) = {}
    BY ONLY <2>8 DEF IdsIn
  <2>10. IdsIn(ToSet(R)) \cup IdsIn(ToSet(K)) = IdsIn(ToSet(live)) \cup {next}
    BY ONLY <2>2, <2>7 DEF IdsIn
  <2>11. \A x \in ToSet(R) \cup ToSet(K) : x.everValid <=> x.id \in valid'
    <3> TAKE x \in ToSet(R) \cup ToSet(K)
    <3>1. CASE x = f
      BY <1>5, <1>6, <2>1, <2>2, <3>1
    <3>2. CASE x \in ToSet(live)
      BY <1>4, <1>6, <2>1, <3>2
    <3> QED BY <2>7, <3>1, <3>2
  <2>12. OneEach(ToSet(K))
    <3>1. \A y \in ToSet(b) : y.serial = f.serial => f.serial = NoSerial
      BY <1>8, <1>10, <2>2 DEF ToSet
    <3>2. ToSet(K) \subseteq ToSet(b) \cup {f} /\ ToSet(b) \subseteq ToSet(live)
      BY <1>2, <2>3, <2>4
    <3> QED BY <1>6, <3>1, <3>2 DEF OneEach
  <2>13. valid \subseteq valid' /\ valid' \subseteq valid \cup {next}
    BY <2>1
  <2>14. Changes(R, {next})
    BY <1>3, <2>1, <2>4, <2>6, <2>9, <2>10, <2>11, <2>12, <2>13 DEF Changes
  <2>15. u = <<>> \/ \E t \in LiveIds' : u = Update(t)
    <3>1. (\E i \in DOMAIN K : K[i].id = next) => next \in LiveIds'
      BY <2>1 DEF LiveIds
    <3> QED BY <3>1 DEF Announced
  <2> HIDE DEF u
  <2>16. Tells(r, R)
    BY <1>9, <2>1, <2>15 DEF Tells
  <2> QED BY <2>14, <2>16
<1>11. CASE found # {}
  <2> DEFINE i == CHOOSE i \in found : TRUE
             m == Merged(b, i, s, after)
             o == b[i]
  <2>1. /\ live' = m /\ Retire(order)
        /\ Announce(r, Removals(order) \o Update(o.id))
        /\ valid' = IF s.valid THEN valid \cup {o.id} ELSE valid
        /\ next' = next
    BY <1>11 DEF AddFPV
  <2> HIDE DEF b, found
  <2>2. i \in found
    BY <1>11
  <2> HIDE DEF i
  <2>3. i \in 1..Len(b) /\ o \in ToSet(b)
    BY <1>2, <1>8, <2>2 DEF ToSet
  <2>4. PICK e \in Target :
           /\ e.id = b[i].id /\ (e.everValid <=> b[i].everValid \/ s.valid)
           /\ e.serial = IF b[i].serial = NoSerial THEN s.serial ELSE b[i].serial
           /\ m \in Seq(Target) /\ Len(m) = Len(b)
           /\ Distinct(m)
           /\ \A x : x \in ToSet(m) <=> x = e \/ (x \in ToSet(b) /\ x # b[i])
    <3>1. b \in Seq(Target) /\ Distinct(b) /\ i \in 1..Len(b) /\ s \in Signal /\ after \in 0..Len(b)
          /\ m = Merged(b, i, s, after)
      BY <1>2, <1>9, <2>3
    <3> HIDE DEF m, o
    <3> QED BY ONLY <3>1, MergedTargets
  <2>5. /\ e.id = o.id /\ (e.everValid <=> o.everValid \/ s.valid)
        /\ e.serial = IF o.serial = NoSerial THEN s.serial ELSE o.serial
        /\ m \in Seq(Target) /\ Len(m) = Len(b) /\ Distinct(m)
        /\ \A x : x \in ToSet(m) <=> x = e \/ (x \in ToSet(b) /\ x # o)
    BY <2>4
  <2> HIDE DEF m
  <2>6. \A x \in ToSet(b) : x # o => x.id # o.id
    BY <1>2, <2>3 DEF ToSet, Distinct
  <2>7. b[i].serial = NoSerial /\ s.serial # NoSerial => \A x \in ToSet(b) : x.serial # s.serial
    BY <1>8, <2>2 DEF ToSet
  <2>8. o.serial = NoSerial /\ s.serial # NoSerial => \A x \in ToSet(b) : x.serial # s.serial
    BY <2>7
  <2> HIDE DEF o
  <2>9. o.id \in LiveIds /\ o.id < next /\ o \in ToSet(live) /\ (o.everValid <=> o.id \in valid)
    BY <1>2, <1>3, <1>4, <2>3 DEF IdsIn
  <2>10. IdsIn(ToSet(m)) = IdsIn(ToSet(b))
    BY ONLY <2>3, <2>5 DEF IdsIn
  <2>11. IdsIn(ToSet(order)) \cap IdsIn(ToSet(m)) = {}
    BY ONLY <1>2, <2>10 DEF IdsIn
  <2>12. IdsIn(ToSet(order)) \cup IdsIn(ToSet(m)) = IdsIn(ToSet(live)) \cup {}
    BY ONLY <1>2, <2>10 DEF IdsIn
  <2>13. \A x \in ToSet(order) \cup ToSet(m) : x.everValid <=> x.id \in valid'
    <3> TAKE x \in ToSet(order) \cup ToSet(m)
    <3>1. CASE x = e
      BY <2>1, <2>5, <2>9, <3>1
    <3>2. CASE x \in ToSet(live) /\ x.id # o.id
      BY <1>4, <2>1, <3>2
    <3>3. x = e \/ (x \in ToSet(live) /\ x.id # o.id)
      BY <1>2, <2>3, <2>5, <2>6
    <3> QED BY <3>1, <3>2, <3>3
  <2>14. OneEach(ToSet(m))
    <3> SUFFICES ASSUME NEW x \in ToSet(m), NEW y \in ToSet(m), x.serial = y.serial, x.serial # NoSerial
                 PROVE  x = y
      BY DEF OneEach
    <3>1. ToSet(b) \subseteq ToSet(live)
      BY <1>2
    <3>2. ASSUME NEW z \in ToSet(b), z # o, z.serial = e.serial, e.serial # NoSerial PROVE FALSE
      <4>1. CASE o.serial = NoSerial
        BY <2>5, <2>8, <3>2, <4>1
      <4>2. CASE o.serial # NoSerial
        BY <1>6, <2>5, <2>9, <3>1, <3>2, <4>2 DEF OneEach
      <4> QED BY <4>1, <4>2
    <3>3. CASE x # e /\ y # e
      BY <1>6, <2>5, <3>1, <3>3 DEF OneEach
    <3> QED BY <2>5, <3>2, <3>3
  <2>15. valid \subseteq valid' /\ valid' \subseteq valid \cup LiveIds
    BY <2>1, <2>9
  <2>16. Len(live') <= Capacity
    BY <1>1, <1>2, <2>1, <2>5
  <2>17. Changes(order, {})
    BY <1>2, <1>3, <2>1, <2>5, <2>11, <2>12, <2>13, <2>14, <2>15, <2>16 DEF Changes
  <2>18. o.id \in LiveIds'
    <3>1. LiveIds' = IdsIn(ToSet(m))
      BY <1>3, <2>1, <2>5
    <3> QED BY <2>5, <3>1 DEF IdsIn
  <2>19. Tells(r, order)
    BY <1>9, <2>1, <2>18 DEF Tells
  <2> QED BY <2>17, <2>19
<1> QED BY <1>10, <1>11

\* The ring takes up what has retired and was valid.
LEMMA ChangeQueues ==
  ASSUME ArchiveInv, NEW R, NEW N, Changes(R, N)
  PROVE  /\ Queue' \in Queues /\ IsInjective(slots') /\ Pending' \cap evicted' = {}
         /\ Pending' \cup evicted' = Pending \cup evicted \cup (IdsIn(ToSet(R)) \cap valid')
         /\ Pending' \subseteq Pending \cup (IdsIn(ToSet(R)) \cap valid') /\ evicted \subseteq evicted'
         /\ evicted' # evicted => Len(slots') = QueueLimit
<1>1. Queue \in Queues /\ IsInjective(slots) /\ live \in Seq(Target) /\ LiveIds = IdsIn(ToSet(live))
  BY TypeFacts, LiveFacts DEF ArchiveInv
<1>2. R \in Seq(Target) /\ Distinct(R)
  BY DEF Changes
<1>3. \A j \in 1..Len(R) : R[j] \in ToSet(R) /\ j \in DOMAIN R
  BY <1>2 DEF ToSet
<1>4. \A x \in ToSet(R) : \E j \in 1..Len(R) : x = R[j]
  BY <1>2 DEF ToSet
<1>5. \A x \in ToSet(R) : x.id \notin Pending \cup evicted
  <2> TAKE x \in ToSet(R)
  <2>1. x.id \in LiveIds \/ x.id = next
    BY DEF Changes, IdsIn
  <2>2. next \notin Pending \cup evicted
    BY DEF ArchiveInv, Places, TypeOK
  <2> QED BY <2>1, <2>2 DEF ArchiveInv, Places
<1>6. Candidates(R, Len(R)) = IdsIn(ToSet(R)) \cap valid'
  <2>1. \A x \in ToSet(R) : x.everValid <=> x.id \in valid'
    BY DEF Changes
  <2>2. Candidates(R, Len(R)) \subseteq IdsIn(ToSet(R)) \cap valid'
    BY <1>3, <2>1 DEF Candidates, IdsIn
  <2>3. IdsIn(ToSet(R)) \cap valid' \subseteq Candidates(R, Len(R))
    BY <1>4, <2>1 DEF Candidates, IdsIn
  <2> QED BY <2>2, <2>3
<1>7. Became(QueueAfter(R), IdsIn(ToSet(R)) \cap valid')
  <2>1. \A i, j \in 1..Len(R) : R[i].id = R[j].id => i = j
    BY <1>2, <1>3 DEF Distinct
  <2>2. \A j \in 1..Len(R) : R[j].everValid => R[j].id \notin Pending \cup evicted
    BY <1>3, <1>5
  <2>3. Pending \cap evicted = {}
    BY DEF ArchiveInv, Places
  <2> QED BY <1>1, <1>2, <1>6, <2>1, <2>2, <2>3, BecomesAll
<1> DEFINE q == QueueAfter(R)
<1> HIDE DEF q
<1>8. slots' = q.slots /\ head' = q.head /\ evicted' = q.evicted
  BY DEF Changes, Retire, q
<1>9. Became(q, IdsIn(ToSet(R)) \cap valid')
  BY <1>7 DEF q
<1>10. Queue' = q
  <2>1. q = [slots |-> q.slots, head |-> q.head, evicted |-> q.evicted]
    BY <1>9 DEF Became, Queues
  <2> QED BY <1>8, <2>1 DEF Queue
<1>11. Pending' = ToSet(q.slots)
  BY <1>8 DEF Pending
<1> QED BY <1>8, <1>9, <1>10, <1>11 DEF Became

LEMMA ChangeTells ==
  ASSUME ArchiveInv, NEW R, NEW N, Changes(R, N), NEW a \in Actors, Tells(a, R)
  PROVE  /\ eventMu' \in Actors \cup {Nobody} /\ outbox' \in [Actors -> Seq(Event)]
         /\ told' \in [Ids -> {"nothing", "updated", "removed"}] /\ Telling'
<1>1. live \in Seq(Target) /\ live' \in Seq(Target) /\ next \in Nat /\ LiveIds \subseteq Ids
  BY TypeFacts, LiveFacts DEF ArchiveInv, Changes, TypeOK
<1>2. LiveIds' \subseteq Ids
  <2>1. LiveIds' = IdsIn(ToSet(live')) /\ ToSet(live') \subseteq Target
    BY <1>1 DEF LiveIds, IdsIn, ToSet
  <2> QED BY <2>1 DEF IdsIn, Target
<1>3. \A t \in LiveIds : t < next
  <2>1. LiveIds = IdsIn(ToSet(live))
    BY <1>1, LiveFacts
  <2> QED BY <2>1 DEF ArchiveInv, Lives, IdsIn
<1>4. Nobody \notin Actors /\ eventMu = Nobody
  BY FPVArchiveAssumption DEF Actors, Flushers, Sweeper, Drainer, Nobody, Tells, EventMuFree
<1>5. /\ outbox \in [Actors -> Seq(Event)] /\ told \in [Ids -> {"nothing", "updated", "removed"}]
      /\ \A t \in Ids : told[t] = "removed" => Gone(t)
      /\ \A b \in Actors : outbox[b] = <<>>
  BY <1>4 DEF ArchiveInv, TypeOK, Telling
<1>6. /\ N = {} \/ N = {next}
      /\ next' = next \/ next' = next + 1
      /\ N = {next} => next' = next + 1
      /\ LiveIds' \subseteq LiveIds \cup N
      /\ R \in Seq(Target)
      /\ \A x \in ToSet(R) : x.id \in LiveIds \cup N /\ x.id \notin LiveIds'
  BY DEF Changes, IdsIn
<1> DEFINE gone(t) == t \notin LiveIds' /\ t < next'
<1>7. \A t \in Ids : Gone(t) => gone(t)
  <2> SUFFICES ASSUME NEW t \in Ids, t \notin LiveIds, t < next PROVE t \notin LiveIds' /\ t < next'
    BY DEF Gone
  <2>1. t \in Nat /\ t # next
    BY <1>1, IdsAreNumbers
  <2> QED BY <1>1, <1>6, <2>1
<1>8. \A x \in ToSet(R) : gone(x.id)
  <2> SUFFICES ASSUME NEW x \in ToSet(R) PROVE x.id \notin LiveIds' /\ x.id < next'
    OBVIOUS
  <2>1. x.id \in LiveIds \cup N /\ x.id \notin LiveIds'
    BY <1>6
  <2>2. \A t \in LiveIds : t \in Nat /\ t < next
    BY <1>1, <1>3, IdsAreNumbers
  <2>3. CASE x.id \in LiveIds
    BY <1>1, <1>6, <2>1, <2>2, <2>3
  <2>4. CASE x.id \in N
    BY <1>1, <1>6, <2>1, <2>4
  <2> QED BY <2>1, <2>3, <2>4
<1> HIDE DEF gone
<1> DEFINE v == Removals(R)
<1>9. PICK u : Announce(a, v \o u) /\ (u = <<>> \/ \E t \in LiveIds' : u = Update(t))
  BY DEF Tells
<1>10. /\ v \in Seq(Event) /\ Len(v) = Len(R) /\ Len(v) \in Nat
       /\ \A j \in 1..Len(v) : v[j].type = "removed" /\ gone(v[j].id)
  <2>1. \A j \in 1..Len(R) : R[j] \in ToSet(R)
    BY <1>6 DEF ToSet
  <2>2. \A j \in 1..Len(R) : gone(R[j].id)
    BY ONLY <1>8, <2>1
  <2>3. v \in Seq(Event) /\ Len(v) = Len(R)
        /\ \A j \in 1..Len(R) : v[j] = [type |-> "removed", id |-> R[j].id]
    BY <1>6, RemovalsFacts
  <2> HIDE DEF v
  <2>4. \A j \in 1..Len(R) : v[j].type = "removed" /\ v[j].id = R[j].id
    <3> TAKE j \in 1..Len(R)
    <3>1. v[j] = [type |-> "removed", id |-> R[j].id]
      BY <2>3
    <3> QED BY <3>1
  <2>5. Len(v) \in Nat
    BY <2>3
  <2>6. \A j \in 1..Len(R) : gone(v[j].id)
    BY <2>2, <2>4
  <2> QED BY ONLY <2>3, <2>4, <2>5, <2>6
<1>11. u \in Seq(Event) /\ Len(u) \in Nat /\ \A j \in 1..Len(u) : u[j].type = "updated" /\ u[j].id \in LiveIds'
  <2>1. CASE u = <<>>
    BY <2>1
  <2>2. ASSUME NEW t \in LiveIds', u = Update(t) 
             PROVE  u \in Seq(Event) /\ Len(u) = 1 /\ u[1].type = "updated" /\ u[1].id \in LiveIds'
    <3>1. [type |-> "updated", id |-> t] \in Event
      BY <1>2 DEF Event
    <3> QED BY <2>2, <3>1 DEF Update
  <2> QED BY <1>9, <2>1, <2>2
<1> DEFINE w == v \o u
<1> HIDE DEF v
<1>12. w \in Seq(Event) /\ Len(w) = Len(v) + Len(u)
       /\ \A j \in 1..(Len(v) + Len(u)) : w[j] = IF j <= Len(v) THEN v[j] ELSE u[j - Len(v)]
  <2>1. v \in Seq(Event) /\ u \in Seq(Event)
    BY <1>10, <1>11
  <2> QED BY ONLY <2>1, Concatenated
<1>13. \A j \in 1..Len(w) :
         /\ w[j].type = "removed" => gone(w[j].id)
         /\ w[j].type = "updated" => w[j].id \in LiveIds'
  <2> HIDE DEF w
  <2> TAKE j \in 1..Len(w)
  <2>1. CASE j <= Len(v)
    <3>1. j \in 1..Len(v) /\ w[j] = v[j]
      BY <1>10, <1>11, <1>12, <2>1
    <3> QED BY <1>10, <3>1
  <2>2. CASE ~(j <= Len(v))
    <3>1. j - Len(v) \in 1..Len(u) /\ w[j] = u[j - Len(v)]
      BY <1>10, <1>11, <1>12, <2>2
    <3> QED BY <1>11, <3>1
  <2> QED BY <2>1, <2>2
<1> HIDE DEF w
<1>14. outbox' = [outbox EXCEPT ![a] = w] /\ eventMu' = (IF w = <<>> THEN Nobody ELSE a) /\ told' = told
  BY <1>9 DEF Announce, w
<1>15. outbox' \in [Actors -> Seq(Event)] /\ outbox'[a] = w /\ \A b \in Actors : b # a => outbox'[b] = <<>>
  <2>1. outbox \in [Actors -> Seq(Event)] /\ \A b \in Actors : outbox[b] = <<>>
    BY <1>5
  <2>2. w \in Seq(Event) /\ outbox' = [outbox EXCEPT ![a] = w]
    BY <1>12, <1>14
  <2> QED BY ONLY <2>1, <2>2, a \in Actors
<1>16. \A b \in Actors : outbox'[b] # <<>> => eventMu' = b
  BY <1>14, <1>15
<1>17. \A b \in Actors : \A j \in DOMAIN outbox'[b] :
         /\ outbox'[b][j].type = "removed" => gone(outbox'[b][j].id)
         /\ outbox'[b][j].type = "updated" => outbox'[b][j].id \in LiveIds'
  <2> TAKE b \in Actors
  <2>1. CASE b = a
    <3>1. outbox'[b] = w /\ DOMAIN w = 1..Len(w)
      BY <1>12, <1>15, <2>1
    <3> QED BY ONLY <1>13, <3>1
  <2>2. CASE b # a
    BY <1>15, <2>2
  <2> QED BY <2>1, <2>2
<1>18. \A t \in Ids : told'[t] = "removed" => gone(t)
  BY <1>5, <1>7, <1>14
<1>19. eventMu' \in Actors \cup {Nobody}
  BY <1>14
<1>20. Telling'
  <2> QED BY ONLY <1>16, <1>17, <1>18 DEF Telling, Gone, gone
<1> QED BY <1>5, <1>14, <1>15, <1>19, <1>20

LEMMA ChangeKeeps ==
  ASSUME ArchiveInv, NEW R, NEW N, Changes(R, N), UNCHANGED db
  PROVE  /\ live' \in BoundedSeq(Target, Capacity)
         /\ slots' \in BoundedSeq(Ids, QueueLimit) /\ IsInjective(slots')
         /\ head' \in 0..(QueueLimit - 1) /\ (head' # 0 => Len(slots') = QueueLimit)
         /\ next' \in Nat \ {0} /\ evicted' \subseteq Ids /\ valid' \subseteq Ids
         /\ Lives' /\ Places' /\ Pending \cup evicted \subseteq Pending' \cup evicted'
<1>1. live' \in BoundedSeq(Target, Capacity) /\ next' \in Nat \ {0} /\ valid' \subseteq Ids
  <2>1. LiveIds \subseteq Ids /\ Capacity \in Nat
    BY TypeFacts, LiveFacts DEF ArchiveInv
  <2> QED BY <2>1, Bounded DEF Changes, ArchiveInv, TypeOK
<1>2. /\ Queue' \in Queues /\ IsInjective(slots') /\ Pending' \cap evicted' = {}
      /\ Pending' \cup evicted' = Pending \cup evicted \cup (IdsIn(ToSet(R)) \cap valid')
  BY ChangeQueues
<1>3. /\ slots' \in BoundedSeq(Ids, QueueLimit)
      /\ head' \in 0..(QueueLimit - 1) /\ (head' # 0 => Len(slots') = QueueLimit) /\ evicted' \subseteq Ids
  <2>1. QueueLimit \in Nat
    BY FPVArchiveAssumption
  <2>2. /\ slots' \in Seq(Ids) /\ Len(slots') <= QueueLimit /\ head' \in 0..(QueueLimit - 1)
        /\ (head' # 0 => Len(slots') = QueueLimit) /\ evicted' \subseteq Ids
    <3>1. Queue'.slots = slots' /\ Queue'.head = head' /\ Queue'.evicted = evicted'
      BY DEF Queue
    <3> HIDE DEF Queue
    <3> QED BY <1>2, <3>1 DEF Queues
  <2> QED BY <2>1, <2>2, Bounded
<1>4. LiveIds = IdsIn(ToSet(live)) /\ LiveIds' = IdsIn(ToSet(live'))
  <2>1. LiveIds' = IdsIn(ToSet(live'))
    BY DEF LiveIds, IdsIn, ToSet
  <2> QED BY <2>1, TypeFacts, LiveFacts DEF ArchiveInv
<1>5. next \in Nat /\ \A t \in LiveIds : t < next
  BY <1>4 DEF ArchiveInv, Lives, IdsIn, TypeOK
<1>6. /\ IdsIn(ToSet(R)) \cap LiveIds' = {} /\ IdsIn(ToSet(R)) \cup LiveIds' = LiveIds \cup N
      /\ (N = {} /\ next' = next) \/ (N = {next} /\ next' = next + 1)
      /\ valid \subseteq valid' /\ valid' \subseteq valid \cup LiveIds \cup N
  BY DEF Changes
<1>7. \A t \in LiveIds \cup N : t < next'
  <2>1. LiveIds \subseteq Nat
    BY TypeFacts, LiveFacts, IdsAreNumbers DEF ArchiveInv
  <2> QED BY <1>5, <1>6, <2>1
<1>8. Lives'
  <2>1. \A x \in ToSet(live') : x.id \in LiveIds' /\ (x.everValid <=> x.id \in valid')
    BY <1>4 DEF Changes, IdsIn
  <2>2. \A x \in ToSet(live') : x.id < next'
    BY <1>6, <1>7, <2>1
  <2> QED BY <2>1, <2>2 DEF Lives, Changes
<1>9. /\ LiveIds \cap (Pending \cup db \cup evicted) = {}
      /\ Pending \cup db \cup evicted \subseteq valid
      /\ valid \subseteq LiveIds \cup Pending \cup db \cup evicted
      /\ \A t \in valid : t < next
  BY DEF ArchiveInv, Places
<1>10. N \cap valid = {}
  BY <1>5, <1>6, <1>9
<1>11. LiveIds' \cap (Pending' \cup db' \cup evicted') = {}
  BY <1>2, <1>6, <1>9, <1>10
<1>12. Pending' \cup db' \cup evicted' \subseteq valid'
  BY <1>2, <1>6, <1>9
<1>13. valid' \subseteq LiveIds' \cup Pending' \cup db' \cup evicted'
  BY <1>2, <1>6, <1>9
<1>14. \A t \in valid' : t < next'
  <2>1. valid \subseteq Nat
    BY IdsAreNumbers DEF ArchiveInv, TypeOK
  <2>2. \A t \in valid : t < next'
    BY <1>5, <1>6, <1>9, <2>1
  <2> QED BY <1>6, <1>7, <2>2
<1>15. Places'
  BY <1>2, <1>11, <1>12, <1>13, <1>14 DEF Places
<1> QED BY <1>1, <1>2, <1>3, <1>8, <1>15

-----------------------------------------------------------------------------
(* Every step keeps the invariant.                                           *)

FlushRecord == [pc : {"idle", "gate", "take", "archive", "apply", "end"},
                left : Nat, batch : Seq(Ids), ok : SUBSET Ids, tried : BOOLEAN, err : BOOLEAN]

\* The two halves of the type invariant.
ListTyped ==
  /\ live \in BoundedSeq(Target, Capacity)
  /\ slots \in BoundedSeq(Ids, QueueLimit) /\ IsInjective(slots)
  /\ head \in 0..(QueueLimit - 1) /\ (head # 0 => Len(slots) = QueueLimit)
  /\ next \in Nat \ {0} /\ evicted \subseteq Ids /\ valid \subseteq Ids
  /\ eventMu \in Actors \cup {Nobody} /\ outbox \in [Actors -> Seq(Event)]
  /\ told \in [Ids -> {"nothing", "updated", "removed"}]
FlushTyped ==
  /\ gate \in Flushers \cup {Nobody} /\ flush \in [Flushers -> FlushRecord] /\ backoff \in BOOLEAN
  /\ db \subseteq Ids /\ due \subseteq Ids
  /\ signals \in Nat /\ drains \in Nat /\ faults \in Nat

LEMMA TypeHalves ==
  /\ TypeOK <=> ListTyped /\ FlushTyped
  /\ TypeOK' <=> ListTyped' /\ FlushTyped'
<1>1. TypeOK <=> ListTyped /\ FlushTyped
  BY DEF TypeOK, ListTyped, FlushTyped, FlushRecord
<1>2. TypeOK' <=> ListTyped' /\ FlushTyped'
  BY DEF TypeOK, ListTyped, FlushTyped, FlushRecord
<1> QED BY <1>1, <1>2

LEMMA IdleIsRecord == IdleFlush \in FlushRecord /\ IdleFlush.pc = "idle"
      /\ [IdleFlush EXCEPT !.pc = "gate"] \in FlushRecord /\ [IdleFlush EXCEPT !.pc = "gate"].pc = "gate"
<1>1. <<>> \in Seq(Ids) /\ {} \in SUBSET Ids /\ 0 \in Nat
  OBVIOUS
<1>2. IdleFlush \in FlushRecord /\ IdleFlush.pc = "idle"
  BY <1>1 DEF IdleFlush, FlushRecord
<1>3. [IdleFlush EXCEPT !.pc = "gate"] \in FlushRecord /\ [IdleFlush EXCEPT !.pc = "gate"].pc = "gate"
  BY ONLY <1>2 DEF FlushRecord
<1> QED BY <1>2, <1>3

\* A change of the list leaves the flushes alone, but for one that queues at the gate.
LEMMA ChangeStep ==
  ASSUME ArchiveInv, NEW R, NEW N, Changes(R, N), NEW a \in Actors, Tells(a, R),
         UNCHANGED <<gate, db>>, FlushTyped',
         \A p \in Flushers : flush'[p] = flush[p] \/ flush'[p].pc = "gate"
  PROVE  ArchiveInv'
<1>1. ListTyped' /\ Lives' /\ Places' /\ Pending \cup evicted \subseteq Pending' \cup evicted'
  BY ChangeKeeps, ChangeTells DEF ListTyped
<1>2. Telling'
  BY ChangeTells
<1>3. Flushing'
  <2> SUFFICES ASSUME NEW p \in Flushers
               PROVE  /\ flush'[p].pc \in {"take", "archive", "apply", "end"} => gate' = p
                      /\ flush'[p].pc \in {"archive", "apply"} =>
                           /\ ToSet(flush'[p].batch) \subseteq Pending' \cup evicted'
                           /\ Len(flush'[p].batch) <= flush'[p].left
                      /\ flush'[p].pc = "apply" => flush'[p].ok \subseteq db' \cap ToSet(flush'[p].batch)
    BY DEF Flushing
  <2>1. CASE flush'[p] = flush[p]
    BY <1>1, <2>1 DEF ArchiveInv, Flushing
  <2>2. CASE flush'[p].pc = "gate"
    BY <2>2
  <2> QED BY <2>1, <2>2
<1> QED BY <1>1, <1>2, <1>3, TypeHalves DEF ArchiveInv

\* A step of a flush leaves the list alone, and mostly the ring and the archive.
LEMMA ListStays ==
  ASSUME ArchiveInv, UNCHANGED <<list, evicted, events>>
  PROVE  /\ Lives' /\ Telling' /\ LiveIds' = LiveIds /\ evicted' = evicted /\ valid' = valid /\ next' = next
         /\ UNCHANGED slots => Pending' = Pending
         /\ UNCHANGED <<slots, head>> => ListTyped'
         /\ UNCHANGED <<slots, db>> => Places'
<1>1. /\ live' = live /\ next' = next /\ valid' = valid /\ evicted' = evicted
      /\ eventMu' = eventMu /\ outbox' = outbox /\ told' = told
  BY DEF list, events
<1>2. LiveIds' = LiveIds
  BY <1>1 DEF LiveIds
<1>3. Lives'
  BY <1>1 DEF ArchiveInv, Lives, Distinct
<1>4. Telling'
  BY <1>1, <1>2 DEF ArchiveInv, Telling, Gone
<1>5. UNCHANGED slots => Pending' = Pending
  BY DEF Pending
<1>6. ASSUME UNCHANGED <<slots, head>> PROVE ListTyped'
  <2>1. ListTyped
    BY TypeHalves DEF ArchiveInv
  <2> QED BY <1>1, <1>6, <2>1 DEF ListTyped, IsInjective
<1>7. UNCHANGED <<slots, db>> => Places'
  BY <1>1, <1>2, <1>5 DEF ArchiveInv, Places
<1> QED BY <1>1, <1>2, <1>3, <1>4, <1>5, <1>6, <1>7

LEMMA FlushFacts ==
  ASSUME ArchiveInv
  PROVE  /\ FlushTyped /\ flush \in [Flushers -> FlushRecord]
         /\ \A p \in Flushers :
              /\ flush[p].left \in Nat /\ flush[p].batch \in Seq(Ids) /\ flush[p].ok \in SUBSET Ids
              /\ flush[p].tried \in BOOLEAN /\ flush[p].err \in BOOLEAN
              /\ flush[p] = [pc |-> flush[p].pc, left |-> flush[p].left, batch |-> flush[p].batch,
                             ok |-> flush[p].ok, tried |-> flush[p].tried, err |-> flush[p].err]
<1>1. FlushTyped /\ flush \in [Flushers -> FlushRecord]
  BY TypeHalves DEF ArchiveInv, FlushTyped
<1>2. \A p \in Flushers : flush[p] \in FlushRecord
  BY <1>1
<1>3. ASSUME NEW r \in FlushRecord
      PROVE  /\ r.left \in Nat /\ r.batch \in Seq(Ids) /\ r.ok \in SUBSET Ids
             /\ r.tried \in BOOLEAN /\ r.err \in BOOLEAN
             /\ r = [pc |-> r.pc, left |-> r.left, batch |-> r.batch,
                     ok |-> r.ok, tried |-> r.tried, err |-> r.err]
  BY DEF FlushRecord
<1> QED BY <1>1, <1>2, <1>3

LEMMA EnterStep == ASSUME ArchiveInv, NEW p \in Flushers, Enter(p) PROVE ArchiveInv'
<1>1. UNCHANGED <<list, queue, events, backoff, db, due, budget>>
  BY DEF Enter
<1>2. ListTyped' /\ Lives' /\ Places' /\ Telling' /\ Pending' = Pending /\ evicted' = evicted /\ db' = db
  BY <1>1, ListStays DEF queue
<1>3. /\ backoff' = backoff /\ due' = due /\ signals' = signals /\ drains' = drains /\ faults' = faults
  BY <1>1 DEF budget
<1>4. FlushTyped /\ flush \in [Flushers -> FlushRecord] /\ gate = Nobody
  BY FlushFacts DEF Enter
<1>5. \A q \in Flushers : flush[q].pc \notin {"take", "archive", "apply", "end"}
  <2>1. Nobody \notin Flushers
    BY DEF Nobody, Flushers, Sweeper, Drainer
  <2> QED BY <1>4, <2>1 DEF ArchiveInv, Flushing
<1>6. CASE gate' = Nobody /\ flush' = [flush EXCEPT ![p] = IdleFlush]
  <2>1. FlushTyped'
    BY <1>2, <1>3, <1>4, <1>6, IdleIsRecord DEF FlushTyped
  <2>2. \A q \in Flushers : flush'[q] = flush[q] \/ flush'[q].pc = "idle"
    BY <1>4, <1>6, IdleIsRecord
  <2>3. Flushing'
    BY <1>5, <2>2 DEF Flushing
  <2> QED BY <1>2, <2>1, <2>3, TypeHalves DEF ArchiveInv
<1>7. CASE gate' = p /\ flush' = [flush EXCEPT ![p].pc = "take", ![p].left = Left(p)]
  <2>1. Left(p) \in Nat
    BY TypeFacts DEF ArchiveInv, Left
  <2>2. flush' = [flush EXCEPT ![p].pc = "take", ![p].left = Left(p)]
    BY <1>7
  <2>3. flush' \in [Flushers -> FlushRecord]
    BY ONLY <1>4, <2>1, <2>2, p \in Flushers DEF FlushRecord
  <2>4. FlushTyped'
    BY <1>2, <1>3, <1>4, <1>7, <2>3 DEF FlushTyped
  <2>5. \A q \in Flushers : IF q = p THEN flush'[q].pc = "take" ELSE flush'[q] = flush[q]
    BY ONLY <1>4, <2>2 DEF FlushRecord
  <2>6. Flushing'
    BY <1>5, <1>7, <2>5 DEF Flushing
  <2> QED BY <1>2, <2>4, <2>6, TypeHalves DEF ArchiveInv
<1> QED BY <1>4, <1>6, <1>7 DEF Enter

LEMMA GiveUpStep == ASSUME ArchiveInv, NEW p \in Flushers, GiveUp(p) PROVE ArchiveInv'
<1>1. UNCHANGED <<list, queue, events, gate, backoff, db, due, signals, drains>> /\ Fault
      /\ flush' = [flush EXCEPT ![p] = IdleFlush]
  BY DEF GiveUp
<1>2. ListTyped' /\ Lives' /\ Places' /\ Telling' /\ Pending' = Pending /\ evicted' = evicted /\ db' = db
      /\ gate' = gate
  BY <1>1, ListStays DEF queue
<1>3. FlushTyped'
  BY <1>1, FlushFacts, IdleIsRecord DEF FlushTyped, Fault
<1>4. \A q \in Flushers : flush'[q] = flush[q] \/ flush'[q].pc = "idle"
  BY <1>1, FlushFacts, IdleIsRecord
<1>5. Flushing'
  BY <1>2, <1>4 DEF ArchiveInv, Flushing
<1> QED BY <1>2, <1>3, <1>5, TypeHalves DEF ArchiveInv

\* A flush that holds the gate is the only one at work.
LEMMA OneAtWork ==
  ASSUME ArchiveInv, NEW p \in Flushers, flush[p].pc \in {"take", "archive", "apply", "end"}
  PROVE  /\ gate = p
         /\ \A q \in Flushers : q # p => flush[q].pc \notin {"take", "archive", "apply", "end"}
BY DEF ArchiveInv, Flushing

\* It keeps the invariant of the flushes when its own part of it holds afterwards.
LEMMA FlushMoves ==
  ASSUME ArchiveInv, NEW p \in Flushers, flush[p].pc \in {"take", "archive", "apply", "end"},
         UNCHANGED gate, \A q \in Flushers : q # p => flush'[q] = flush[q],
         flush'[p].pc \in {"archive", "apply"} =>
           /\ ToSet(flush'[p].batch) \subseteq Pending' \cup evicted'
           /\ Len(flush'[p].batch) <= flush'[p].left,
         flush'[p].pc = "apply" => flush'[p].ok \subseteq db' \cap ToSet(flush'[p].batch)
  PROVE  Flushing'
<1>1. gate = p /\ \A q \in Flushers : q # p => flush[q].pc \notin {"take", "archive", "apply", "end"}
  BY OneAtWork
<1>2. SUFFICES ASSUME NEW q \in Flushers
               PROVE  /\ flush'[q].pc \in {"take", "archive", "apply", "end"} => gate' = q
                      /\ flush'[q].pc \in {"archive", "apply"} =>
                           /\ ToSet(flush'[q].batch) \subseteq Pending' \cup evicted'
                           /\ Len(flush'[q].batch) <= flush'[q].left
                      /\ flush'[q].pc = "apply" => flush'[q].ok \subseteq db' \cap ToSet(flush'[q].batch)
  BY DEF Flushing
<1>3. CASE q = p
  BY <1>1, <1>3
<1>4. CASE q # p
  BY <1>1, <1>4
<1> QED BY <1>3, <1>4

LEMMA TakeStep == ASSUME ArchiveInv, NEW p \in Flushers, Take(p) PROVE ArchiveInv'
<1>1. UNCHANGED <<list, queue, events, gate, backoff, db, due, budget>> /\ flush[p].pc = "take"
  BY DEF Take, At
<1>2. ListTyped' /\ Lives' /\ Places' /\ Telling' /\ Pending' = Pending /\ evicted' = evicted /\ db' = db
      /\ gate' = gate
  BY <1>1, ListStays DEF queue
<1>3. /\ backoff' = backoff /\ due' = due /\ signals' = signals /\ drains' = drains /\ faults' = faults
  BY <1>1 DEF budget
<1>4. FlushTyped /\ flush \in [Flushers -> FlushRecord] /\ flush[p].left \in Nat
  BY FlushFacts
<1> DEFINE m == Lesser(Len(slots), Lesser(BatchSize, flush[p].left))
           batch == SubSeq(InOrder, 1, m)
<1>5. InOrder \in Seq(Ids) /\ Len(InOrder) = Len(slots) /\ ToSet(InOrder) = Pending
  BY TypeFacts, InOrderFacts DEF ArchiveInv
<1>6. m \in 0..Len(InOrder) /\ m <= flush[p].left
  <2>1. Len(slots) \in Nat /\ BatchSize \in Nat /\ flush[p].left \in Nat
    BY <1>4, TypeFacts DEF ArchiveInv
  <2> QED BY <1>5, <2>1 DEF Lesser
<1>7. flush' = IF batch = <<>> THEN [flush EXCEPT ![p].pc = "end"]
                               ELSE [flush EXCEPT ![p].pc = "archive", ![p].batch = batch]
  BY DEF Take
<1> HIDE DEF m
<1>8. batch \in Seq(Ids) /\ Len(batch) <= flush[p].left /\ ToSet(batch) \subseteq Pending
  <2>1. 1 \in 1..(Len(InOrder) + 1) /\ m \in 0..Len(InOrder) /\ 1 <= m + 1 /\ m - 1 + 1 = m
    BY <1>6
  <2>2. /\ batch \in Seq(Ids) /\ Len(batch) = m - 1 + 1 /\ DOMAIN batch = 1..(m - 1 + 1)
        /\ \A i \in 1..(m - 1 + 1) : batch[i] = InOrder[1 + i - 1] /\ 1 + i - 1 \in 1..Len(InOrder)
    BY ONLY <1>5, <2>1, Section
  <2> HIDE DEF batch
  <2>3. \A i \in DOMAIN batch : batch[i] \in ToSet(InOrder)
    BY <1>5, <2>2 DEF ToSet
  <2>4. ToSet(batch) \subseteq ToSet(InOrder)
    BY <2>3 DEF ToSet
  <2> QED BY <1>5, <1>6, <2>1, <2>2, <2>4
<1> HIDE DEF batch
<1>9. /\ flush' \in [Flushers -> FlushRecord] /\ \A q \in Flushers : q # p => flush'[q] = flush[q]
      /\ flush'[p].pc = "end" \/ (flush'[p].pc = "archive" /\ flush'[p].batch = batch
                                    /\ flush'[p].left = flush[p].left)
  <2>1. CASE batch = <<>>
    <3>1. flush' = [flush EXCEPT ![p].pc = "end"]
      BY <1>7, <2>1
    <3> QED BY ONLY <3>1, <1>4, p \in Flushers DEF FlushRecord
  <2>2. CASE batch # <<>>
    <3>1. flush' = [flush EXCEPT ![p].pc = "archive", ![p].batch = batch]
      BY <1>7, <2>2
    <3> QED BY ONLY <3>1, <1>4, <1>8, p \in Flushers DEF FlushRecord
  <2> QED BY <2>1, <2>2
<1>10. FlushTyped'
  BY <1>2, <1>3, <1>4, <1>9 DEF FlushTyped
<1>11. Flushing'
  BY <1>1, <1>2, <1>8, <1>9, FlushMoves
<1> QED BY <1>2, <1>10, <1>11, TypeHalves DEF ArchiveInv

LEMMA ArchiveStep == ASSUME ArchiveInv, NEW p \in Flushers, Archive(p) PROVE ArchiveInv'
<1>1. UNCHANGED <<list, queue, events, gate, backoff, due, signals, drains>> /\ flush[p].pc = "archive"
  BY DEF Archive, At
<1> DEFINE batch == flush[p].batch
<1>2. PICK ok \in SUBSET (ToSet(batch) \ Refused) :
        LET failed == ToSet(batch) \ (ok \cup Refused)
        IN /\ IF failed = {} THEN UNCHANGED faults ELSE Fault
           /\ \E late \in SUBSET failed : Insert(ok \cup late)
           /\ flush' = [flush EXCEPT ![p].pc = "apply", ![p].ok = ok, ![p].tried = TRUE,
                                      ![p].err = @ \/ ok # ToSet(batch)]
  BY DEF Archive
<1>3. ok \subseteq ToSet(batch)
  OBVIOUS
<1>4. ListTyped' /\ Lives' /\ Telling' /\ Pending' = Pending /\ evicted' = evicted /\ LiveIds' = LiveIds
      /\ gate' = gate /\ valid' = valid /\ next' = next
  BY <1>1, ListStays DEF queue
<1>5. /\ backoff' = backoff /\ due' = due /\ signals' = signals /\ drains' = drains /\ faults' \in Nat
  BY <1>1, <1>2, FlushFacts DEF Fault, FlushTyped
<1>6. /\ FlushTyped /\ flush \in [Flushers -> FlushRecord] /\ batch \in Seq(Ids)
      /\ flush[p].err \in BOOLEAN /\ flush[p].left \in Nat
  BY FlushFacts
<1>7. ToSet(batch) \subseteq Ids
  BY <1>6 DEF ToSet
<1>8. db \subseteq db' /\ ok \subseteq db' /\ db' \subseteq db \cup ToSet(batch)
  BY <1>2 DEF Insert
<1>9. ToSet(batch) \subseteq Pending \cup evicted /\ Len(batch) <= flush[p].left
  BY <1>1 DEF ArchiveInv, Flushing
<1>10. Places'
  BY <1>4, <1>8, <1>9 DEF ArchiveInv, Places
<1> DEFINE bad == flush[p].err \/ ok # ToSet(batch)
<1>11. bad \in BOOLEAN
  BY <1>6
<1>12. flush' = [flush EXCEPT ![p].pc = "apply", ![p].ok = ok, ![p].tried = TRUE, ![p].err = bad]
  BY <1>2, <1>6
<1> HIDE DEF bad
<1>13. ok \in SUBSET Ids
  BY <1>3, <1>7
<1>14. flush' \in [Flushers -> FlushRecord]
  <2> DEFINE f == [flush EXCEPT ![p].pc = "apply", ![p].ok = ok]
  <2>1. f \in [Flushers -> FlushRecord]
    BY ONLY <1>6, <1>13, p \in Flushers DEF FlushRecord
  <2>2. flush' = [f EXCEPT ![p].tried = TRUE, ![p].err = bad]
    BY ONLY <1>12, Zenon
  <2> HIDE DEF f
  <2> QED BY ONLY <2>1, <2>2, <1>11, p \in Flushers DEF FlushRecord
<1>15. \A q \in Flushers : q # p => flush'[q] = flush[q]
  BY ONLY <1>6, <1>12, p \in Flushers
<1>16. flush'[p].pc = "apply" /\ flush'[p].ok = ok /\ flush'[p].batch = flush[p].batch
       /\ flush'[p].left = flush[p].left
  BY ONLY <1>6, <1>12, p \in Flushers DEF FlushRecord
<1>17. FlushTyped'
  BY <1>4, <1>5, <1>6, <1>7, <1>8, <1>14 DEF FlushTyped
<1>18. Flushing'
  BY <1>1, <1>3, <1>4, <1>8, <1>9, <1>15, <1>16, FlushMoves
<1> QED BY <1>4, <1>10, <1>17, <1>18, TypeHalves DEF ArchiveInv

\* What succeeded leaves the ring.
LEMMA ApplyFacts ==
  ASSUME ArchiveInv, NEW p \in Flushers, Apply(p)
  PROVE  /\ slots' \in Seq(Ids) /\ Len(slots') <= Len(slots) /\ IsInjective(slots') /\ head' = 0
         /\ Pending' = Pending \ flush[p].ok /\ flush[p].ok \subseteq db
<1> DEFINE ok == flush[p].ok
           failed == ToSet(flush[p].batch) \ ok
<1>1. slots' = RetryLast(InOrder, ok, failed) /\ head' = 0 /\ flush[p].pc = "apply"
  BY DEF Apply, At, HeadAfter
<1>2. /\ InOrder \in Seq(Ids) /\ Len(InOrder) = Len(slots) /\ ToSet(InOrder) = Pending
      /\ IsInjective(InOrder)
  BY TypeFacts, InOrderFacts DEF ArchiveInv
<1>3. ok \cap failed = {}
  OBVIOUS
<1>4. ok \subseteq db
  BY <1>1 DEF ArchiveInv, Flushing
<1> HIDE DEF ok, failed
<1>5. /\ slots' \in Seq(Ids) /\ Len(slots') <= Len(InOrder) /\ IsInjective(slots')
      /\ ToSet(slots') = ToSet(InOrder) \ ok
  BY ONLY <1>1, <1>2, <1>3, RetryFacts
<1>6. Pending' = Pending \ ok
  BY <1>2, <1>5 DEF Pending
<1> QED BY <1>1, <1>2, <1>4, <1>5, <1>6 DEF ok

LEMMA ApplyStep == ASSUME ArchiveInv, NEW p \in Flushers, Apply(p) PROVE ArchiveInv'
<1>1. UNCHANGED <<list, evicted, events, gate, backoff, db, due, signals, drains>> /\ flush[p].pc = "apply"
  BY DEF Apply, At
<1>2. /\ slots' \in Seq(Ids) /\ Len(slots') <= Len(slots) /\ IsInjective(slots') /\ head' = 0
      /\ Pending' = Pending \ flush[p].ok /\ flush[p].ok \subseteq db
  BY ApplyFacts
<1>3. Lives' /\ Telling' /\ evicted' = evicted /\ LiveIds' = LiveIds
      /\ gate' = gate /\ valid' = valid /\ next' = next /\ db' = db
  BY <1>1, ListStays
<1>4. ListTyped'
  <2>1. Len(slots) <= QueueLimit /\ QueueLimit \in Nat \ {0} /\ Len(slots) \in Nat /\ Len(slots') \in Nat
    BY <1>2, TypeFacts DEF ArchiveInv
  <2>2. slots' \in BoundedSeq(Ids, QueueLimit)
    BY <1>2, <2>1, Bounded
  <2>3. ListTyped /\ live' = live /\ next' = next /\ valid' = valid
        /\ eventMu' = eventMu /\ outbox' = outbox /\ told' = told
    BY <1>1, TypeHalves DEF ArchiveInv, list, events
  <2> QED BY <1>2, <1>3, <2>1, <2>2, <2>3 DEF ListTyped
<1>5. Places'
  BY <1>2, <1>3 DEF ArchiveInv, Places
<1>6. PICK stop \in BOOLEAN :
       /\ IF stop /\ p = Drainer THEN Fault ELSE UNCHANGED faults
       /\ LET left == flush[p].left - Len(flush[p].batch)
          IN flush' = [flush EXCEPT
               ![p].pc = IF p = Drainer /\ ~stop /\ left > 0 THEN "take" ELSE "end",
               ![p].left = left, ![p].batch = <<>>, ![p].ok = {}]
  BY DEF Apply
<1> DEFINE left == flush[p].left - Len(flush[p].batch)
           pc == IF p = Drainer /\ ~stop /\ left > 0 THEN "take" ELSE "end"
<1>7. flush' = [flush EXCEPT ![p].pc = pc, ![p].left = left, ![p].batch = <<>>, ![p].ok = {}]
  BY <1>6
<1>8. FlushTyped /\ flush \in [Flushers -> FlushRecord] /\ flush[p].left \in Nat /\ flush[p].batch \in Seq(Ids)
  BY FlushFacts
<1>9. left \in Nat
  <2>1. Len(flush[p].batch) <= flush[p].left
    BY <1>1 DEF ArchiveInv, Flushing
  <2> QED BY <1>8, <2>1
<1>10. pc \in {"take", "end"} /\ <<>> \in Seq(Ids) /\ {} \in SUBSET Ids
  OBVIOUS
<1> HIDE DEF left, pc
<1>11. flush' \in [Flushers -> FlushRecord]
  <2> DEFINE f == [flush EXCEPT ![p].pc = pc, ![p].left = left]
  <2>1. f \in [Flushers -> FlushRecord]
    BY ONLY <1>8, <1>9, <1>10, p \in Flushers DEF FlushRecord
  <2>2. flush' = [f EXCEPT ![p].batch = <<>>, ![p].ok = {}]
    BY ONLY <1>7, Zenon
  <2> HIDE DEF f
  <2> QED BY ONLY <2>1, <2>2, <1>10, p \in Flushers DEF FlushRecord
<1>12. \A q \in Flushers : q # p => flush'[q] = flush[q]
  BY ONLY <1>7, <1>8, p \in Flushers
<1>13. flush'[p].pc = pc
  BY ONLY <1>7, <1>8, p \in Flushers DEF FlushRecord
<1>14. faults' \in Nat
  BY <1>6, <1>8 DEF Fault, FlushTyped
<1>15. FlushTyped'
  BY <1>1, <1>3, <1>8, <1>11, <1>14 DEF FlushTyped
<1>16. Flushing'
  BY <1>1, <1>3, <1>10, <1>12, <1>13, FlushMoves
<1> QED BY <1>3, <1>4, <1>5, <1>15, <1>16, TypeHalves DEF ArchiveInv

LEMMA FinishStep == ASSUME ArchiveInv, NEW p \in Flushers, Finish(p) PROVE ArchiveInv'
<1>1. UNCHANGED <<list, queue, events, db, budget>> /\ flush[p].pc = "end" /\ gate' = Nobody
      /\ flush' = [flush EXCEPT ![p] = IdleFlush] /\ due' = (IF p = Drainer THEN {} ELSE due)
      /\ backoff' = (IF flush[p].tried THEN flush[p].err /\ slots # <<>> ELSE backoff)
  BY DEF Finish, At
<1>2. ListTyped' /\ Lives' /\ Places' /\ Telling' /\ Pending' = Pending /\ evicted' = evicted /\ db' = db
  BY <1>1, ListStays DEF queue
<1>3. FlushTyped /\ flush \in [Flushers -> FlushRecord] /\ flush[p].tried \in BOOLEAN /\ flush[p].err \in BOOLEAN
  BY FlushFacts
<1>4. backoff' \in BOOLEAN /\ due' \subseteq Ids
  BY <1>1, <1>3 DEF FlushTyped
<1>5. FlushTyped'
  BY <1>1, <1>2, <1>3, <1>4, IdleIsRecord DEF FlushTyped, budget
<1>6. \A q \in Flushers : flush'[q].pc \notin {"take", "archive", "apply", "end"}
  BY <1>1, <1>3, IdleIsRecord, OneAtWork
<1>7. Flushing'
  BY <1>6 DEF Flushing
<1> QED BY <1>2, <1>5, <1>7, TypeHalves DEF ArchiveInv

LEMMA ElapseStep == ASSUME ArchiveInv, Elapse PROVE ArchiveInv'
<1>1. UNCHANGED <<list, queue, events, gate, flush, db, due, budget>> /\ backoff' = FALSE
  BY DEF Elapse
<1>2. ListTyped' /\ Lives' /\ Places' /\ Telling' /\ Pending' = Pending /\ evicted' = evicted /\ db' = db
      /\ gate' = gate /\ flush' = flush
  BY <1>1, ListStays DEF queue
<1>3. FlushTyped'
  BY <1>1, FlushFacts DEF FlushTyped, budget
<1>4. Flushing'
  BY <1>2 DEF ArchiveInv, Flushing
<1> QED BY <1>2, <1>3, <1>4, TypeHalves DEF ArchiveInv

LEMMA ActorsAreSomebody == Receivers \subseteq Actors /\ Flushers \subseteq Actors /\ Nobody \notin Actors
BY FPVArchiveAssumption DEF Actors, Flushers, Sweeper, Drainer, Nobody

\* What is published is the first event of the one that holds fpvEventMu.
LEMMA PublishFacts ==
  ASSUME ArchiveInv, NEW a \in Actors, Publish(a)
  PROVE  \E e \in Event, s \in Seq(Event) :
           /\ outbox' = [outbox EXCEPT ![a] = s] /\ told' = [told EXCEPT ![e.id] = e.type]
           /\ eventMu' = IF s = <<>> THEN Nobody ELSE eventMu
           /\ e.type = "removed" => Gone(e.id)
           /\ e.type = "updated" => e.id \in LiveIds
           /\ \A j \in DOMAIN s : /\ s[j].type = "removed" => Gone(s[j].id)
                                  /\ s[j].type = "updated" => s[j].id \in LiveIds
<1> DEFINE o == outbox[a]
<1>1. outbox \in [Actors -> Seq(Event)] /\ o # <<>>
  BY DEF ArchiveInv, TypeOK, Publish
<1>2. o \in Seq(Event)
  BY <1>1
<1>3. \A j \in DOMAIN o : /\ o[j].type = "removed" => Gone(o[j].id)
                          /\ o[j].type = "updated" => o[j].id \in LiveIds
  BY DEF ArchiveInv, Telling
<1>4. /\ told' = [told EXCEPT ![Head(o).id] = Head(o).type]
      /\ outbox' = [outbox EXCEPT ![a] = Tail(o)]
      /\ eventMu' = IF outbox'[a] = <<>> THEN Nobody ELSE eventMu
  BY DEF Publish
<1>5. outbox'[a] = Tail(o)
  BY <1>1, <1>4
<1> HIDE DEF o
<1>6. Head(o) \in Event /\ Head(o) = o[1] /\ 1 \in DOMAIN o /\ Tail(o) \in Seq(Event)
      /\ \A j \in DOMAIN Tail(o) : Tail(o)[j] = o[j + 1] /\ j + 1 \in DOMAIN o
  BY <1>1, <1>2
<1>7. \A j \in DOMAIN Tail(o) : /\ Tail(o)[j].type = "removed" => Gone(Tail(o)[j].id)
                                /\ Tail(o)[j].type = "updated" => Tail(o)[j].id \in LiveIds
  BY <1>3, <1>6
<1>8. /\ Head(o).type = "removed" => Gone(Head(o).id)
      /\ Head(o).type = "updated" => Head(o).id \in LiveIds
  BY <1>3, <1>6
<1>9. eventMu' = IF Tail(o) = <<>> THEN Nobody ELSE eventMu
  BY <1>4, <1>5
<1> QED BY ONLY <1>4, <1>6, <1>7, <1>8, <1>9

LEMMA PublishStep == ASSUME ArchiveInv, NEW a \in Actors, Publish(a) PROVE ArchiveInv'
<1>1. UNCHANGED <<list, queue, archive, budget>> /\ outbox[a] # <<>>
  BY DEF Publish
<1>2. PICK e \in Event, s \in Seq(Event) :
        /\ outbox' = [outbox EXCEPT ![a] = s] /\ told' = [told EXCEPT ![e.id] = e.type]
        /\ eventMu' = IF s = <<>> THEN Nobody ELSE eventMu
        /\ e.type = "removed" => Gone(e.id)
        /\ e.type = "updated" => e.id \in LiveIds
        /\ \A j \in DOMAIN s : /\ s[j].type = "removed" => Gone(s[j].id)
                               /\ s[j].type = "updated" => s[j].id \in LiveIds
  BY PublishFacts
<1>3. /\ live' = live /\ next' = next /\ valid' = valid /\ slots' = slots /\ head' = head
      /\ evicted' = evicted /\ gate' = gate /\ flush' = flush /\ backoff' = backoff /\ db' = db
      /\ due' = due /\ signals' = signals /\ drains' = drains /\ faults' = faults
  BY <1>1 DEF list, queue, archive, budget
<1>4. LiveIds' = LiveIds /\ Pending' = Pending
  BY <1>3 DEF LiveIds, Pending
<1>5. Lives' /\ Places' /\ Flushing'
  BY <1>3, <1>4 DEF ArchiveInv, Lives, Distinct, Places, Flushing
<1>6. /\ outbox \in [Actors -> Seq(Event)] /\ eventMu \in Actors \cup {Nobody}
      /\ told \in [Ids -> {"nothing", "updated", "removed"}]
      /\ \A b \in Actors : outbox[b] # <<>> => eventMu = b
  BY DEF ArchiveInv, TypeOK, Telling
<1>7. e.id \in Ids /\ e.type \in {"updated", "removed"}
  BY DEF Event
<1>8. /\ outbox' \in [Actors -> Seq(Event)] /\ outbox'[a] = s
      /\ \A b \in Actors : b # a => outbox'[b] = outbox[b]
  BY ONLY <1>2, <1>6, a \in Actors, s \in Seq(Event)
<1>9. /\ told' \in [Ids -> {"nothing", "updated", "removed"}] /\ told'[e.id] = e.type
      /\ \A t \in Ids : t # e.id => told'[t] = told[t]
  BY ONLY <1>2, <1>6, <1>7
<1>10. eventMu' \in Actors \cup {Nobody}
  BY <1>2, <1>6
<1>11. \A b \in Actors : outbox'[b] # <<>> => eventMu' = b
  <2>1. eventMu = a
    BY <1>1, <1>6
  <2> QED BY <1>2, <1>6, <1>8, <2>1
<1>12. \A b \in Actors : \A j \in DOMAIN outbox'[b] :
         /\ outbox'[b][j].type = "removed" => Gone(outbox'[b][j].id)
         /\ outbox'[b][j].type = "updated" => outbox'[b][j].id \in LiveIds
  BY <1>2, <1>8 DEF ArchiveInv, Telling
<1>13. \A t \in Ids : told'[t] = "removed" => Gone(t)
  BY <1>2, <1>7, <1>9 DEF ArchiveInv, Telling
<1>14. Telling'
  BY <1>3, <1>4, <1>11, <1>12, <1>13 DEF Telling, Gone
<1>15. ListTyped'
  <2>1. ListTyped
    BY TypeHalves DEF ArchiveInv
  <2> QED BY <1>3, <1>8, <1>9, <1>10, <2>1 DEF ListTyped, IsInjective
<1>16. FlushTyped'
  BY <1>3, FlushFacts DEF FlushTyped
<1> QED BY <1>5, <1>14, <1>15, <1>16, TypeHalves DEF ArchiveInv

\* The changes of the list.
LEMMA ApiChanges ==
  ASSUME ArchiveInv, Api
  PROVE  \E R, N : \E a \in Actors :
           Changes(R, N) /\ Tells(a, R) /\ UNCHANGED archive /\ signals' \in Nat
             /\ drains' = drains /\ faults' = faults
<1>1. PICK r \in Receivers, k \in 0..Len(live) : \E order \in Expired(k) :
        \/ Query(r, k, order)
        \/ \E s \in Signal, after \in 0..Len(live) : AddFPV(r, s, k, order, after)
  BY DEF Api
<1>2. PICK order \in Expired(k) :
        \/ Query(r, k, order)
        \/ \E s \in Signal, after \in 0..Len(live) : AddFPV(r, s, k, order, after)
  BY <1>1
<1>3. r \in Actors /\ FlushTyped
  BY ActorsAreSomebody, FlushFacts
<1>4. CASE Query(r, k, order)
  <2>1. Changes(order, {}) /\ Tells(r, order)
    BY <1>3, <1>4, PruneChanges DEF Query
  <2>2. UNCHANGED archive /\ signals' \in Nat /\ drains' = drains /\ faults' = faults
    BY <1>3, <1>4 DEF Query, budget, FlushTyped
  <2> QED BY <1>3, <2>1, <2>2
<1>5. ASSUME NEW s \in Signal, NEW after \in 0..Len(live), AddFPV(r, s, k, order, after)
      PROVE  \E R, N : \E a \in Actors :
               Changes(R, N) /\ Tells(a, R) /\ UNCHANGED archive /\ signals' \in Nat
                 /\ drains' = drains /\ faults' = faults
  <2>1. \E R, N : Changes(R, N) /\ Tells(r, R)
    BY <1>5, AddChanges
  <2>2. UNCHANGED <<archive, drains, faults>> /\ signals' = signals + 1
    BY <1>5 DEF AddFPV
  <2> QED BY <1>3, <2>1, <2>2 DEF FlushTyped
<1> QED BY <1>2, <1>4, <1>5

LEMMA ApiStep == ASSUME ArchiveInv, Api PROVE ArchiveInv'
<1>1. PICK R, N : \E a \in Actors :
           Changes(R, N) /\ Tells(a, R) /\ UNCHANGED archive /\ signals' \in Nat
             /\ drains' = drains /\ faults' = faults
  BY ApiChanges
<1>2. PICK a \in Actors :
           Changes(R, N) /\ Tells(a, R) /\ UNCHANGED archive /\ signals' \in Nat
             /\ drains' = drains /\ faults' = faults
  BY <1>1
<1>3. gate' = gate /\ flush' = flush /\ backoff' = backoff /\ db' = db /\ due' = due
  BY <1>2 DEF archive
<1>4. FlushTyped'
  BY <1>2, <1>3, FlushFacts DEF FlushTyped
<1> QED BY <1>2, <1>3, <1>4, ChangeStep

\* A flusher that prunes goes on to the gate.
LEMMA ToTheGate ==
  ASSUME ArchiveInv, NEW p \in Flushers, flush' = [flush EXCEPT ![p] = [IdleFlush EXCEPT !.pc = "gate"]]
  PROVE  /\ flush' \in [Flushers -> FlushRecord]
         /\ \A q \in Flushers : flush'[q] = flush[q] \/ flush'[q].pc = "gate"
<1> DEFINE r == [IdleFlush EXCEPT !.pc = "gate"]
<1>1. r \in FlushRecord /\ r.pc = "gate" /\ flush \in [Flushers -> FlushRecord] /\ flush' = [flush EXCEPT ![p] = r]
  BY IdleIsRecord, FlushFacts
<1> HIDE DEF r
<1> QED BY <1>1

LEMMA SweepStep == ASSUME ArchiveInv, SomeSweep PROVE ArchiveInv'
<1>1. PICK k \in 0..Len(live) : \E order \in Expired(k) : Sweep(k, order)
  BY DEF SomeSweep
<1>2. PICK order \in Expired(k) : Sweep(k, order)
  BY <1>1
<1>3. Sweeper \in Flushers /\ Sweeper \in Actors
  BY ActorsAreSomebody DEF Flushers
<1>4. Changes(order, {}) /\ Tells(Sweeper, order)
  BY <1>2, <1>3, PruneChanges DEF Sweep
<1>5. UNCHANGED <<gate, backoff, db, due, budget>>
      /\ flush' = [flush EXCEPT ![Sweeper] = [IdleFlush EXCEPT !.pc = "gate"]]
  BY <1>2 DEF Sweep
<1>6. /\ flush' \in [Flushers -> FlushRecord]
      /\ \A q \in Flushers : flush'[q] = flush[q] \/ flush'[q].pc = "gate"
  BY <1>3, <1>5, ToTheGate
<1>7. FlushTyped'
  BY <1>5, <1>6, FlushFacts DEF FlushTyped, budget
<1> QED BY <1>3, <1>4, <1>5, <1>6, <1>7, ChangeStep

LEMMA DrainStep == ASSUME ArchiveInv, SomeDrain PROVE ArchiveInv'
<1>1. PICK order \in Expired(Len(live)) : Drain(order)
  BY DEF SomeDrain
<1>2. Drainer \in Flushers /\ Drainer \in Actors /\ Len(live) \in 0..Len(live)
  BY ActorsAreSomebody, TypeFacts DEF Flushers, ArchiveInv
<1>3. Changes(order, {}) /\ Tells(Drainer, order)
  BY <1>1, <1>2, PruneChanges DEF Drain
<1>4. UNCHANGED <<gate, backoff, db, signals, faults>> /\ drains' = drains + 1
      /\ due' = Pending \cup (LiveIds \cap valid)
      /\ flush' = [flush EXCEPT ![Drainer] = [IdleFlush EXCEPT !.pc = "gate"]]
  BY <1>1 DEF Drain
<1>5. /\ flush' \in [Flushers -> FlushRecord]
      /\ \A q \in Flushers : flush'[q] = flush[q] \/ flush'[q].pc = "gate"
  BY <1>2, <1>4, ToTheGate
<1>6. due' \subseteq Ids
  <2>1. Pending \subseteq valid /\ valid \subseteq Ids
    BY DEF ArchiveInv, Places, TypeOK
  <2> QED BY <1>4, <2>1
<1>7. FlushTyped'
  BY <1>4, <1>5, <1>6, FlushFacts DEF FlushTyped
<1> QED BY <1>2, <1>3, <1>4, <1>5, <1>7, ChangeStep

LEMMA InvInit == Init => ArchiveInv
<1> SUFFICES ASSUME Init PROVE ArchiveInv
  OBVIOUS
<1>1. QueueLimit \in Nat \ {0} /\ Capacity \in Nat
  BY FPVArchiveAssumption
<1>2. <<>> \in Seq(Target) /\ Len(<<>>) = 0 /\ <<>> \in Seq(Ids) /\ DOMAIN <<>> = {} /\ <<>> \in Seq(Event)
  OBVIOUS
<1>3. /\ live = <<>> /\ next = 1 /\ valid = {} /\ slots = <<>> /\ head = 0 /\ evicted = {}
      /\ eventMu = Nobody /\ outbox = [a \in Actors |-> <<>>] /\ told = [t \in Ids |-> "nothing"]
      /\ gate = Nobody /\ flush = [p \in Flushers |-> IdleFlush] /\ backoff = FALSE /\ db = {} /\ due = {}
      /\ signals = 0 /\ drains = 0 /\ faults = 0
  BY DEF Init
<1>4. LiveIds = {} /\ Pending = {} /\ ToSet(live) = {}
  BY <1>2, <1>3 DEF LiveIds, Pending, ToSet
<1>5. ListTyped
  <2>1. <<>> \in BoundedSeq(Target, Capacity) /\ <<>> \in BoundedSeq(Ids, QueueLimit) /\ IsInjective(<<>>)
    <3>1. Len(<<>>) <= Capacity /\ Len(<<>>) <= QueueLimit /\ Capacity \in Nat /\ QueueLimit \in Nat
      BY <1>1
    <3>2. <<>> \in BoundedSeq(Target, Capacity)
      BY ONLY <1>2, <3>1, Bounded
    <3>3. <<>> \in BoundedSeq(Ids, QueueLimit)
      BY ONLY <1>2, <3>1, Bounded
    <3>4. IsInjective(<<>>)
      BY <1>2 DEF IsInjective
    <3> QED BY <3>2, <3>3, <3>4
  <2> QED BY <1>1, <1>2, <1>3, <2>1 DEF ListTyped
<1>6. FlushTyped
  BY <1>3, IdleIsRecord DEF FlushTyped
<1>7. Lives
  BY <1>2, <1>3, <1>4 DEF Lives, Distinct, OneEach
<1>8. Places
  BY <1>3, <1>4 DEF Places
<1>9. Flushing
  BY <1>3, IdleIsRecord DEF Flushing
<1>10. Telling
  BY <1>2, <1>3 DEF Telling
<1> QED BY <1>5, <1>6, <1>7, <1>8, <1>9, <1>10, TypeHalves DEF ArchiveInv

LEMMA InvNext == ArchiveInv /\ [Next]_vars => ArchiveInv'
<1> SUFFICES ASSUME ArchiveInv, [Next]_vars PROVE ArchiveInv'
  OBVIOUS
<1>1. CASE Api
  BY <1>1, ApiStep
<1>2. CASE SomeSweep
  BY <1>2, SweepStep
<1>3. CASE SomeDrain
  BY <1>3, DrainStep
<1>4. CASE Elapse
  BY <1>4, ElapseStep
<1>5. ASSUME NEW a \in Actors, Publish(a) PROVE ArchiveInv'
  BY <1>5, PublishStep
<1>6. ASSUME NEW p \in Flushers, FlushStep(p) PROVE ArchiveInv'
  BY <1>6, EnterStep, GiveUpStep, TakeStep, ArchiveStep, ApplyStep, FinishStep DEF FlushStep
<1>7. CASE UNCHANGED vars
  <2>1. UNCHANGED <<list, queue, events, archive, budget>>
    BY <1>7 DEF vars
  <2>2. ListTyped' /\ Lives' /\ Places' /\ Telling' /\ Pending' = Pending /\ evicted' = evicted
    BY <2>1, ListStays DEF queue, archive
  <2>3. FlushTyped' /\ Flushing'
    BY <2>1, <2>2, FlushFacts DEF FlushTyped, archive, budget, ArchiveInv, Flushing
  <2> QED BY <2>2, <2>3, TypeHalves DEF ArchiveInv
<1> QED BY <1>1, <1>2, <1>3, <1>4, <1>5, <1>6, <1>7 DEF Next

LEMMA Invariance == Spec => []ArchiveInv
BY InvInit, InvNext, PTL DEF Spec

\* The state has the type it is meant to have: never more live targets than maxFPV
\* nor more pending ones than the ring takes, and none of them twice.
THEOREM TypeCorrect == Spec => []TypeOK
<1>1. ArchiveInv => TypeOK
  BY DEF ArchiveInv
<1> QED BY <1>1, Invariance, PTL

\* AddFPV never leaves two live targets with the same serial number, whatever
\* signals with and without one were merged before.
THEOREM SerialIsUnique == Spec => []UniqueSerial
<1>1. ArchiveInv => UniqueSerial
  <2> SUFFICES ASSUME ArchiveInv PROVE UniqueSerial
    OBVIOUS
  <2> QED BY DEF ArchiveInv, Lives, UniqueSerial, OneEach, Distinct, ToSet
<1> QED BY <1>1, Invariance, PTL

\* Once a subscriber was told that a target is gone it never hears of the target
\* again: what is published under fpvEventMu keeps the order of the changes.
THEOREM RemovalIsLast == Spec => ToldInOrder
<1> DEFINE P == \A t \in Ids : told[t] = "removed" => told'[t] = "removed"
<1>1. ASSUME ArchiveInv, NEW a \in Actors, Publish(a) PROVE P
  <2>1. PICK e \in Event, s \in Seq(Event) :
          /\ outbox' = [outbox EXCEPT ![a] = s] /\ told' = [told EXCEPT ![e.id] = e.type]
          /\ eventMu' = IF s = <<>> THEN Nobody ELSE eventMu
          /\ e.type = "removed" => Gone(e.id)
          /\ e.type = "updated" => e.id \in LiveIds
          /\ \A j \in DOMAIN s : /\ s[j].type = "removed" => Gone(s[j].id)
                                 /\ s[j].type = "updated" => s[j].id \in LiveIds
    BY <1>1, PublishFacts
  <2>2. e.id \in Ids /\ e.type \in {"updated", "removed"}
    BY DEF Event
  <2>3. told \in [Ids -> {"nothing", "updated", "removed"}] /\ \A t \in Ids : told[t] = "removed" => Gone(t)
    BY <1>1 DEF ArchiveInv, TypeOK, Telling
  <2>4. told[e.id] = "removed" => e.type = "removed"
    BY <2>1, <2>2, <2>3 DEF Gone
  <2> QED BY <2>1, <2>2, <2>3, <2>4
<1>2. ASSUME ArchiveInv, [Next]_vars, told' # told PROVE \E a \in Actors : Publish(a)
  <2>1. CASE Api
    BY <1>2, <2>1, ApiChanges DEF Tells, Announce
  <2>2. CASE SomeSweep
    BY <1>2, <2>2 DEF SomeSweep, Sweep, Prune, Announce
  <2>3. CASE SomeDrain
    BY <1>2, <2>3 DEF SomeDrain, Drain, Prune, Announce
  <2>4. CASE Elapse
    BY <1>2, <2>4 DEF Elapse, events
  <2>5. ASSUME NEW p \in Flushers, FlushStep(p) PROVE FALSE
    BY <1>2, <2>5 DEF FlushStep, Enter, GiveUp, Take, Archive, Apply, Finish, events
  <2>6. CASE UNCHANGED vars
    BY <1>2, <2>6 DEF vars, events
  <2> QED BY <1>2, <2>1, <2>2, <2>3, <2>4, <2>5, <2>6 DEF Next
<1>3. ArchiveInv /\ [Next]_vars => [P]_vars
  BY <1>1, <1>2
<1> QED BY <1>3, Invariance, PTL DEF Spec, ToldInOrder

-----------------------------------------------------------------------------
(* The store keeps the promise of ArchivePromise.                            *)

\* What a step may do to the places where targets are.
Moves ==
  /\ next <= next' /\ \A t \in LiveIds' : t \in LiveIds \/ t >= next
  /\ valid \subseteq valid' /\ \A t \in valid' : t \in valid \/ t \in LiveIds \/ t >= next
  /\ Pending \subseteq Pending' \cup evicted' \cup db'
  /\ \A t \in Pending' : t \in Pending \/ t \in LiveIds \/ t >= next
  /\ evicted \subseteq evicted' /\ db \subseteq db' /\ db' \subseteq db \cup Pending \cup evicted
  /\ evicted' # evicted => Len(slots') = QueueLimit

LEMMA NumbersFacts ==
  ASSUME ArchiveInv
  PROVE  next \in Nat /\ LiveIds \subseteq Nat /\ \A t \in LiveIds : t < next
<1>1. live \in Seq(Target) /\ LiveIds = IdsIn(ToSet(live)) /\ LiveIds \subseteq Ids
  BY TypeFacts, LiveFacts DEF ArchiveInv
<1> QED BY <1>1, IdsAreNumbers DEF ArchiveInv, TypeOK, Lives, IdsIn

LEMMA ChangeMoves ==
  ASSUME ArchiveInv, NEW R, NEW N, Changes(R, N), UNCHANGED db
  PROVE  Moves
<1>1. next \in Nat
  BY NumbersFacts
<1>2. /\ Pending' \cup evicted' = Pending \cup evicted \cup (IdsIn(ToSet(R)) \cap valid')
      /\ Pending' \subseteq Pending \cup (IdsIn(ToSet(R)) \cap valid') /\ evicted \subseteq evicted'
      /\ evicted' # evicted => Len(slots') = QueueLimit
  BY ChangeQueues
<1>3. /\ IdsIn(ToSet(R)) \cup LiveIds' = LiveIds \cup N
      /\ (N = {} /\ next' = next) \/ (N = {next} /\ next' = next + 1)
      /\ valid \subseteq valid' /\ valid' \subseteq valid \cup LiveIds \cup N
  BY DEF Changes
<1>4. next <= next' /\ next >= next
  BY <1>1, <1>3
<1> QED BY <1>2, <1>3, <1>4 DEF Moves

LEMMA StepMoves ==
  ASSUME ArchiveInv, [Next]_vars
  PROVE  Moves
<1>1. next \in Nat /\ next <= next
  BY NumbersFacts
<1>2. ASSUME UNCHANGED <<list, queue, db>> PROVE Moves
  <2>1. next' = next /\ LiveIds' = LiveIds /\ valid' = valid /\ Pending' = Pending /\ evicted' = evicted /\ db' = db
    BY <1>2 DEF list, queue, LiveIds, Pending
  <2> QED BY <1>1, <2>1 DEF Moves
<1>3. CASE Api
  <2>1. \E R, N : Changes(R, N) /\ UNCHANGED db
    BY <1>3, ApiChanges DEF archive
  <2> QED BY <2>1, ChangeMoves
<1>4. ASSUME NEW a \in Actors, NEW k \in 0..Len(live), NEW order \in Expired(k), Prune(a, k, order),
             UNCHANGED db
      PROVE  Moves
  BY <1>4, PruneChanges, ChangeMoves
<1>5. Sweeper \in Actors /\ Drainer \in Actors /\ Len(live) \in 0..Len(live)
  BY ActorsAreSomebody, TypeFacts DEF Flushers, ArchiveInv
<1>6. CASE SomeSweep
  BY <1>4, <1>5, <1>6 DEF SomeSweep, Sweep
<1>7. CASE SomeDrain
  BY <1>4, <1>5, <1>7 DEF SomeDrain, Drain
<1>8. CASE Elapse
  BY <1>2, <1>8 DEF Elapse
<1>9. ASSUME NEW a \in Actors, Publish(a) PROVE Moves
  BY <1>2, <1>9 DEF Publish, archive
<1>10. ASSUME NEW p \in Flushers, FlushStep(p) PROVE Moves
  <2>1. CASE Archive(p)
    <3>1. flush[p].pc = "archive" /\ UNCHANGED <<list, queue>>
      BY <2>1 DEF Archive, At
    <3>2. ToSet(flush[p].batch) \subseteq Pending \cup evicted
      BY <3>1 DEF ArchiveInv, Flushing
    <3>3. db \subseteq db' /\ db' \subseteq db \cup ToSet(flush[p].batch)
      BY <2>1 DEF Archive, Insert
    <3>4. next' = next /\ LiveIds' = LiveIds /\ valid' = valid /\ Pending' = Pending /\ evicted' = evicted
      BY <3>1 DEF list, queue, LiveIds, Pending
    <3> QED BY <1>1, <3>2, <3>3, <3>4 DEF Moves
  <2>2. CASE Apply(p)
    <3>1. UNCHANGED <<list, evicted, db>>
      BY <2>2 DEF Apply
    <3>2. next' = next /\ LiveIds' = LiveIds /\ valid' = valid /\ evicted' = evicted /\ db' = db
      BY <3>1 DEF list, LiveIds
    <3>3. Pending' = Pending \ flush[p].ok /\ flush[p].ok \subseteq db
      BY <2>2, ApplyFacts
    <3> QED BY <1>1, <3>2, <3>3 DEF Moves
  <2>3. CASE Enter(p) \/ GiveUp(p) \/ Take(p) \/ Finish(p)
    BY <1>2, <2>3 DEF Enter, GiveUp, Take, Finish
  <2> QED BY <1>10, <2>1, <2>2, <2>3 DEF FlushStep
<1>11. CASE UNCHANGED vars
  BY <1>2, <1>11 DEF vars, archive
<1> QED BY <1>3, <1>6, <1>7, <1>8, <1>9, <1>10, <1>11 DEF Next

LEMMA InjectiveCount ==
  ASSUME NEW s \in Seq(Ids), IsInjective(s)
  PROVE  Cardinality(ToSet(s)) = Len(s)
<1>1. DOMAIN s = 1..Len(s) /\ Len(s) \in Nat
  OBVIOUS
<1>2. s \in Bijection(1..Len(s), ToSet(s))
  BY <1>1 DEF Bijection, Injection, Surjection, IsInjective, ToSet
<1>3. IsFiniteSet(1..Len(s)) /\ Cardinality(1..Len(s)) = Len(s)
  BY <1>1, FS_Interval
<1>4. ExistsBijection(1..Len(s), ToSet(s))
  BY <1>2 DEF ExistsBijection
<1> QED BY <1>3, <1>4, FS_Bijection

\* Where a target is, as the promise sees it.
Fits ==
  /\ fate \in [Ids -> Contract!Fates]
  /\ \A t \in Ids : /\ fate[t] = "live" <=> t \in LiveIds
                    /\ fate[t] = "unseen" <=> t >= next
                    /\ fate[t] = "owed" <=> t \in Pending
                    /\ fate[t] = "archived" <=> t \in db /\ t \notin Pending
                    /\ fate[t] = "dropped" <=> t \in evicted /\ t \notin db
                    /\ fate[t] = "ended" <=> t < next /\ t \notin LiveIds /\ t \notin valid

LEMMA FateFacts == ArchiveInv => Fits
<1> SUFFICES ASSUME ArchiveInv PROVE Fits
  OBVIOUS
<1>1. \A t \in Ids : t \in Nat
  BY IdsAreNumbers
<1>2. next \in Nat /\ \A t \in LiveIds : t < next
  BY NumbersFacts
<1>3. \A t \in valid : t < next
  BY DEF ArchiveInv, Places
<1> DEFINE F(t) == IF t \in LiveIds THEN "live"
                   ELSE IF t >= next THEN "unseen"
                   ELSE IF t \in Pending THEN "owed"
                   ELSE IF t \in db THEN "archived"
                   ELSE IF t \in evicted THEN "dropped" ELSE "ended"
<1>4. fate = [t \in Ids |-> F(t)]
  BY DEF fate
<1>5. \A t \in Ids : F(t) \in Contract!Fates
  BY DEF Contract!Fates
<1>6. fate \in [Ids -> Contract!Fates] /\ \A t \in Ids : fate[t] = F(t)
  <2> HIDE DEF F
  <2> QED BY <1>4, <1>5
<1>7. ASSUME NEW t \in Ids
      PROVE  /\ F(t) = "live" <=> t \in LiveIds
             /\ F(t) = "unseen" <=> t >= next
             /\ F(t) = "owed" <=> t \in Pending
             /\ F(t) = "archived" <=> t \in db /\ t \notin Pending
             /\ F(t) = "dropped" <=> t \in evicted /\ t \notin db
             /\ F(t) = "ended" <=> t < next /\ t \notin LiveIds /\ t \notin valid
  <2>1. t \in Nat /\ next \in Nat /\ (t \in LiveIds => t < next) /\ (t \in valid => t < next)
    BY <1>1, <1>2, <1>3
  <2>2. /\ t \in LiveIds => t \notin Pending /\ t \notin db /\ t \notin evicted
        /\ t \in Pending => t \notin evicted
        /\ t \in Pending \/ t \in db \/ t \in evicted => t \in valid
        /\ t \in valid => t \in LiveIds \/ t \in Pending \/ t \in db \/ t \in evicted
    BY DEF ArchiveInv, Places
  <2> QED BY <2>1, <2>2
<1> HIDE DEF F
<1> QED BY <1>6, <1>7 DEF Fits

LEMMA FateFactsNext == ArchiveInv' => Fits'
BY FateFacts, PTL

LEMMA FateInit == Init => Contract!Init
<1> SUFFICES ASSUME Init PROVE Contract!Init
  OBVIOUS
<1>1. ArchiveInv /\ next = 1 /\ valid = {}
  BY InvInit DEF Init
<1>2. fate \in [Ids -> Contract!Fates] /\ \A t \in Ids : fate[t] = "unseen"
  <2>1. \A t \in Ids : t >= next
    BY <1>1 DEF Ids
  <2> QED BY <1>1, <2>1, FateFacts DEF Fits
<1> QED BY <1>1, <1>2 DEF Contract!Init

\* Each target goes where the promise lets it go.
LEMMA FateGoes ==
  ASSUME ArchiveInv, ArchiveInv', Moves, NEW t \in Ids
  PROVE  fate'[t] \in Contract!After[fate[t]]
<1>1. Fits /\ Fits'
  BY FateFacts, FateFactsNext
<1>2. fate'[t] \in Contract!Fates /\ fate[t] \in Contract!Fates
  BY <1>1 DEF Fits
<1>3. /\ fate[t] = "live" <=> t \in LiveIds
      /\ fate[t] = "unseen" <=> t >= next
      /\ fate[t] = "owed" <=> t \in Pending
      /\ fate[t] = "archived" <=> t \in db /\ t \notin Pending
      /\ fate[t] = "dropped" <=> t \in evicted /\ t \notin db
      /\ fate[t] = "ended" <=> t < next /\ t \notin LiveIds /\ t \notin valid
  BY <1>1 DEF Fits
<1>4. /\ fate'[t] = "live" <=> t \in LiveIds'
      /\ fate'[t] = "unseen" <=> t >= next'
      /\ fate'[t] = "owed" <=> t \in Pending'
      /\ fate'[t] = "archived" <=> t \in db' /\ t \notin Pending'
      /\ fate'[t] = "dropped" <=> t \in evicted' /\ t \notin db'
      /\ fate'[t] = "ended" <=> t < next' /\ t \notin LiveIds' /\ t \notin valid'
  BY <1>1 DEF Fits
<1>5. t \in Nat /\ next \in Nat /\ next' \in Nat
  BY IdsAreNumbers DEF ArchiveInv, TypeOK
<1>6. /\ next <= next'
      /\ t \in LiveIds' => t \in LiveIds \/ t >= next
      /\ t \in valid' => t \in valid \/ t \in LiveIds \/ t >= next
      /\ t \in Pending => t \in Pending' \/ t \in evicted' \/ t \in db'
      /\ t \in Pending' => t \in Pending \/ t \in LiveIds \/ t >= next
      /\ t \in evicted => t \in evicted'
      /\ t \in db => t \in db'
      /\ t \in db' => t \in db \/ t \in Pending \/ t \in evicted
  BY DEF Moves
<1>7. /\ t \in LiveIds => t \notin Pending /\ t \notin db /\ t \notin evicted
      /\ t \in Pending => t \notin evicted
      /\ t \in Pending \/ t \in db \/ t \in evicted => t \in valid /\ t < next
  BY DEF ArchiveInv, Places
<1>8. /\ t \in Pending' => t \notin evicted'
      /\ t \in Pending' \/ t \in db' \/ t \in evicted' => t \in valid'
  BY DEF ArchiveInv, Places
<1>9. t \in LiveIds => t < next
  BY NumbersFacts
<1>10. CASE fate[t] = "unseen"
  <2>1. fate'[t] # "archived"
    BY <1>3, <1>4, <1>5, <1>6, <1>7, <1>10
  <2> QED BY <1>2, <1>10, <2>1 DEF Contract!After
<1>11. CASE fate[t] = "live"
  <2>1. fate'[t] # "archived" /\ fate'[t] # "unseen"
    BY <1>3, <1>4, <1>5, <1>6, <1>7, <1>9, <1>11
  <2> QED BY <1>2, <1>11, <2>1 DEF Contract!After, Contract!Fates
<1>12. CASE fate[t] = "ended"
  <2>1. fate'[t] = "ended"
    BY <1>3, <1>4, <1>5, <1>6, <1>12
  <2> QED BY <1>12, <2>1 DEF Contract!After
<1>13. CASE fate[t] = "owed"
  <2>1. fate'[t] \notin {"unseen", "live", "ended"}
    BY <1>3, <1>4, <1>5, <1>6, <1>7, <1>8, <1>13
  <2> QED BY <1>2, <1>13, <2>1 DEF Contract!After, Contract!Fates
<1>14. CASE fate[t] = "archived"
  <2>1. fate'[t] = "archived"
    BY <1>3, <1>4, <1>5, <1>6, <1>7, <1>14
  <2> QED BY <1>14, <2>1 DEF Contract!After
<1>15. CASE fate[t] = "dropped"
  <2>1. fate'[t] \in {"dropped", "archived"}
    BY <1>3, <1>4, <1>5, <1>6, <1>7, <1>8, <1>15
  <2> QED BY <1>15, <2>1 DEF Contract!After
<1> QED BY <1>2, <1>10, <1>11, <1>12, <1>13, <1>14, <1>15 DEF Contract!Fates

LEMMA FateStep ==
  ASSUME ArchiveInv, ArchiveInv', Moves
  PROVE  Contract!Next
<1>1. Fits /\ Fits'
  BY FateFacts, FateFactsNext
<1>2. fate' \in [Ids -> Contract!Fates]
  BY <1>1 DEF Fits
<1>3. \A t \in Ids : fate'[t] \in Contract!After[fate[t]]
  BY FateGoes
<1>4. valid \subseteq valid'
  BY DEF Moves
<1>5. valid' \subseteq valid \cup Contract!With("unseen") \cup Contract!With("live")
  <2>1. valid' \subseteq Ids
    BY DEF ArchiveInv, TypeOK
  <2>2. \A t \in valid' : t \in valid \/ fate[t] = "live" \/ fate[t] = "unseen"
    BY <1>1, <2>1 DEF Moves, Fits
  <2> QED BY <2>1, <2>2 DEF Contract!With
<1>6. Contract!With("ended")' \cap valid' = {}
  BY <1>1 DEF Contract!With, Fits
<1>7. (Contract!With("owed") \cup Contract!With("archived") \cup Contract!With("dropped"))' \subseteq valid'
  <2>1. Pending' \cup db' \cup evicted' \subseteq valid'
    BY DEF ArchiveInv, Places
  <2> QED BY <1>1, <2>1 DEF Contract!With, Fits
<1>8. Contract!With("dropped")' \subseteq Contract!With("dropped") \/ Cardinality(Contract!With("owed")') = QueueLimit
  <2>1. CASE evicted' = evicted
    <3>1. \A t \in Ids : fate'[t] = "dropped" => fate[t] = "dropped"
      BY <1>1, <2>1 DEF Fits, Moves
    <3> QED BY <3>1 DEF Contract!With
  <2>2. CASE evicted' # evicted
    <3>1. slots' \in Seq(Ids) /\ IsInjective(slots') /\ Len(slots') = QueueLimit
      <4>1. slots' \in BoundedSeq(Ids, QueueLimit) /\ IsInjective(slots')
        BY DEF ArchiveInv, TypeOK
      <4>2. QueueLimit \in Nat
        BY FPVArchiveAssumption
      <4> QED BY <2>2, <4>1, <4>2, Bounded DEF Moves
    <3>2. Cardinality(Pending') = QueueLimit
      <4> DEFINE s == slots'
      <4> HIDE DEF s
      <4>1. s \in Seq(Ids) /\ IsInjective(s) /\ Len(s) = QueueLimit
        BY <3>1 DEF s
      <4>2. Cardinality(ToSet(s)) = QueueLimit
        BY ONLY <4>1, InjectiveCount
      <4> QED BY <4>2 DEF s, Pending
    <3>3. Pending' \subseteq Ids
      BY DEF ArchiveInv, Places, TypeOK
    <3>4. Contract!With("owed")' = Pending'
      BY <1>1, <3>3 DEF Contract!With, Fits
    <3> QED BY <3>2, <3>4
  <2> QED BY <2>1, <2>2
<1>9. Contract!Cardinality(Contract!With("owed")') = Cardinality(Contract!With("owed")')
  <2> DEFINE S == Contract!With("owed")'
  <2> HIDE DEF S
  <2>1. Contract!Cardinality(S) = Cardinality(S)
    BY Zenon DEF Contract!Cardinality, Cardinality
  <2> QED BY <2>1 DEF S
<1> QED BY ONLY <1>2, <1>3, <1>4, <1>5, <1>6, <1>7, <1>8, <1>9, Zenon DEF Contract!Next

\* What the store promises of FPV targets: one that was valid is owed to the
\* intrusion archive when it leaves the list, it reaches the archive unless the ring
\* was full when another came, one that was never valid is not archived, and none
\* comes back.  Every step of the store is a step of ArchivePromise.
THEOREM PromiseKept == Spec => Promise
<1>1. Init => Contract!Init
  BY FateInit
<1>2. ArchiveInv /\ ArchiveInv' /\ [Next]_vars => [Contract!Next]_<<fate, valid>>
  BY StepMoves, FateStep
<1> QED BY <1>1, <1>2, Invariance, PTL DEF Spec, Promise, Contract!Spec

-----------------------------------------------------------------------------
(* A drain delivers what was live or pending when it began: what it owes lies *)
(* in the ring before what has come since, within reach of what it has left.  *)

Order(q) == [i \in DOMAIN q.slots |-> q.slots[((q.head + i - 1) % Len(q.slots)) + 1]]
Place(h, n, i) == IF h + i <= n THEN h + i ELSE h + i - n

\* The candidates of o have moved up by some places, and others came after them.
ShiftedBy(k, o, p, C) ==
  /\ Len(o) - k <= Len(p)
  /\ \A i \in 1..Len(p) : /\ i <= Len(o) - k => i + k \in 1..Len(o) /\ p[i] = o[i + k]
                          /\ i > Len(o) - k => p[i] \in C
Shifted(o, p, C) ==
  o \in Seq(Ids) /\ p \in Seq(Ids) /\ \E k \in 0..Len(o) : ShiftedBy(k, o, p, C)

\* Those of W are among the first n of o, not counting what is in B.
InTime(o, B, W, n) ==
  \A i \in DOMAIN o : o[i] \in W => Cardinality(First(o, i) \ B) <= n

LEMMA OrderFacts ==
  ASSUME NEW q \in Queues
  PROVE  /\ q.slots \in Seq(Ids) /\ Order(q) \in Seq(Ids) /\ Len(Order(q)) = Len(q.slots)
         /\ \A i \in 1..Len(q.slots) : /\ Place(q.head, Len(q.slots), i) \in 1..Len(q.slots)
                                       /\ Order(q)[i] = q.slots[Place(q.head, Len(q.slots), i)]
<1> DEFINE n == Len(q.slots)
           h == q.head
<1>1. q.slots \in Seq(Ids) /\ n \in Nat /\ h \in Nat /\ (n > 0 => h < n) /\ DOMAIN q.slots = 1..n
  BY FPVArchiveAssumption DEF Queues
<1>2. \A i \in 1..n : ((h + i - 1) % n) + 1 = Place(h, n, i) /\ Place(h, n, i) \in 1..n
  <2> TAKE i \in 1..n
  <2>1. n \in Nat \ {0} /\ h + i - 1 \in 0..(n + n - 1)
    BY <1>1
  <2> DEFINE a == h + i - 1
  <2>2. a % n = IF a < n THEN a ELSE a - n
    <3>1. n \in Nat \ {0} /\ a \in 0..(n + n - 1)
      BY <2>1
    <3> HIDE DEF n, a
    <3> QED BY <3>1, Around
  <2> HIDE DEF n, h
  <2> QED BY <1>1, <2>1, <2>2 DEF Place
<1>3. Order(q) = [i \in 1..n |-> q.slots[Place(h, n, i)]]
  BY <1>1, <1>2 DEF Order
<1>4. \A i \in 1..n : q.slots[Place(h, n, i)] \in Ids
  BY <1>1, <1>2
<1> HIDE DEF n, h
<1> QED BY <1>1, <1>2, <1>3, <1>4 DEF n, h

\* A candidate more: into a free place, or over the first.
LEMMA EnqueueShifts ==
  ASSUME NEW q \in Queues, NEW id \in Ids
  PROVE  Shifted(Order(q), Order(Enqueue(q, id)), {id})
<1> DEFINE e == Enqueue(q, id)
           o == Order(q)
           p == Order(e)
           n == Len(q.slots)
           h == q.head
<1>1. e \in Queues
  BY Enqueues
<1>2. /\ q.slots \in Seq(Ids) /\ o \in Seq(Ids) /\ Len(o) = n /\ n \in Nat
      /\ \A i \in 1..n : Place(h, n, i) \in 1..n /\ o[i] = q.slots[Place(h, n, i)]
  BY OrderFacts
<1>3. /\ p \in Seq(Ids) /\ Len(p) = Len(e.slots)
      /\ \A i \in 1..Len(e.slots) : p[i] = e.slots[Place(e.head, Len(e.slots), i)]
  BY <1>1, OrderFacts
<1>4. QueueLimit \in Nat \ {0} /\ h \in Nat /\ n <= QueueLimit /\ h < QueueLimit /\ (h # 0 => n = QueueLimit)
  BY FPVArchiveAssumption DEF Queues
<1>5. CASE n < QueueLimit
  <2>1. e.slots = Append(q.slots, id) /\ e.head = 0 /\ h = 0
    <3>1. e = [q EXCEPT !.slots = Append(q.slots, id)]
      BY <1>5 DEF Enqueue
    <3>2. q \in [slots : Seq(Ids), head : 0..(QueueLimit - 1), evicted : SUBSET Ids]
      BY DEF Queues
    <3> HIDE DEF e
    <3> QED BY <1>4, <1>5, <3>1, <3>2
  <2>2. /\ Len(e.slots) = n + 1 /\ e.slots[n + 1] = id
        /\ \A i \in 1..n : e.slots[i] = q.slots[i]
    BY <1>2, <2>1
  <2> HIDE DEF e, o, p, n, h
  <2>3. \A i \in 1..n : o[i] = q.slots[i]
    BY <1>2, <2>1 DEF Place
  <2>4. \A i \in 1..(n + 1) : p[i] = e.slots[i]
    BY <1>2, <1>3, <2>1, <2>2 DEF Place
  <2>5. \A i \in 1..(n + 1) : i \in 1..n \/ i = n + 1
    BY <1>2
  <2>6. ShiftedBy(0, o, p, {id})
    <3>1. Len(p) = n + 1 /\ Len(o) - 0 = n /\ \A i \in 1..n : i + 0 = i
      BY <1>2, <1>3, <2>2
    <3>2. \A i \in 1..n : p[i] = o[i]
      <4>1. \A i \in 1..n : i \in 1..(n + 1)
        BY <1>2
      <4>2. \A i \in 1..n : e.slots[i] = q.slots[i]
        BY <2>2
      <4> QED BY ONLY <2>3, <2>4, <4>1, <4>2
    <3>3. p[n + 1] = id
      BY <1>2, <2>2, <2>4
    <3> QED BY <1>2, <2>5, <3>1, <3>2, <3>3 DEF ShiftedBy
  <2>7. 0 \in 0..Len(o)
    BY <1>2
  <2> QED BY <1>2, <1>3, <2>6, <2>7 DEF Shifted, e, o, p
<1>6. CASE n >= QueueLimit
  <2>1. n = QueueLimit /\ h \in 0..(n - 1) /\ n \in Nat \ {0}
    BY <1>2, <1>4, <1>6
  <2>2. e.slots = [q.slots EXCEPT ![h + 1] = id] /\ e.head = (h + 1) % n
    BY <1>6, <2>1 DEF Enqueue
  <2>3. (h + 1) % n = IF h + 1 = n THEN 0 ELSE h + 1
    <3> HIDE DEF n, h
    <3> QED BY <2>1, NextPlace
  <2>4. /\ Len(e.slots) = n /\ e.slots[h + 1] = id
        /\ \A i \in 1..n : i # h + 1 => e.slots[i] = q.slots[i]
    BY <1>2, <2>1, <2>2
  <2> HIDE DEF e, o, p, n, h
  <2>5. ASSUME NEW i \in 1..n, i <= n - 1 PROVE p[i] = o[i + 1] /\ i + 1 \in 1..n
    <3>1. i + 1 \in 1..n
      BY <1>2, <2>5
    <3>2. Place(e.head, n, i) = Place(h, n, i + 1) /\ Place(h, n, i + 1) # h + 1
      BY <2>1, <2>2, <2>3, <2>5 DEF Place
    <3>3. i \in 1..Len(e.slots) /\ Place(h, n, i + 1) \in 1..n
      BY <1>2, <2>4, <3>1
    <3>4. p[i] = e.slots[Place(h, n, i + 1)]
      BY <1>3, <2>4, <3>2, <3>3
    <3>5. e.slots[Place(h, n, i + 1)] = q.slots[Place(h, n, i + 1)]
      BY <2>4, <3>2, <3>3
    <3>6. o[i + 1] = q.slots[Place(h, n, i + 1)]
      BY <1>2, <3>1
    <3> QED BY <3>1, <3>4, <3>5, <3>6
  <2>6. p[n] = id
    <3>1. Place(e.head, n, n) = h + 1 /\ n \in 1..n
      BY <2>1, <2>2, <2>3 DEF Place
    <3> QED BY <1>3, <2>4, <3>1
  <2>7. \A i \in 1..n : i <= n - 1 \/ i = n
    BY <1>2
  <2>8. ShiftedBy(1, o, p, {id})
    BY <1>2, <1>3, <2>4, <2>5, <2>6, <2>7 DEF ShiftedBy
  <2>9. 1 \in 0..Len(o)
    BY <1>2, <2>1
  <2> QED BY <1>2, <1>3, <2>8, <2>9 DEF Shifted, e, o, p
<1> QED BY <1>2, <1>4, <1>5, <1>6

LEMMA ShiftedOn ==
  ASSUME NEW o, NEW p, NEW r, NEW C, NEW D, Shifted(o, p, C), Shifted(p, r, D)
  PROVE  Shifted(o, r, C \cup D)
<1>1. PICK k \in 0..Len(o) : ShiftedBy(k, o, p, C)
  BY DEF Shifted
<1>2. PICK l \in 0..Len(p) : ShiftedBy(l, p, r, D)
  BY DEF Shifted
<1>3. /\ o \in Seq(Ids) /\ p \in Seq(Ids) /\ r \in Seq(Ids)
      /\ Len(o) \in Nat /\ Len(p) \in Nat /\ Len(r) \in Nat /\ k \in Nat /\ l \in Nat
  BY DEF Shifted
<1> DEFINE m == IF k + l <= Len(o) THEN k + l ELSE Len(o)
<1>4. m \in 0..Len(o)
  BY <1>3
<1>5. ShiftedBy(m, o, r, C \cup D)
  <2>1. Len(o) - k <= Len(p) /\ Len(p) - l <= Len(r)
    BY <1>1, <1>2 DEF ShiftedBy
  <2>2. Len(o) - m <= Len(r)
    BY <1>3, <2>1
  <2>3. ASSUME NEW i \in 1..Len(r)
        PROVE  /\ i <= Len(o) - m => i + m \in 1..Len(o) /\ r[i] = o[i + m]
               /\ i > Len(o) - m => r[i] \in C \cup D
    <3>1. /\ i <= Len(p) - l => i + l \in 1..Len(p) /\ r[i] = p[i + l]
          /\ i > Len(p) - l => r[i] \in D
      BY <1>2 DEF ShiftedBy
    <3>2. CASE i > Len(p) - l
      <4>1. i > Len(o) - m
        BY <1>3, <2>1, <3>2
      <4> QED BY <3>1, <3>2, <4>1, <1>3
    <3>3. CASE i <= Len(p) - l
      <4>1. i + l \in 1..Len(p) /\ r[i] = p[i + l]
        BY <3>1, <3>3
      <4>2. /\ i + l <= Len(o) - k => (i + l) + k \in 1..Len(o) /\ p[i + l] = o[(i + l) + k]
            /\ i + l > Len(o) - k => p[i + l] \in C
        BY <1>1, <4>1 DEF ShiftedBy
      <4>3. CASE i <= Len(o) - m
        <5>1. m = k + l /\ i + l <= Len(o) - k /\ (i + l) + k = i + m
          BY <1>3, <4>3
        <5> QED BY <1>3, <4>1, <4>2, <4>3, <5>1
      <4>4. CASE i > Len(o) - m
        <5>1. i + l > Len(o) - k
          BY <1>3, <4>4
        <5> QED BY <1>3, <4>1, <4>2, <4>4, <5>1
      <4> QED BY <1>3, <1>4, <4>3, <4>4
    <3> QED BY <1>3, <3>2, <3>3
  <2> QED BY <2>2, <2>3 DEF ShiftedBy
<1> QED BY <1>3, <1>4, <1>5 DEF Shifted

LEMMA NotShifted ==
  ASSUME NEW o \in Seq(Ids), NEW C
  PROVE  Shifted(o, o, C)
<1>1. ShiftedBy(0, o, o, C) /\ 0 \in 0..Len(o)
  BY DEF ShiftedBy
<1> QED BY <1>1 DEF Shifted

\* retireFPVLocked: the candidates it adds come after those that stay.
LEMMA RetireShifts ==
  ASSUME NEW targets \in Seq(Target), Queue \in Queues
  PROVE  Shifted(Order(Queue), Order(QueueAfter(targets)), Candidates(targets, Len(targets)))
<1> DEFINE m == Len(targets)
<1>1. PICK f \in [0..m -> Queues] :
        /\ f[0] = Queue /\ QueueAfter(targets) = f[m]
        /\ \A n \in 1..m :
             f[n] = IF targets[n].everValid THEN Enqueue(f[n - 1], targets[n].id) ELSE f[n - 1]
  BY QueueSteps
<1>2. m \in Nat /\ \A n \in 1..m : targets[n].id \in Ids
  <2>1. \A n \in 1..m : targets[n] \in Target
    OBVIOUS
  <2> QED BY <2>1 DEF Target
<1> HIDE DEF m
<1> DEFINE S == {n \in Nat : n <= m => Shifted(Order(Queue), Order(f[n]), Candidates(targets, n))}
<1>3. 0 \in S
  <2>1. Order(Queue) \in Seq(Ids)
    BY OrderFacts
  <2>2. Shifted(Order(Queue), Order(Queue), Candidates(targets, 0))
    BY <2>1, NotShifted
  <2> QED BY <1>1, <2>2
<1>4. ASSUME NEW n \in Nat, n \in S PROVE n + 1 \in S
  <2> SUFFICES ASSUME n + 1 <= m
               PROVE  Shifted(Order(Queue), Order(f[n + 1]), Candidates(targets, n + 1))
    OBVIOUS
  <2>1. n + 1 \in 1..m /\ (n + 1) - 1 = n /\ n <= m /\ n \in 0..m
    BY <1>2
  <2>2. Shifted(Order(Queue), Order(f[n]), Candidates(targets, n))
    BY <1>4, <2>1
  <2>3. f[n + 1] = IF targets[n + 1].everValid THEN Enqueue(f[n], targets[n + 1].id) ELSE f[n]
    BY <1>1, <2>1
  <2>4. \A j \in 1..(n + 1) : j \in 1..n \/ j = n + 1
    OBVIOUS
  <2>5. CASE targets[n + 1].everValid
    <3>1. Candidates(targets, n + 1) = Candidates(targets, n) \cup {targets[n + 1].id}
      BY <2>4, <2>5 DEF Candidates
    <3>2. f[n] \in Queues /\ targets[n + 1].id \in Ids
      BY <1>1, <1>2, <2>1
    <3>3. Shifted(Order(f[n]), Order(f[n + 1]), {targets[n + 1].id})
      BY <2>3, <2>5, <3>2, EnqueueShifts
    <3> QED BY ONLY <2>2, <3>1, <3>3, ShiftedOn
  <2>6. CASE ~targets[n + 1].everValid
    <3>1. Candidates(targets, n + 1) = Candidates(targets, n)
      BY <2>4, <2>6 DEF Candidates
    <3> QED BY <2>2, <2>3, <2>6, <3>1
  <2> QED BY <2>5, <2>6
<1>5. Nat \subseteq S
  <2> HIDE DEF S
  <2> QED BY <1>3, <1>4, SetInduction
<1> QED BY <1>1, <1>2, <1>5 DEF m

LEMMA FirstCount ==
  ASSUME NEW o \in Seq(Ids), IsInjective(o), NEW i \in 0..Len(o)
  PROVE  IsFiniteSet(First(o, i)) /\ Cardinality(First(o, i)) = i
<1> DEFINE s == [j \in 1..i |-> o[j]]
<1>1. \A j \in 1..i : j \in DOMAIN o /\ s[j] = o[j]
  OBVIOUS
<1>2. \A y : y \in First(o, i) <=> \E j \in 1..i : y = s[j]
  BY <1>1 DEF First
<1>3. s \in Bijection(1..i, First(o, i))
  <2>1. s \in [1..i -> First(o, i)]
    BY DEF First
  <2>2. \A j, k \in 1..i : s[j] = s[k] => j = k
    BY <1>1 DEF IsInjective
  <2> HIDE DEF s
  <2> QED BY <1>2, <2>1, <2>2 DEF Bijection, Injection, Surjection, IsInjective
<1>4. IsFiniteSet(1..i) /\ Cardinality(1..i) = i
  BY FS_Interval
<1>5. ExistsBijection(1..i, First(o, i))
  BY <1>3 DEF ExistsBijection
<1> QED BY <1>4, <1>5, FS_Bijection

LEMMA FirstFinite ==
  ASSUME NEW o \in Seq(Ids), NEW i \in 0..Len(o), NEW S \in SUBSET First(o, i)
  PROVE  IsFiniteSet(S)
<1> DEFINE s == [j \in 1..i |-> o[j]]
<1>1. IsFiniteSet(1..i)
  BY FS_Interval
<1>2. s \in Surjection(1..i, First(o, i))
  <2>1. \A j \in 1..i : s[j] = o[j]
    OBVIOUS
  <2>2. s \in [1..i -> First(o, i)]
    BY DEF First
  <2>3. \A y \in First(o, i) : \E j \in 1..i : s[j] = y
    BY <2>1 DEF First
  <2> HIDE DEF s
  <2> QED BY <2>2, <2>3 DEF Surjection
<1>3. IsFiniteSet(First(o, i))
  BY <1>1, <1>2, FS_Surjection
<1> QED BY <1>3, FS_Subset

\* Fewer to wait for, or more that does not count.
LEMMA InTimeLess ==
  ASSUME NEW o, NEW B, NEW W, NEW n, InTime(o, B, W, n), NEW V, V \subseteq W
  PROVE  InTime(o, B, V, n)
BY DEF InTime

\* What moves up is reached sooner.
LEMMA InTimeShifted ==
  ASSUME NEW o, NEW p, NEW C, Shifted(o, p, C), NEW B, NEW W, W \cap C = {}, NEW n \in Int,
         InTime(o, B, W, n)
  PROVE  InTime(p, B, W, n)
<1>1. PICK k \in 0..Len(o) : ShiftedBy(k, o, p, C)
  BY DEF Shifted
<1>2. o \in Seq(Ids) /\ p \in Seq(Ids) /\ Len(o) \in Nat /\ Len(p) \in Nat /\ k \in Nat
      /\ DOMAIN o = 1..Len(o) /\ DOMAIN p = 1..Len(p)
  BY DEF Shifted
<1>3. SUFFICES ASSUME NEW i \in 1..Len(p), p[i] \in W
               PROVE  Cardinality(First(p, i) \ B) <= n
  BY <1>2 DEF InTime
<1>4. \A j \in 1..Len(p) : /\ j <= Len(o) - k => j + k \in 1..Len(o) /\ p[j] = o[j + k]
                           /\ j > Len(o) - k => p[j] \in C
  BY <1>1 DEF ShiftedBy
<1>5. i <= Len(o) - k
  BY <1>2, <1>3, <1>4
<1>6. i + k \in 1..Len(o) /\ p[i] = o[i + k]
  BY <1>4, <1>5
<1>7. Cardinality(First(o, i + k) \ B) <= n
  BY <1>2, <1>3, <1>6 DEF InTime
<1>8. First(p, i) \subseteq First(o, i + k)
  <2> SUFFICES ASSUME NEW j \in 1..i PROVE p[j] \in First(o, i + k)
    BY DEF First
  <2>1. j \in 1..Len(p) /\ j <= Len(o) - k /\ j + k \in 1..(i + k)
    BY <1>2, <1>5
  <2>2. p[j] = o[j + k]
    BY <1>4, <2>1
  <2> QED BY <2>1, <2>2 DEF First
<1>9. IsFiniteSet(First(o, i + k) \ B)
  BY <1>2, <1>6, FirstFinite
<1>10. /\ Cardinality(First(p, i) \ B) <= Cardinality(First(o, i + k) \ B)
       /\ Cardinality(First(p, i) \ B) \in Nat /\ Cardinality(First(o, i + k) \ B) \in Nat
  BY <1>8, <1>9, FS_Subset, FS_CardinalityType
<1> QED BY <1>7, <1>10

\* At the gate: all that waits is within reach of as many as wait.
LEMMA InTimeAll ==
  ASSUME NEW o \in Seq(Ids), IsInjective(o), NEW W
  PROVE  InTime(o, {}, W, Len(o))
<1> SUFFICES ASSUME NEW i \in 1..Len(o) PROVE Cardinality(First(o, i)) <= Len(o)
  BY DEF InTime
<1> QED BY FirstCount

\* A batch is the first of those that wait.
LEMMA InTimeBatch ==
  ASSUME NEW o \in Seq(Ids), IsInjective(o), NEW W, NEW n \in Nat, InTime(o, {}, W, n),
         NEW m \in 0..Len(o), m <= n
  PROVE  InTime(o, First(o, m), W, n - m)
<1> SUFFICES ASSUME NEW i \in 1..Len(o), o[i] \in W
             PROVE  Cardinality(First(o, i) \ First(o, m)) <= n - m
  BY DEF InTime
<1>1. IsFiniteSet(First(o, i)) /\ Cardinality(First(o, i)) = i
  BY FirstCount
<1>2. i <= n
  <2>1. Cardinality(First(o, i) \ {}) <= n
    BY DEF InTime
  <2>2. First(o, i) \ {} = First(o, i)
    OBVIOUS
  <2> QED BY <1>1, <2>1, <2>2
<1>3. CASE i <= m
  <2>1. First(o, i) \ First(o, m) = {}
    BY <1>3 DEF First
  <2>2. Cardinality(First(o, i) \ First(o, m)) = 0
    BY <2>1, FS_EmptySet
  <2> QED BY <2>2
<1>4. CASE i > m
  <2>1. First(o, i) \cap First(o, m) = First(o, m)
    BY <1>4 DEF First
  <2>2. Cardinality(First(o, m)) = m
    BY FirstCount
  <2> DEFINE F == First(o, i)
             G == First(o, m)
  <2>3. Cardinality(F \ G) = i - m
    <3>1. IsFiniteSet(F) /\ Cardinality(F) = i /\ F \cap G = G /\ Cardinality(G) = m
      BY <1>1, <2>1, <2>2
    <3> HIDE DEF F, G
    <3>2. Cardinality(F \ G) = Cardinality(F) - Cardinality(F \cap G)
      BY ONLY <3>1, FS_Difference
    <3> QED BY <3>1, <3>2
  <2> QED BY <1>2, <2>3
<1> QED BY <1>3, <1>4

\* When nothing is left to reach, nobody of W is there.
LEMMA InTimeOver ==
  ASSUME NEW o \in Seq(Ids), IsInjective(o), NEW W, NEW n, n <= 0, n \in Int, InTime(o, {}, W, n)
  PROVE  W \cap ToSet(o) = {}
<1> SUFFICES ASSUME NEW i \in 1..Len(o), o[i] \in W PROVE FALSE
  BY DEF ToSet
<1>1. Cardinality(First(o, i)) = i
  BY FirstCount
<1>2. Cardinality(First(o, i) \ {}) <= n
  BY DEF InTime
<1>3. First(o, i) \ {} = First(o, i)
  OBVIOUS
<1> QED BY <1>1, <1>2, <1>3

\* What is chosen keeps its order.
InPlace(q, S, n, s) ==
  \A j \in 1..Len(s) : \E i \in 1..n : s[j] = q[i] /\ First(s, j) \subseteq First(q, i) \cap S

LEMMA AmongInPlace ==
  ASSUME NEW q \in Seq(Ids), NEW S
  PROVE  InPlace(q, S, Len(q), Among(q, S)) /\ Among(q, S) \in Seq(Ids)
<1> DEFINE m == Len(q)
<1>1. PICK f : AmongBy(q, S, f)
  BY AmongSteps
<1>2. /\ m \in Nat /\ f \in [0..m -> Seq(Ids)] /\ f[0] = <<>> /\ Among(q, S) = f[m]
      /\ \A n \in 1..m : f[n] = Chosen(f[n - 1], q[n], S) /\ q[n] \in Ids
  BY <1>1 DEF AmongBy
<1> DEFINE R == {n \in Nat : n <= m => InPlace(q, S, n, f[n]) /\ ToSet(f[n]) \subseteq First(q, n) \cap S}
<1> HIDE DEF m
<1>3. 0 \in R
  <2>1. Len(<<>>) = 0 /\ ToSet(<<>>) = {}
    BY DEF ToSet
  <2> QED BY <1>2, <2>1 DEF InPlace
<1>4. ASSUME NEW n \in Nat, n \in R PROVE n + 1 \in R
  <2> SUFFICES ASSUME n + 1 <= m
               PROVE  /\ InPlace(q, S, n + 1, f[n + 1])
                      /\ ToSet(f[n + 1]) \subseteq First(q, n + 1) \cap S
    OBVIOUS
  <2> DEFINE s == f[n]
             x == q[n + 1]
             t == f[n + 1]
  <2>1. n + 1 \in 1..m /\ (n + 1) - 1 = n /\ n \in 0..m
    BY <1>2
  <2>2. s \in Seq(Ids) /\ x \in Ids /\ t = Chosen(s, x, S) /\ Len(s) \in Nat
    BY <1>2, <2>1
  <2>3. InPlace(q, S, n, s) /\ ToSet(s) \subseteq First(q, n) \cap S
    BY <1>4, <2>1
  <2>4. First(q, n) \subseteq First(q, n + 1) /\ x \in First(q, n + 1)
    BY DEF First
  <2> HIDE DEF s, x, t
  <2>5. ToSet(t) \subseteq First(q, n + 1) \cap S
    <3>1. ToSet(t) = ToSet(s) \cup ({x} \cap S)
      <4>1. ToSet(Chosen(s, x, S)) = ToSet(s) \cup ({x} \cap S)
        <5>1. s \in Seq(Ids) /\ x \in Ids
          BY <2>2
        <5> QED BY ONLY <5>1, ChosenFacts
      <4> QED BY <2>2, <4>1
    <3> QED BY <2>3, <2>4, <3>1
  <2>6. CASE x \in S
    <3>1. t = Append(s, x)
      BY <2>2, <2>6 DEF Chosen
    <3>2. Len(t) = Len(s) + 1 /\ t[Len(s) + 1] = x /\ \A j \in 1..Len(s) : t[j] = s[j]
      BY <2>2, <3>1
    <3>3. \A j \in 1..Len(s) : First(t, j) = First(s, j)
      BY <2>2, <3>2 DEF First
    <3>4. ASSUME NEW j \in 1..Len(s)
          PROVE  \E i \in 1..(n + 1) : t[j] = q[i] /\ First(t, j) \subseteq First(q, i) \cap S
      <4>1. PICK i \in 1..n : s[j] = q[i] /\ First(s, j) \subseteq First(q, i) \cap S
        BY <2>3 DEF InPlace
      <4>2. i \in 1..(n + 1)
        OBVIOUS
      <4> QED BY <3>2, <3>3, <4>1, <4>2
    <3>5. First(t, Len(s) + 1) \subseteq First(q, n + 1) \cap S
      <4>1. First(t, Len(s) + 1) \subseteq ToSet(t)
        <5>1. DOMAIN t = 1..(Len(s) + 1)
          BY <2>2, <3>1
        <5> QED BY <5>1 DEF First, ToSet
      <4> QED BY <2>5, <4>1
    <3>6. \A j \in 1..Len(t) : j \in 1..Len(s) \/ j = Len(s) + 1
      BY <2>2, <3>2
    <3>7. n + 1 \in 1..(n + 1) /\ t[Len(s) + 1] = q[n + 1]
      BY <3>2 DEF x
    <3>8. InPlace(q, S, n + 1, t)
      BY ONLY <3>4, <3>5, <3>6, <3>7 DEF InPlace
    <3> QED BY <2>5, <3>8 DEF t
  <2>7. CASE x \notin S
    <3>1. t = s
      BY <2>2, <2>7 DEF Chosen
    <3>2. \A i \in 1..n : i \in 1..(n + 1)
      OBVIOUS
    <3>3. InPlace(q, S, n + 1, t)
      BY ONLY <2>3, <3>1, <3>2 DEF InPlace
    <3> QED BY <2>5, <3>3 DEF t
  <2> QED BY <2>6, <2>7
<1>5. Nat \subseteq R
  <2> HIDE DEF R
  <2> QED BY <1>3, <1>4, SetInduction
<1> QED BY <1>2, <1>5 DEF m

\* Without the batch, what waits is reached with what is left.
LEMMA InTimeWithout ==
  ASSUME NEW q \in Seq(Ids), NEW B, NEW W, NEW n \in Int, InTime(q, B, W, n)
  PROVE  InTime(Among(q, ToSet(q) \ B), {}, W, n)
<1> DEFINE S == ToSet(q) \ B
           s == Among(q, S)
<1>1. InPlace(q, S, Len(q), s) /\ s \in Seq(Ids)
  BY AmongInPlace
<1>2. DOMAIN s = 1..Len(s) /\ DOMAIN q = 1..Len(q)
  BY <1>1
<1>3. \A T : T \cap S \subseteq T \ B
  OBVIOUS
<1> HIDE DEF S, s
<1>4. ASSUME NEW j \in 1..Len(s), s[j] \in W PROVE Cardinality(First(s, j) \ {}) <= n
  <2>1. PICK i \in 1..Len(q) : s[j] = q[i] /\ First(s, j) \subseteq First(q, i) \cap S
    BY <1>1 DEF InPlace
  <2>2. Cardinality(First(q, i) \ B) <= n
    BY <1>2, <1>4, <2>1 DEF InTime
  <2>3. IsFiniteSet(First(q, i) \ B)
    BY FirstFinite
  <2>4. First(s, j) \ {} \subseteq First(q, i) \ B
    BY <1>3, <2>1
  <2>5. /\ Cardinality(First(s, j) \ {}) <= Cardinality(First(q, i) \ B)
        /\ Cardinality(First(s, j) \ {}) \in Nat /\ Cardinality(First(q, i) \ B) \in Nat
    BY <2>3, <2>4, FS_Subset, FS_CardinalityType
  <2> QED BY <2>2, <2>5
<1> QED BY <1>2, <1>4 DEF InTime, s, S

\* What the drain has still to deliver.
Owed == due \ (db \cup evicted)
Busy == flush[Drainer].pc \in {"take", "archive", "apply"} /\ ~flush[Drainer].err
Draining ==
  /\ due \subseteq Pending \cup evicted \cup db
  /\ Busy => InTime(InOrder, ToSet(flush[Drainer].batch), Owed,
                    flush[Drainer].left - Len(flush[Drainer].batch))
  /\ flush[Drainer].pc \in {"gate", "take"} => flush[Drainer].batch = <<>>
  /\ Busy /\ flush[Drainer].pc = "apply" => flush[Drainer].ok = ToSet(flush[Drainer].batch)
  /\ flush[Drainer].pc = "end" /\ ~flush[Drainer].err /\ flush[Drainer].left = 0 => Owed = {}

LEMMA DrainerIs == Drainer \in Flushers /\ Sweeper \in Flushers /\ Drainer # Sweeper
      /\ \A p \in Flushers : p = Drainer \/ p = Sweeper
BY DEF Flushers, Drainer, Sweeper

LEMMA OwedFacts ==
  ASSUME ArchiveInv, Draining
  PROVE  /\ Owed \subseteq Pending
         /\ InOrder \in Seq(Ids) /\ Len(InOrder) = Len(slots) /\ Len(slots) \in Nat
         /\ ToSet(InOrder) = Pending /\ IsInjective(InOrder)
         /\ flush \in [Flushers -> FlushRecord] /\ flush[Drainer] \in FlushRecord
         /\ flush[Drainer].left \in Nat /\ flush[Drainer].batch \in Seq(Ids)
         /\ Len(flush[Drainer].batch) \in Nat
<1>1. Owed \subseteq Pending
  BY DEF Draining, Owed
<1>2. flush \in [Flushers -> FlushRecord] /\ flush[Drainer].left \in Nat /\ flush[Drainer].batch \in Seq(Ids)
  BY FlushFacts, DrainerIs
<1>3. /\ InOrder \in Seq(Ids) /\ Len(InOrder) = Len(slots) /\ Len(slots) \in Nat
      /\ ToSet(InOrder) = Pending /\ IsInjective(InOrder)
  BY TypeFacts, InOrderFacts DEF ArchiveInv
<1> QED BY <1>1, <1>2, <1>3, DrainerIs

\* The ring is as it was, or what it has got since comes last.
LEMMA ChangeShifts ==
  ASSUME ArchiveInv, Draining, NEW R, NEW N, Changes(R, N)
  PROVE  \E C : Shifted(InOrder, InOrder', C) /\ Owed \cap C = {}
<1>1. Queue \in Queues /\ R \in Seq(Target)
  BY TypeFacts DEF ArchiveInv, Changes
<1> DEFINE q == QueueAfter(R)
           C == Candidates(R, Len(R))
<1>2. Shifted(Order(Queue), Order(q), C)
  BY <1>1, RetireShifts
<1>3. slots' = q.slots /\ head' = q.head
  BY DEF Changes, Retire
<1>4. Order(Queue) = InOrder
  BY DEF Order, Queue, InOrder
<1>5. C \cap (Pending \cup evicted) = {}
  <2> SUFFICES ASSUME NEW j \in 1..Len(R) PROVE R[j].id \notin Pending \cup evicted
    BY DEF Candidates
  <2>1. R[j] \in ToSet(R)
    BY <1>1 DEF ToSet
  <2>2. R[j].id \in LiveIds \/ R[j].id = next
    BY <2>1 DEF Changes, IdsIn
  <2>3. next \notin Pending \cup evicted
    BY DEF ArchiveInv, Places, TypeOK
  <2> QED BY <2>2, <2>3 DEF ArchiveInv, Places
<1> HIDE DEF q, C
<1>6. InOrder' = Order(q)
  BY <1>3 DEF InOrder, Order
<1>7. Owed \cap C = {}
  BY <1>5, OwedFacts
<1> QED BY <1>2, <1>4, <1>6, <1>7

\* The drain rests while others work.
LEMMA DrainRests ==
  ASSUME ArchiveInv, Draining, Moves, flush'[Drainer] = flush[Drainer], due' = due,
         Busy => \E C : Shifted(InOrder, InOrder', C) /\ Owed \cap C = {}
  PROVE  Draining'
<1>1. due' \subseteq Pending' \cup evicted' \cup db'
  BY DEF Moves, Draining
<1>2. Owed' \subseteq Owed
  BY DEF Moves, Owed
<1> DEFINE f == flush[Drainer]
           n == f.left - Len(f.batch)
           B == ToSet(f.batch)
<1>3. n \in Int
  BY OwedFacts
<1>4. ASSUME Busy PROVE InTime(InOrder', B, Owed', n)
  <2>1. PICK C : Shifted(InOrder, InOrder', C) /\ Owed \cap C = {}
    BY <1>4
  <2>2. InTime(InOrder, B, Owed, n)
    BY <1>4 DEF Draining
  <2> HIDE DEF n, B
  <2>3. InTime(InOrder', B, Owed, n)
    BY ONLY <1>3, <2>1, <2>2, InTimeShifted
  <2> QED BY ONLY <1>2, <2>3, InTimeLess
<1>5. Busy' => Busy
  BY DEF Busy
<1> HIDE DEF n, B
<1>6. Busy' => InTime(InOrder', ToSet(flush'[Drainer].batch), Owed',
                      flush'[Drainer].left - Len(flush'[Drainer].batch))
  BY <1>4, <1>5 DEF n, B
<1> QED BY <1>1, <1>2, <1>5, <1>6 DEF Draining, Busy

LEMMA RingRests ==
  ASSUME ArchiveInv, Draining, UNCHANGED <<slots, head>>
  PROVE  \E C : Shifted(InOrder, InOrder', C) /\ Owed \cap C = {}
<1>1. InOrder' = InOrder
  BY DEF InOrder
<1>2. Shifted(InOrder, InOrder, {})
  BY OwedFacts, NotShifted
<1> QED BY <1>1, <1>2

\* It passes the gate.
LEMMA DrainEnters ==
  ASSUME ArchiveInv, Draining, Moves, Enter(Drainer)
  PROVE  Draining'
<1> DEFINE f == flush[Drainer]
<1>1. UNCHANGED <<slots, head, evicted, db, due>> /\ f.pc = "gate"
  BY DEF Enter, At, queue
<1>2. due' \subseteq Pending' \cup evicted' \cup db' /\ Owed' = Owed /\ InOrder' = InOrder
  BY <1>1 DEF Moves, Draining, Owed, InOrder
<1>3. f.batch = <<>>
  BY <1>1 DEF Draining
<1>4. CASE flush' = [flush EXCEPT ![Drainer] = IdleFlush]
  <2>1. flush'[Drainer].pc = "idle"
    BY <1>4, OwedFacts, DrainerIs, IdleIsRecord
  <2> QED BY <1>2, <2>1 DEF Draining, Busy
<1>5. CASE flush' = [flush EXCEPT ![Drainer].pc = "take", ![Drainer].left = Left(Drainer)]
  <2>1. flush \in [Flushers -> FlushRecord] /\ Drainer \in Flushers
    BY OwedFacts, DrainerIs
  <2>2. /\ flush'[Drainer].pc = "take" /\ flush'[Drainer].left = Left(Drainer)
        /\ flush'[Drainer].batch = f.batch
    BY ONLY <1>5, <2>1 DEF FlushRecord
  <2>3. Left(Drainer) = Len(slots) /\ Len(slots) - 0 = Len(InOrder)
    BY OwedFacts DEF Left
  <2>4. InTime(InOrder, {}, Owed, Len(InOrder))
    BY OwedFacts, InTimeAll
  <2>5. ToSet(<<>>) = {} /\ Len(<<>>) = 0
    BY DEF ToSet
  <2>6. InTime(InOrder', ToSet(flush'[Drainer].batch), Owed',
               flush'[Drainer].left - Len(flush'[Drainer].batch))
    BY <1>2, <1>3, <2>2, <2>3, <2>4, <2>5
  <2> QED BY <1>2, <1>3, <2>2, <2>6 DEF Draining, Busy
<1> QED BY <1>4, <1>5 DEF Enter

\* It takes a batch.
LEMMA DrainTakes ==
  ASSUME ArchiveInv, Draining, Moves, Take(Drainer)
  PROVE  Draining'
<1> DEFINE f == flush[Drainer]
           m == Lesser(Len(slots), Lesser(BatchSize, f.left))
           batch == SubSeq(InOrder, 1, m)
<1>1. UNCHANGED <<slots, head, evicted, db, due>> /\ f.pc = "take"
  BY DEF Take, At, queue
<1>2. due' \subseteq Pending' \cup evicted' \cup db' /\ Owed' = Owed /\ InOrder' = InOrder
  BY <1>1 DEF Moves, Draining, Owed, InOrder
<1>3. f.batch = <<>> /\ f.left \in Nat
  BY <1>1, OwedFacts DEF Draining
<1>4. ToSet(<<>>) = {} /\ Len(<<>>) = 0
  BY DEF ToSet
<1>5. ~f.err => InTime(InOrder, {}, Owed, f.left)
  <2>1. f.left - 0 = f.left
    BY <1>3
  <2> QED BY <1>1, <1>3, <1>4, <2>1 DEF Draining, Busy
<1>6. m \in 0..Len(InOrder) /\ m <= f.left
  <2>1. Len(slots) \in Nat /\ BatchSize \in Nat /\ f.left \in Nat /\ Len(InOrder) = Len(slots)
    BY OwedFacts, FPVArchiveAssumption
  <2> QED BY <2>1 DEF Lesser
<1>7. flush' = IF batch = <<>> THEN [flush EXCEPT ![Drainer].pc = "end"]
                               ELSE [flush EXCEPT ![Drainer].pc = "archive", ![Drainer].batch = batch]
  BY DEF Take
<1>8. InOrder \in Seq(Ids) /\ IsInjective(InOrder) /\ Len(InOrder) \in Nat
  BY OwedFacts
<1> HIDE DEF m
<1>9. ToSet(batch) = First(InOrder, m) /\ Len(batch) = m /\ batch \in Seq(Ids)
  <2>1. 1 \in 1..(Len(InOrder) + 1) /\ m \in 0..Len(InOrder) /\ 1 <= m + 1 /\ m - 1 + 1 = m
    BY <1>6, <1>8
  <2>2. /\ batch \in Seq(Ids) /\ Len(batch) = m - 1 + 1 /\ DOMAIN batch = 1..(m - 1 + 1)
        /\ \A i \in 1..(m - 1 + 1) : batch[i] = InOrder[1 + i - 1] /\ 1 + i - 1 \in 1..Len(InOrder)
    BY ONLY <1>8, <2>1, Section
  <2> HIDE DEF batch
  <2>3. \A i \in 1..m : batch[i] = InOrder[i]
    BY <1>6, <2>1, <2>2
  <2>4. DOMAIN batch = 1..m
    BY <2>1, <2>2
  <2>5. ToSet(batch) = {batch[i] : i \in 1..m}
    BY <2>4 DEF ToSet
  <2> QED BY <2>1, <2>2, <2>3, <2>5 DEF First
<1>10. flush \in [Flushers -> FlushRecord] /\ Drainer \in Flushers
  BY OwedFacts, DrainerIs
<1> HIDE DEF batch
<1>11. CASE batch = <<>>
  <2>1. flush' = [flush EXCEPT ![Drainer].pc = "end"]
    BY <1>7, <1>11
  <2>2. flush'[Drainer].pc = "end" /\ flush'[Drainer].left = f.left /\ flush'[Drainer].err = f.err
    BY ONLY <1>10, <2>1 DEF FlushRecord
  <2>3. ASSUME ~f.err, f.left = 0 PROVE Owed = {}
    <3>1. InTime(InOrder, {}, Owed, 0)
      BY <1>5, <2>3
    <3>2. Owed \cap ToSet(InOrder) = {}
      BY ONLY <1>8, <3>1, InTimeOver
    <3> QED BY <3>2, OwedFacts
  <2> QED BY <1>2, <2>2, <2>3 DEF Draining, Busy
<1>12. CASE batch # <<>>
  <2>1. flush' = [flush EXCEPT ![Drainer].pc = "archive", ![Drainer].batch = batch]
    BY <1>7, <1>12
  <2>2. /\ flush'[Drainer].pc = "archive" /\ flush'[Drainer].left = f.left
        /\ flush'[Drainer].batch = batch /\ flush'[Drainer].err = f.err
    BY ONLY <1>9, <1>10, <2>1 DEF FlushRecord
  <2>3. ~f.err => InTime(InOrder, ToSet(batch), Owed, f.left - Len(batch))
    <3>1. ~f.err => InTime(InOrder, First(InOrder, m), Owed, f.left - m)
      BY <1>3, <1>5, <1>6, <1>8, InTimeBatch
    <3> QED BY <1>9, <3>1
  <2> QED BY <1>2, <2>2, <2>3 DEF Draining, Busy
<1> QED BY <1>11, <1>12

\* It archives the batch.
LEMMA DrainArchives ==
  ASSUME ArchiveInv, Draining, Moves, Archive(Drainer)
  PROVE  Draining'
<1> DEFINE f == flush[Drainer]
<1>1. UNCHANGED <<slots, head, evicted, due>> /\ f.pc = "archive"
  BY DEF Archive, At, queue
<1>2. due' \subseteq Pending' \cup evicted' \cup db' /\ Owed' \subseteq Owed /\ InOrder' = InOrder
  BY <1>1 DEF Moves, Draining, Owed, InOrder
<1>3. PICK ok \in SUBSET (ToSet(f.batch) \ Refused) :
        flush' = [flush EXCEPT ![Drainer].pc = "apply", ![Drainer].ok = ok, ![Drainer].tried = TRUE,
                               ![Drainer].err = @ \/ ok # ToSet(f.batch)]
  BY DEF Archive
<1>4. flush \in [Flushers -> FlushRecord] /\ Drainer \in Flushers
  BY OwedFacts, DrainerIs
<1> DEFINE bad == f.err \/ ok # ToSet(f.batch)
<1>5. flush' = [flush EXCEPT ![Drainer].pc = "apply", ![Drainer].ok = ok, ![Drainer].tried = TRUE,
                             ![Drainer].err = bad]
  BY <1>3, <1>4
<1> HIDE DEF bad
<1>6. /\ flush'[Drainer].pc = "apply" /\ flush'[Drainer].ok = ok /\ flush'[Drainer].err = bad
      /\ flush'[Drainer].batch = f.batch /\ flush'[Drainer].left = f.left
  BY ONLY <1>4, <1>5 DEF FlushRecord
<1>7. ~bad => ~f.err /\ ok = ToSet(f.batch)
  BY DEF bad
<1>8. ~f.err => InTime(InOrder, ToSet(f.batch), Owed', f.left - Len(f.batch))
  <2>1. ~f.err => InTime(InOrder, ToSet(f.batch), Owed, f.left - Len(f.batch))
    BY <1>1 DEF Draining, Busy
  <2> QED BY ONLY <1>2, <2>1, InTimeLess
<1> QED BY <1>2, <1>6, <1>7, <1>8 DEF Draining, Busy

\* It takes what succeeded out of the ring.
LEMMA DrainApplies ==
  ASSUME ArchiveInv, Draining, Moves, Apply(Drainer)
  PROVE  Draining'
<1> DEFINE f == flush[Drainer]
           left == f.left - Len(f.batch)
           B == ToSet(f.batch)
<1>1. UNCHANGED <<evicted, db, due>> /\ f.pc = "apply" /\ head' = 0
      /\ slots' = RetryLast(InOrder, f.ok, B \ f.ok)
  BY DEF Apply, At, HeadAfter
<1>2. due' \subseteq Pending' \cup evicted' \cup db' /\ Owed' = Owed
  BY <1>1 DEF Moves, Draining, Owed
<1>3. PICK stop \in BOOLEAN :
        flush' = [flush EXCEPT
               ![Drainer].pc = IF Drainer = Drainer /\ ~stop /\ left > 0 THEN "take" ELSE "end",
               ![Drainer].left = left, ![Drainer].batch = <<>>, ![Drainer].ok = {}]
  BY DEF Apply
<1> DEFINE pc == IF ~stop /\ left > 0 THEN "take" ELSE "end"
<1>4. flush' = [flush EXCEPT ![Drainer].pc = pc, ![Drainer].left = left, ![Drainer].batch = <<>>,
                             ![Drainer].ok = {}]
  BY <1>3
<1>5. flush \in [Flushers -> FlushRecord] /\ Drainer \in Flushers
  BY OwedFacts, DrainerIs
<1>6. left \in Int
  BY OwedFacts
<1>7. pc \in {"take", "end"}
  OBVIOUS
<1> HIDE DEF left, pc
<1>8. /\ flush'[Drainer].pc = pc /\ flush'[Drainer].left = left /\ flush'[Drainer].batch = <<>>
      /\ flush'[Drainer].err = f.err
  BY ONLY <1>4, <1>5 DEF FlushRecord
<1>9. ASSUME ~f.err
      PROVE  InTime(InOrder', {}, Owed, left) /\ (left = 0 => Owed = {})
  <2>1. InTime(InOrder, B, Owed, left) /\ f.ok = B
    BY <1>1, <1>9 DEF Draining, Busy, left
  <2>2. InOrder \in Seq(Ids) /\ IsInjective(InOrder)
    BY OwedFacts
  <2> DEFINE rest == Among(InOrder, ToSet(InOrder) \ B)
  <2>3. slots' = rest
    <3>1. B \ f.ok = {} /\ ToSet(InOrder) \ (f.ok \cup (B \ f.ok)) = ToSet(InOrder) \ B
      BY <2>1
    <3>2. slots' = rest \o Among(InOrder, {})
      BY <1>1, <3>1 DEF RetryLast
    <3>3. rest \in Seq(Ids) /\ Among(InOrder, {}) \in Seq(Ids) /\ ToSet(Among(InOrder, {})) = {}
      <4>1. (ToSet(InOrder) \ B) \cap {} = {} /\ {} \cap {} = {}
        OBVIOUS
      <4>2. Among(InOrder, {}) \in Seq(Ids) /\ ToSet(Among(InOrder, {})) = ToSet(InOrder) \cap {}
        BY ONLY <2>2, <4>1, AmongFacts
      <4>3. rest \in Seq(Ids)
        BY <2>2, AmongInPlace
      <4> QED BY <4>2, <4>3
    <3> DEFINE none == Among(InOrder, {})
    <3> HIDE DEF rest, none
    <3>4. none = <<>>
      <4>1. none \in Seq(Ids) /\ ToSet(none) = {}
        BY <3>3 DEF none
      <4>2. \A i \in 1..Len(none) : none[i] \in ToSet(none)
        BY <4>1 DEF ToSet
      <4> QED BY <4>1, <4>2
    <3>5. slots' = rest \o none
      BY <3>2 DEF none
    <3> QED BY ONLY <3>3, <3>4, <3>5
  <2>4. InTime(rest, {}, Owed, left)
    BY ONLY <1>6, <2>1, <2>2, InTimeWithout
  <2> HIDE DEF rest
  <2>5. slots' \in Seq(Ids) /\ IsInjective(slots')
    BY ApplyFacts, DrainerIs
  <2>6. InOrder' = slots'
    <3> DEFINE s == slots'
               n == Len(s)
    <3> HIDE DEF s
    <3>1. s \in Seq(Ids) /\ n \in Nat /\ DOMAIN s = 1..n
      BY <2>5 DEF s
    <3>2. ASSUME NEW i \in 1..n PROVE ((0 + i - 1) % n) + 1 = i
      <4> DEFINE a == 0 + i - 1
      <4>1. n \in Nat \ {0} /\ a \in 0..(n + n - 1) /\ a < n
        BY <3>1
      <4>2. a % n = a
        <5> HIDE DEF n, a
        <5> QED BY <4>1, Around
      <4> QED BY <3>1, <4>2
    <3>3. InOrder' = [i \in DOMAIN s |-> s[((0 + i - 1) % Len(s)) + 1]]
      BY <1>1 DEF InOrder, s
    <3>4. s = [i \in 1..n |-> s[i]]
      BY <3>1
    <3> QED BY <3>1, <3>2, <3>3, <3>4 DEF s
  <2>7. InTime(InOrder', {}, Owed, left)
    BY <2>3, <2>4, <2>6
  <2>8. ASSUME left = 0 PROVE Owed = {}
    <3>1. InTime(rest, {}, Owed, 0) /\ rest \in Seq(Ids) /\ IsInjective(rest)
      BY <2>3, <2>4, <2>5, <2>8
    <3>2. Owed \cap ToSet(rest) = {}
      BY ONLY <3>1, InTimeOver
    <3>3. Owed \subseteq Pending' /\ Pending' = ToSet(rest)
      BY <1>2, <2>3 DEF Owed, Pending
    <3> QED BY <3>2, <3>3
  <2> QED BY <2>7, <2>8
<1>10. ToSet(<<>>) = {} /\ Len(<<>>) = 0 /\ left - 0 = left
  BY <1>6 DEF ToSet
<1>11. Busy' => InTime(InOrder', ToSet(flush'[Drainer].batch), Owed',
                       flush'[Drainer].left - Len(flush'[Drainer].batch))
  BY <1>2, <1>8, <1>9, <1>10 DEF Busy
<1> QED BY <1>2, <1>7, <1>8, <1>9, <1>11 DEF Draining, Busy

LEMMA DrainBegins ==
  ASSUME ArchiveInv, ArchiveInv', Draining, Moves, SomeDrain
  PROVE  Draining'
<1>1. PICK order \in Expired(Len(live)) : Drain(order)
  BY DEF SomeDrain
<1>2. due' = Pending \cup (LiveIds \cap valid) /\ live' = Remaining(Len(live)) /\ valid' = valid
      /\ flush' = [flush EXCEPT ![Drainer] = [IdleFlush EXCEPT !.pc = "gate"]]
  BY <1>1 DEF Drain, Prune
<1>3. LiveIds' = {}
  <2>1. live \in Seq(Target) /\ Len(live) \in Nat
    BY TypeFacts DEF ArchiveInv
  <2>2. live' = <<>>
    BY <1>2, <2>1 DEF Remaining
  <2> QED BY <2>2 DEF LiveIds
<1>4. due' \subseteq Pending' \cup evicted' \cup db'
  BY <1>2, <1>3 DEF Moves, ArchiveInv, Places
<1>5. flush'[Drainer].pc = "gate" /\ flush'[Drainer].batch = <<>>
  <2> DEFINE r == [IdleFlush EXCEPT !.pc = "gate"]
  <2>1. r.pc = "gate" /\ r.batch = <<>>
    BY DEF IdleFlush
  <2> HIDE DEF r
  <2>2. flush' = [flush EXCEPT ![Drainer] = r]
    BY <1>2 DEF r
  <2> QED BY <2>1, <2>2, OwedFacts, DrainerIs
<1> QED BY <1>4, <1>5 DEF Draining, Busy

LEMMA DrainingStep == ArchiveInv /\ ArchiveInv' /\ Draining /\ [Next]_vars => Draining'
<1> SUFFICES ASSUME ArchiveInv, ArchiveInv', Draining, [Next]_vars PROVE Draining'
  OBVIOUS
<1>1. Moves
  BY StepMoves
<1>2. CASE UNCHANGED <<slots, head, due>> /\ flush'[Drainer] = flush[Drainer]
  BY <1>1, <1>2, RingRests, DrainRests
<1>3. CASE Api
  <2>1. PICK R, N : \E a \in Actors : Changes(R, N) /\ UNCHANGED archive
    BY <1>3, ApiChanges
  <2> QED BY <1>1, <2>1, ChangeShifts, DrainRests DEF archive
<1>4. CASE SomeSweep
  <2>1. PICK k \in 0..Len(live) : \E order \in Expired(k) : Sweep(k, order)
    BY <1>4 DEF SomeSweep
  <2>2. PICK order \in Expired(k) : Sweep(k, order)
    BY <2>1
  <2>3. Changes(order, {})
    BY <2>2, PruneChanges, ActorsAreSomebody, DrainerIs DEF Sweep
  <2>4. flush'[Drainer] = flush[Drainer] /\ due' = due
    BY <2>2, OwedFacts, DrainerIs DEF Sweep
  <2> QED BY <1>1, <2>3, <2>4, ChangeShifts, DrainRests
<1>5. CASE SomeDrain
  BY <1>1, <1>5, DrainBegins
<1>6. CASE Elapse
  BY <1>2, <1>6 DEF Elapse, queue
<1>7. ASSUME NEW a \in Actors, Publish(a) PROVE Draining'
  BY <1>2, <1>7 DEF Publish, queue, archive
<1>8. CASE FlushStep(Sweeper)
  <2>1. flush'[Drainer] = flush[Drainer] /\ due' = due
    <3>1. flush \in [Flushers -> FlushRecord] /\ Drainer \in Flushers /\ Drainer # Sweeper
      BY OwedFacts, DrainerIs
    <3>2. CASE Enter(Sweeper)
      BY <3>1, <3>2 DEF Enter
    <3>3. CASE GiveUp(Sweeper)
      BY <3>1, <3>3 DEF GiveUp
    <3>4. CASE Take(Sweeper)
      BY <3>1, <3>4 DEF Take
    <3>5. CASE Archive(Sweeper)
      BY <3>1, <3>5 DEF Archive
    <3>6. CASE Apply(Sweeper)
      BY <3>1, <3>6 DEF Apply
    <3>7. CASE Finish(Sweeper)
      BY <3>1, <3>7 DEF Finish
    <3> QED BY <1>8, <3>2, <3>3, <3>4, <3>5, <3>6, <3>7 DEF FlushStep
  <2>2. CASE Apply(Sweeper)
    <3>1. ~Busy
      BY <2>2, OneAtWork, DrainerIs DEF Apply, At, Busy
    <3> QED BY <1>1, <2>1, <3>1, DrainRests
  <2>3. CASE ~Apply(Sweeper)
    <3>1. UNCHANGED <<slots, head>>
      BY <1>8, <2>3 DEF FlushStep, Enter, GiveUp, Take, Archive, Finish, queue
    <3> QED BY <1>2, <2>1, <3>1
  <2> QED BY <2>2, <2>3
<1>9. CASE FlushStep(Drainer)
  <2>1. CASE GiveUp(Drainer) \/ Finish(Drainer)
    <3>1. flush'[Drainer].pc = "idle"
      BY <2>1, OwedFacts, DrainerIs, IdleIsRecord DEF GiveUp, Finish
    <3>2. due' \subseteq Pending' \cup evicted' \cup db'
      BY <1>1, <2>1 DEF GiveUp, Finish, Moves, Draining
    <3> QED BY <3>1, <3>2 DEF Draining, Busy
  <2> QED BY <1>1, <1>9, <2>1, DrainEnters, DrainTakes, DrainArchives, DrainApplies DEF FlushStep
<1>10. CASE UNCHANGED vars
  BY <1>2, <1>10 DEF vars, queue, archive
<1> QED BY <1>3, <1>4, <1>5, <1>6, <1>7, <1>8, <1>9, <1>10, DrainerIs DEF Next

LEMMA DrainingStart == Init => Draining
<1> SUFFICES ASSUME Init PROVE Draining
  OBVIOUS
<1>1. due = {} /\ flush[Drainer] = IdleFlush
  BY DrainerIs DEF Init
<1> QED BY <1>1, IdleIsRecord DEF Draining, Busy

\* A drain that ends without an error and with nothing left to try has delivered what
\* was live or pending when it began, whatever signals, sweeps and retries the ring has
\* seen meanwhile (DrainFPV, applyFPVArchiveBatch), for any ring and any batch.
THEOREM DrainsDeliver == Spec => DrainDelivers
<1> DEFINE Ends == /\ flush[Drainer].pc \in {"gate", "end"} /\ At(Drainer, "idle")' /\ ~flush[Drainer].err
                   /\ flush[Drainer].left = 0 /\ UNCHANGED faults
<1>1. ASSUME ArchiveInv, Draining, Next, Ends PROVE due \subseteq db \cup evicted
  <2>1. flush[Drainer].pc # "idle" /\ flush'[Drainer].pc = "idle" /\ flush'[Drainer] # flush[Drainer]
    BY <1>1 DEF At
  <2>2. CASE flush[Drainer].pc = "end"
    BY <1>1, <2>2 DEF Draining, Owed
  <2>3. CASE flush[Drainer].pc = "gate"
    <3>1. flush \in [Flushers -> FlushRecord] /\ Drainer \in Flushers /\ faults \in Nat
      BY <1>1, OwedFacts, DrainerIs, FlushFacts DEF FlushTyped
    <3>2. ~Api /\ ~Elapse /\ \A a \in Actors : ~Publish(a)
      BY <1>1, <2>1, ApiChanges DEF Elapse, Publish, archive
    <3>3. ~SomeSweep
      BY <2>1, <3>1, DrainerIs DEF SomeSweep, Sweep
    <3>4. ~SomeDrain
      BY <2>1 DEF SomeDrain, Drain, At
    <3>5. ~FlushStep(Sweeper)
      <4>1. Drainer # Sweeper
        BY DrainerIs
      <4>2. ~Enter(Sweeper)
        BY <2>1, <3>1, <4>1 DEF Enter
      <4>3. ~GiveUp(Sweeper)
        BY <2>1, <3>1, <4>1 DEF GiveUp
      <4>4. ~Take(Sweeper)
        BY <2>1, <3>1, <4>1 DEF Take
      <4>5. ~Archive(Sweeper)
        BY <2>1, <3>1, <4>1 DEF Archive
      <4>6. ~Apply(Sweeper)
        BY <2>1, <3>1, <4>1 DEF Apply
      <4>7. ~Finish(Sweeper)
        BY <2>1, <3>1, <4>1 DEF Finish
      <4> QED BY <4>2, <4>3, <4>4, <4>5, <4>6, <4>7 DEF FlushStep
    <3>6. FlushStep(Drainer)
      BY <1>1, <3>2, <3>3, <3>4, <3>5, DrainerIs DEF Next
    <3>7. ~GiveUp(Drainer)
      BY <1>1, <3>1 DEF GiveUp, Fault
    <3>8. Enter(Drainer)
      BY <2>3, <3>6, <3>7 DEF FlushStep, Take, Archive, Apply, Finish, At
    <3>9. slots = <<>>
      <4> SUFFICES ASSUME slots # <<>> PROVE FALSE
        OBVIOUS
      <4>1. flush' = [flush EXCEPT ![Drainer].pc = "take", ![Drainer].left = Left(Drainer)]
        BY <3>8, DrainerIs DEF Enter
      <4>2. flush'[Drainer].pc = "take"
        BY ONLY <3>1, <4>1 DEF FlushRecord
      <4> QED BY <2>1, <4>2
    <3>10. Pending = {}
      BY <3>9 DEF Pending, ToSet
    <3> QED BY <1>1, <3>10 DEF Draining
  <2> QED BY <1>1, <2>2, <2>3
<1>2. ArchiveInv /\ Draining /\ [Next]_vars => [Ends => due \subseteq db \cup evicted]_vars
  BY <1>1
<1>3. Init => Draining
  BY DrainingStart
<1>4. ArchiveInv /\ ArchiveInv' /\ Draining /\ [Next]_vars => Draining'
  BY DrainingStep
<1> QED BY <1>2, <1>3, <1>4, Invariance, PTL DEF Spec, DrainDelivers
=============================================================================
