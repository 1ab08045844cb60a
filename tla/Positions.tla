----------------------------- MODULE Positions ------------------------------
(***************************************************************************)
(* The live list of positioning targets (internal/store), fed by the lines   *)
(* of the receiver and by the goroutines that have its encrypted DID packets *)
(* decoded elsewhere (internal/position, internal/diddecrypt).  One drone is *)
(* heard as RID, as an encrypted packet of which at first only a placeholder *)
(* is known, and as a decoded or named DID target, in any order, and has to  *)
(* stay one row.                                                            *)
(*                                                                         *)
(* A drone stands for its serial and for the id its packets are encrypted    *)
(* under; temp is that id used for want of a serial.  Its correlation is     *)
(* that id, or a uuid its sender gives, which other drones may share.        *)
(* plain is a model that says something.  Of the times only LastSeen is kept.*)
(* What the TTL removes goes to the archive and is not followed.             *)
(***************************************************************************)
EXTENDS Naturals, SequencesExt

CONSTANTS None, Drones, Uuids, MaxPositions, TTL, MaxTime, MaxLines
PositionConstants ==
  /\ MaxPositions \in Nat \ {0} /\ TTL \in Nat /\ MaxTime \in Nat
  /\ MaxLines \in Nat /\ None \notin Drones \cup Uuids /\ Drones \cap Uuids = {}
  /\ None \notin [temp : BOOLEAN, plain : BOOLEAN]

VARIABLES
  positions,  \* Store.positions
  line,       \* the placeholder IngestLine has checked and is about to add
  jobs,       \* the packets being decoded, when they were received and what
              \* has come back
  crossed,    \* history: the drones whose reports crossed, see Crosses, or of
              \* which a result named no serial
  now,        \* bound: the clock, up to MaxTime
  lines       \* bound: lines so far, up to MaxLines

vars == <<positions, line, jobs, crossed, now, lines>>

Target(corr, d, temp, plain, did, cracked, at) ==
  [corr |-> corr, drone |-> d, temp |-> temp, plain |-> plain, did |-> did,
   cracked |-> cracked, seen |-> at]
Targets ==
  [corr : Drones \cup Uuids \cup {None}, drone : Drones, temp : BOOLEAN, plain : BOOLEAN,
   did : BOOLEAN, cracked : BOOLEAN, seen : 0..MaxTime]

Init ==
  /\ positions = <<>> /\ line = None /\ jobs = {} /\ crossed = {}
  /\ now = 0 /\ lines = 0
------------------------------------------------------------------------------
(* What the store takes for the same drone, and what it keeps of two reports.*)

\* isUncrackedDIDScreenPosition and isDecodedDIDTarget.
Placeholder(t) == ~t.cracked /\ t.corr # None /\ t.did /\ ~t.plain
Decoded(t) ==
  t.cracked /\ t.corr # None /\ t.did /\ ~t.temp /\ t.plain

Same(a, b) ==
  /\ Placeholder(a) = Placeholder(b)
  /\ \/ a.corr # None /\ a.corr = b.corr
     \/ a.drone = b.drone /\ a.temp = b.temp

\* shouldKeepDecodedPositionFields; the correlation has been taken over when it
\* is asked, so that any incoming one matches.
KeepDecoded(a, b) ==
  /\ a.cracked /\ ~b.cracked
  /\ b.corr # None \/ (a.drone = b.drone /\ a.temp = b.temp)

\* preferredPositionSerial: the incoming one ...
TakeSerial(a, b) ==
  \/ ~a.cracked /\ b.cracked
  \/ a.did /\ a.temp /\ ~(b.did /\ b.temp)
  \/ ~a.plain /\ b.plain

Later(a, b) == IF a >= b THEN a ELSE b
Merge(a, b) ==
  LET keep == KeepDecoded(a, b)
      s == IF ~keep /\ TakeSerial(a, b) THEN b ELSE a
  IN Target(IF b.corr = None THEN a.corr ELSE b.corr, s.drone, s.temp,
            a.plain \/ (~keep /\ b.plain), IF keep THEN a.did ELSE b.did,
            a.cracked \/ (~keep /\ b.cracked), Later(a.seen, b.seen))

------------------------------------------------------------------------------
(* AddPosition.                                                              *)

\* prunePositionsLocked, target by target.
KeepLive(list, t, at) == IF at <= t.seen + TTL THEN Append(list, t) ELSE list
Prune(list, at) ==
  LET upTo[n \in 0..Len(list)] ==
        IF n = 0 THEN <<>> ELSE KeepLive(upTo[n - 1], list[n], at)
  IN upTo[Len(list)]

\* Where a search that takes the first it finds ends, 0 if it finds none.
First(found) == IF found = {} THEN 0 ELSE Min(found)

\* findDIDPlaceholderLocked and absorbDecodedDIDPlaceholderLocked: a decoded
\* target takes over what stood for it until now.
Stand(c, t) ==
  t.corr = c /\ (~t.cracked \/ (t.did /\ t.temp) \/ ~t.plain)
AbsorbAt(list, t) ==
  IF Decoded(t) THEN First({i \in DOMAIN list : Stand(t.corr, list[i])}) ELSE 0

\* Mutant: only a list twice as long is trimmed.
TrimLate(list) ==
  IF Len(list) <= 2 * MaxPositions THEN {list}
  ELSE {SubSeq(list, 1, MaxPositions)}

\* trimNewestPositions sorts a list that is too long, the latest seen first and
\* those seen at one time in any order, and keeps the first of it.
Newest(list) ==
  {p \in [DOMAIN list -> DOMAIN list] : \A i, k \in DOMAIN list :
     i < k => p[i] # p[k] /\ list[p[i]].seen >= list[p[k]].seen}
Trim(list) ==
  IF Len(list) <= MaxPositions THEN {list}
  ELSE {[i \in 1..MaxPositions |-> list[p[i]]] : p \in Newest(list)}

Put(list, t) ==
  LET i == First({k \in DOMAIN list : Same(list[k], t)})
  IN IF i = 0 THEN Trim(Append(list, t))
     ELSE {[list EXCEPT ![i] = Merge(@, t)]}

Add(list, t) ==
  LET live == Prune(list, t.seen)
      a == AbsorbAt(live, t)
  IN IF a = 0 THEN Put(live, t)
     ELSE Put(RemoveAt(live, a), Merge(live[a], t))
------------------------------------------------------------------------------
(* IngestLine.                                                              *)

Line == lines < MaxLines /\ lines' = lines + 1

Job(d) == [drone |-> d, at |-> now, result |-> None]
Decode(d) == jobs' = jobs \cup {Job(d)}

\* What a line says of a drone: an RID line with a model or without, a GB46750
\* line likewise, and a dji_O line that names the serial, with a model or not.
\* One of link 4 is cracked only with coordinates, which the short form lacks,
\* and has the correlation of the packet it carries.  Without a packet it has
\* the sender's uuid, as any short form has, or none.
RIDTargets(d) ==
  {Target(None, d, FALSE, plain, FALSE, TRUE, now) : plain \in BOOLEAN}
GB46750Targets(d) == RIDTargets(d)

Correlations(d, packet) == IF packet THEN {d} ELSE Uuids \cup {None}
Saying(d, packet) ==
  [corr : Correlations(d, packet), drone : {d}, temp : {FALSE}, plain : BOOLEAN,
   did : BOOLEAN, cracked : BOOLEAN, seen : {now}]
SerialOnlyTargets(d, packet) ==
  {t \in Saying(d, packet) : t.cracked # t.did /\ (packet => t.did)}
DJITargets(d, packet) ==
  {t \in Saying(d, packet) : t.did} \cup IF packet THEN {} ELSE RIDTargets(d)

\* What the reports of one drone, or of two, can do to each other.  A placeholder
\* slips in between the two steps of a goroutine; a uuid stands for two drones;
\* a drone of no known model has a line with a packet and one with a uuid,
\* which merge for their serial.
SlipsIn(t) == Placeholder(t) /\ \E j \in jobs : j.drone = t.corr /\ j.result # None
Sharing(t) ==
  {d \in Drones \ {t.drone} : t.corr # None /\
     \E i \in DOMAIN positions : positions[i].corr = t.corr /\ positions[i].drone = d}
Unnamed(t) ==
  /\ Placeholder(t) /\ ~t.temp
  /\ \E i \in DOMAIN positions : LET a == positions[i] IN
       /\ Placeholder(a) /\ ~a.temp /\ a.drone = t.drone
       /\ a.corr # t.corr /\ t.drone \in {a.corr, t.corr}
Crosses(t) ==
  crossed' = crossed \cup Sharing(t) \cup
    IF SlipsIn(t) \/ Unnamed(t) \/ Sharing(t) # {} THEN {t.drone} ELSE {}

HasCracked(list, c) ==
  \E i \in DOMAIN list : list[i].corr = c /\ list[i].cracked

RID ==
  /\ line = None /\ Line
  /\ \E d \in Drones : \E t \in RIDTargets(d) \cup GB46750Targets(d) :
       positions' \in Add(positions, t)
  /\ UNCHANGED <<line, jobs, crossed, now>>

\* One whose model is the placeholders' is not added when what it stands for has
\* been decoded; others with no model are.  A packet is sent off at the end.
Skips(t) ==
  /\ Placeholder(t) /\ positions' = Prune(positions, now)
  /\ HasCracked(Prune(positions, now), t.corr)
  /\ UNCHANGED crossed
Named ==
  /\ line = None /\ Line
  /\ \E d \in Drones, packet \in BOOLEAN :
       /\ \E t \in SerialOnlyTargets(d, packet) \cup DJITargets(d, packet) :
            \/ positions' \in Add(positions, t) /\ Crosses(t)
            \/ Skips(t)
       /\ IF packet THEN Decode(d) ELSE UNCHANGED jobs
  /\ UNCHANGED <<line, now>>

\* An encrypted line: HasCrackedScreenPositionByCorrelationID is asked first,
\* and if nothing decoded is live ...
Fallback(d) == Target(d, d, TRUE, FALSE, TRUE, FALSE, now)
Encrypted ==
  /\ line = None /\ Line
  /\ LET live == Prune(positions, now)
     IN /\ positions' = live
        /\ \E d \in Drones :
             IF HasCracked(live, d) THEN Decode(d) /\ UNCHANGED line
             ELSE line' = Fallback(d) /\ UNCHANGED jobs
  /\ UNCHANGED <<crossed, now>>

\* ... the placeholder is added and the packet sent off.
AddFallback ==
  /\ line # None
  /\ positions' \in Add(positions, line)
  /\ line' = None
  /\ Decode(line.drone)
  /\ Crosses(line)
  /\ UNCHANGED <<now, lines>>
------------------------------------------------------------------------------
(* ingestEncryptedDID's goroutine.                                          *)

\* The decoder has failed, has no key or finds no coordinates.
DecodeFails ==
  /\ \E j \in jobs : j.result = None /\ jobs' = jobs \ {j}
  /\ UNCHANGED <<positions, line, crossed, now, lines>>

\* A result has coordinates, and names the serial and the model or neither.
Full == [temp |-> FALSE, plain |-> TRUE]
Bare == [temp |-> TRUE, plain |-> FALSE]
Results == {Full, Bare}

\* RemoveUncrackedDIDScreenPositionByCorrelationID, ...
\* Mutant: the placeholder stays.
RemoveFallbackNothing(d) == positions
RemoveFallback(d) ==
  LET i == First({k \in DOMAIN positions :
                    Placeholder(positions[k]) /\ positions[k].corr = d})
  IN IF i = 0 THEN positions ELSE RemoveAt(positions, i)
DecodeReturns ==
  /\ \E j \in jobs, r \in Results :
       /\ j.result = None
       /\ positions' = RemoveFallback(j.drone)
       /\ jobs' = (jobs \ {j}) \cup {[j EXCEPT !.result = r]}
       /\ crossed' = IF r = Bare THEN crossed \cup {j.drone} ELSE crossed
  /\ UNCHANGED <<line, now, lines>>

\* ... and AddPosition with the time the line was received at.
AddDecoded ==
  /\ \E j \in jobs :
       /\ j.result # None /\ jobs' = jobs \ {j}
       /\ positions' \in
            Add(positions, Target(j.drone, j.drone, j.result.temp,
                                  j.result.plain, TRUE, TRUE, j.at))
  /\ UNCHANGED <<line, crossed, now, lines>>

\* Positions(), which every reader of the list calls, prunes it.
Read ==
  /\ positions' = Prune(positions, now)
  /\ UNCHANGED <<line, jobs, crossed, now, lines>>

Tick ==
  /\ now < MaxTime /\ now' = now + 1
  /\ UNCHANGED <<positions, line, jobs, crossed, lines>>

Next ==
  \/ RID \/ Named \/ Encrypted \/ AddFallback
  \/ DecodeFails \/ DecodeReturns \/ AddDecoded
  \/ Read \/ Tick

Spec == Init /\ [][Next]_vars
------------------------------------------------------------------------------
TypeOK ==
  /\ positions \in Seq(Targets) /\ Len(positions) <= MaxPositions
  /\ line \in Targets \cup {None}
  /\ jobs \subseteq [drone : Drones, at : 0..MaxTime, result : Results \cup {None}]
  /\ crossed \subseteq Drones
  /\ now \in 0..MaxTime /\ lines \in 0..MaxLines

\* A drone decoded with its serial and model becomes one row: what RID lines,
\* named lines, placeholders and earlier results had made of it is merged or
\* gone, in whatever order they came.  A placeholder under the sender's uuid is
\* another correlation and may stay beside it (samePositionIdentity keeps
\* placeholders apart before it compares serials, store.go:710).  Nothing is
\* said of the drones whose reports crossed, see Crosses, and of those of which
\* a result named no serial.
Apart(t) == Placeholder(t) /\ t.corr # t.drone
Rows(list, d) ==
  {i \in DOMAIN list :
     list[i].corr = d \/ (list[i].drone = d /\ ~list[i].temp /\ ~Apart(list[i]))}
DecodedIsOneRow ==
  [][\A j \in jobs \ jobs' :
       j.result = Full /\ j.drone \notin crossed
         => Cardinality(Rows(positions', j.drone)) <= 1]_vars
==============================================================================
