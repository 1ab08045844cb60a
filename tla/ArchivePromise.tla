--------------------------- MODULE ArchivePromise ---------------------------
(***************************************************************************)
(* What the store promises of FPV targets: a target that was valid at least *)
(* once is owed to the intrusion archive when it leaves the live list, it   *)
(* reaches the archive unless the queue was full, a target that was never   *)
(* valid is not archived, and no target comes back.                         *)
(***************************************************************************)
EXTENDS Naturals, FiniteSets

CONSTANTS Ids,      \* targets, each an appearance of its own
          Capacity  \* targets that may be owed at the same time

VARIABLES fate,     \* what has become of each target
          worthy    \* targets of which some signal was valid

Fates == {"unseen", "live", "ended", "owed", "archived", "dropped"}

\* A target may live and end within one step, and one that was dropped from
\* the queue while the archive already worked on it may still be archived.
After == [unseen   |-> Fates \ {"archived"},
          live     |-> {"live", "ended", "owed", "dropped"},
          ended    |-> {"ended"},
          owed     |-> {"owed", "archived", "dropped"},
          dropped  |-> {"dropped", "archived"},
          archived |-> {"archived"}]

With(f) == {t \in Ids : fate[t] = f}

Init == /\ fate = [t \in Ids |-> "unseen"]
        /\ worthy = {}

Next ==
  /\ fate' \in [Ids -> Fates]
  /\ \A t \in Ids : fate'[t] \in After[fate[t]]
  /\ worthy \subseteq worthy'
  /\ worthy' \subseteq worthy \cup With("unseen") \cup With("live")
  /\ With("ended")' \cap worthy' = {}
  /\ (With("owed") \cup With("archived") \cup With("dropped"))' \subseteq worthy'
  /\ With("dropped")' \subseteq With("dropped") \/ Cardinality(With("owed")') = Capacity

Spec == Init /\ [][Next]_<<fate, worthy>>
=============================================================================
