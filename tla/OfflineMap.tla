----------------------------- MODULE OfflineMap -----------------------------
(***************************************************************************)
(* The installation of offline map packages (internal/offlinemap, behind    *)
(* the upload route of httpapi/server.go): the tiles are unpacked beside     *)
(* those in use and the directories switched by renaming, each step of which *)
(* can fail.  Uploads are not serialised, two of one second share the name   *)
(* of their backup, and the process can be killed anywhere.                  *)
(*                                                                         *)
(* A package is a value; Invalid are those the scan of the archive refuses.  *)
(* A rename onto a directory that holds tiles fails; removing a directory is *)
(* one step.                                                                *)
(***************************************************************************)
EXTENDS Naturals, Functions, FiniteSets

CONSTANTS None, Clients, Packages, Invalid, MaxUploads, MaxTime
MapConstants ==
  /\ None \notin Packages /\ Invalid \subseteq Packages
  /\ MaxUploads \in Nat /\ MaxTime \in Nat

VARIABLES
  dt,         \* the tiles in use, or None
  manifest,   \* the package the manifest names, or None
  backups,    \* per second of a backup's name, what it holds
  upload,     \* per client: what its installation is about to do
  second,     \* the clock
  wanted,     \* history: the package installed last
  disturbed,  \* history: uploads met, one was cut off or could not go back
  uploads     \* bound: uploads so far, up to MaxUploads

tiles == <<dt, manifest, backups>>
vars == <<tiles, upload, second, wanted, disturbed, uploads>>

Idle == [at |-> "idle"]
Init ==
  /\ dt = None /\ manifest = None /\ backups = <<>>
  /\ upload = [c \in Clients |-> Idle] /\ second = 0
  /\ wanted = None /\ disturbed = FALSE /\ uploads = 0

Busy == {c \in Clients : upload[c] # Idle}
At(c, at) == upload[c].at = at
To(c, at) == upload' = [upload EXCEPT ![c].at = at]
End(c) == upload' = [upload EXCEPT ![c] = Idle]
------------------------------------------------------------------------------
\* handleUploadOfflineMap and Install: a package that is no archive of tiles is
\* refused without further ado.
Begin(c) ==
  /\ upload[c] = Idle /\ uploads < MaxUploads /\ uploads' = uploads + 1
  /\ disturbed' = (disturbed \/ Busy # {})
  /\ \E p \in Packages \ Invalid, keep \in BOOLEAN :
       upload' = [upload EXCEPT ![c] =
         [at |-> "extract", package |-> p, keep |-> keep, name |-> second,
          saved |-> FALSE]]
  /\ UNCHANGED <<tiles, second, wanted>>
Refuse(c) ==
  /\ upload[c] = Idle /\ uploads < MaxUploads /\ Invalid # {}
  /\ uploads' = uploads + 1
  /\ UNCHANGED <<tiles, upload, second, wanted, disturbed>>

\* The tiles are unpacked into the staging directory.
Extract(c) ==
  /\ At(c, "extract") /\ To(c, "backup")
  /\ UNCHANGED <<tiles, second, wanted, disturbed, uploads>>

\* The tiles in use are moved aside, if there are any.
Backup(c) ==
  /\ At(c, "backup") /\ dt # None /\ upload[c].name \notin DOMAIN backups
  /\ backups' = [s \in DOMAIN backups \cup {upload[c].name} |->
                   IF s = upload[c].name THEN dt ELSE backups[s]]
  /\ dt' = None
  /\ upload' = [upload EXCEPT ![c].at = "switch", ![c].saved = TRUE]
  /\ UNCHANGED <<manifest, second, wanted, disturbed, uploads>>
NothingToBackup(c) ==
  /\ At(c, "backup") /\ dt = None /\ To(c, "switch")
  /\ UNCHANGED <<tiles, second, wanted, disturbed, uploads>>

\* An error before anything has been moved, that of a backup of the same second
\* included.
FailEarly(c) ==
  /\ \/ At(c, "extract") \/ (At(c, "backup") /\ dt # None)
  /\ End(c)
  /\ UNCHANGED <<tiles, second, wanted, disturbed, uploads>>

\* The new tiles take their place.
Switch(c) ==
  /\ At(c, "switch") /\ dt = None
  /\ dt' = upload[c].package /\ To(c, "manifest")
  /\ UNCHANGED <<manifest, backups, second, wanted, disturbed, uploads>>

\* The tiles that were moved aside are moved back, which can fail unnoticed.
\* base is what is in the way.
MoveBack(c, base) ==
  LET name == upload[c].name
      can == upload[c].saved /\ name \in DOMAIN backups
  IN \/ /\ can /\ base = None
        /\ dt' = backups[name]
        /\ backups' = Restrict(backups, DOMAIN backups \ {name})
        /\ UNCHANGED disturbed
     \/ /\ dt' = base /\ UNCHANGED backups
        /\ disturbed' = (disturbed \/ upload[c].saved)

SwitchFails(c) ==
  /\ At(c, "switch") /\ MoveBack(c, dt) /\ End(c)
  /\ UNCHANGED <<manifest, second, wanted, uploads>>

\* The manifest is replaced by renaming; if that fails the new tiles are removed
\* and the former ones moved back, or, with no former ones, kept.
WriteManifest(c) ==
  /\ At(c, "manifest")
  /\ manifest' = upload[c].package /\ wanted' = upload[c].package
  /\ To(c, "cleanup")
  /\ UNCHANGED <<dt, backups, second, disturbed, uploads>>
\* Mutant: the new tiles are kept although the manifest names others.
ManifestFailsKeeps(c) ==
  /\ At(c, "manifest") /\ End(c)
  /\ UNCHANGED <<tiles, second, wanted, disturbed, uploads>>
ManifestFails(c) ==
  /\ At(c, "manifest") /\ End(c)
  /\ IF upload[c].saved THEN MoveBack(c, None)
     ELSE UNCHANGED <<dt, backups, disturbed>>
  /\ UNCHANGED <<manifest, second, wanted, uploads>>

\* The backup is removed unless it is to be kept, and the directory flushed.
Cleanup(c) ==
  /\ At(c, "cleanup") /\ End(c)
  /\ IF upload[c].saved /\ ~upload[c].keep
       THEN backups' = Restrict(backups, DOMAIN backups \ {upload[c].name})
       ELSE UNCHANGED backups
  /\ UNCHANGED <<dt, manifest, second, wanted, disturbed, uploads>>

\* The process is killed; nothing at the next start looks at what was left.
Crash ==
  /\ Busy # {}
  /\ upload' = [c \in Clients |-> Idle]
  /\ disturbed' =
       (disturbed \/ \E c \in Clients : upload[c].at \in {"switch", "manifest"})
  /\ UNCHANGED <<tiles, second, wanted, uploads>>

Tick ==
  /\ second < MaxTime /\ second' = second + 1
  /\ UNCHANGED <<tiles, upload, wanted, disturbed, uploads>>

Next ==
  \/ \E c \in Clients :
       \/ Begin(c) \/ Refuse(c) \/ Extract(c) \/ Backup(c) \/ NothingToBackup(c)
       \/ FailEarly(c) \/ Switch(c) \/ SwitchFails(c)
       \/ WriteManifest(c) \/ ManifestFails(c) \/ Cleanup(c)
  \/ Crash \/ Tick

Spec == Init /\ [][Next]_vars
------------------------------------------------------------------------------
Uploads ==
  [at : {"extract", "backup", "switch", "manifest", "cleanup"},
   package : Packages, keep : BOOLEAN, name : 0..MaxTime, saved : BOOLEAN]
TypeOK ==
  /\ dt \in Packages \cup {None} /\ manifest \in Packages \cup {None}
  /\ DOMAIN backups \subseteq 0..MaxTime /\ Range(backups) \subseteq Packages
  /\ \A c \in Clients : upload[c] \in Uploads \cup {Idle}
  /\ second \in 0..MaxTime /\ wanted \in Packages \cup {None}
  /\ disturbed \in BOOLEAN /\ uploads \in 0..MaxUploads

\* Once a map has been installed there are tiles, in use or in a backup, whatever
\* fails, meets or is killed; and between uploads that did not meet, with no
\* rollback failed, those in use and those the manifest names are the ones last
\* installed.
MapKept ==
  wanted # None =>
    /\ dt # None \/ DOMAIN backups # {}
    /\ disturbed \/ Busy # {} \/ (dt = wanted /\ manifest = wanted)
==============================================================================
