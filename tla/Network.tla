------------------------------ MODULE Network -------------------------------
(***************************************************************************)
(* The management of the host's netplan document (internal/network, behind  *)
(* the routes of httpapi/network.go).  An update writes the document, has    *)
(* netplan check it and, if that fails, puts the former one back; requests   *)
(* are not serialised, each of their steps can fail, and the process can be  *)
(* killed between any two.                                                   *)
(*                                                                         *)
(* A document is a value that the service's own check of the text lets pass, *)
(* Rejected those that netplan refuses.  What apply and restart start is a   *)
(* script outside the process.  DNS, diagnostics and the listings are not    *)
(* modelled.                                                                 *)
(***************************************************************************)
EXTENDS Naturals, FiniteSets

CONSTANTS None, Clients, Documents, Rejected, MaxRequests
NetworkConstants ==
  /\ None \notin Documents /\ Rejected \subseteq Documents
  /\ MaxRequests \in Nat /\ IsFiniteSet(Clients)

VARIABLES
  managed,    \* the document at configPath, or None
  backups,    \* the documents kept beside it
  cloudInit,  \* whether cloud-init may still configure the network
  managers,   \* the network managers: as found, or networkd alone
  script,     \* whether a script of apply or restart waits to run
  running,    \* the document the host runs, or None
  request,    \* per client: what it is in the middle of
  disturbed,  \* history: updates met, one was cut off or could not put back
  requests    \* bound: requests so far, up to MaxRequests

files == <<managed, backups, cloudInit>>
host == <<managers, script, running>>
vars == <<files, host, request, disturbed, requests>>

Idle == [at |-> "idle"]
Busy == {c \in Clients : request[c] # Idle}

Init ==
  /\ managed \in (Documents \ Rejected) \cup {None}
  /\ backups = {} /\ cloudInit = TRUE
  /\ managers = "as found" /\ script = FALSE /\ running = None
  /\ request = [c \in Clients |-> Idle]
  /\ disturbed = FALSE /\ requests = 0
------------------------------------------------------------------------------
\* A request begins; with another one under way, what both do is not promised.
Begin(c, r) ==
  /\ request[c] = Idle /\ requests < MaxRequests
  /\ requests' = requests + 1
  /\ request' = [request EXCEPT ![c] = r]
  /\ disturbed' = (disturbed \/ Busy # {})

To(c, at) == request' = [request EXCEPT ![c].at = at]
End(c) == request' = [request EXCEPT ![c] = Idle]

\* What an update can be given: any document, or with RestoreBackup that of a
\* backup which is still there.
Given == Documents \cup backups

\* UpdateConfig: the former document is read, ...
BeginUpdate(c) ==
  /\ \E d \in Given :
       Begin(c, [at |-> "backup", document |-> d, previous |-> managed])
  /\ UNCHANGED <<files, host>>

\* ... kept, if there is one, ...
WriteBackup(c) ==
  /\ request[c].at = "backup"
  /\ backups' = backups \cup ({request[c].previous} \ {None})
  /\ To(c, "write")
  /\ UNCHANGED <<managed, cloudInit, host, disturbed, requests>>

\* ... replaced (writeFileAtomic), ...
WriteDocument(c) ==
  /\ request[c].at = "write"
  /\ managed' = request[c].document
  /\ To(c, "generate")
  /\ UNCHANGED <<backups, cloudInit, host, disturbed, requests>>

\* ... or neither: an error before there is anything to put back.
FailEarly(c) ==
  /\ request[c].at \in {"backup", "write"} /\ End(c)
  /\ UNCHANGED <<files, host, disturbed, requests>>

\* netplan generate reads what is there by now.
Generate(c) ==
  /\ request[c].at = "generate" /\ managed \notin Rejected
  /\ To(c, "cloud")
  /\ UNCHANGED <<files, host, disturbed, requests>>

\* It refuses, or the client has gone and its context ends the command: the
\* former document is put back, or the new one removed; an error of that is
\* dropped.
\* Mutant: what netplan refuses is left for the operator to correct.
GenerateFailsKeeps(c) ==
  /\ request[c].at = "generate" /\ End(c)
  /\ UNCHANGED <<files, host, disturbed, requests>>
GenerateFails(c) ==
  /\ request[c].at = "generate" /\ End(c)
  /\ \/ managed' = request[c].previous /\ UNCHANGED disturbed
     \/ UNCHANGED managed /\ disturbed' = TRUE
  /\ UNCHANGED <<backups, cloudInit, host, requests>>

\* cloud-init is told to leave the network alone; an error is reported although
\* the document has been replaced.
DisableCloudInit(c) ==
  /\ request[c].at = "cloud" /\ End(c)
  /\ cloudInit' \in {cloudInit, FALSE}
  /\ UNCHANGED <<managed, backups, host, disturbed, requests>>
------------------------------------------------------------------------------
\* DeleteBackup.
DeleteBackup ==
  /\ \E d \in backups : backups' = backups \ {d}
  /\ UNCHANGED <<managed, cloudInit, host, request, disturbed, requests>>

\* Apply reads the managed document and has it checked, which fails without
\* one; ...
BeginApply(c) ==
  /\ managed # None /\ managed \notin Rejected
  /\ Begin(c, [at |-> "prepare"])
  /\ UNCHANGED <<files, host>>

\* ... makes networkd the only network manager; ...
PrepareNetworkManagers(c) ==
  /\ request[c].at = "prepare" /\ To(c, "schedule")
  /\ managers' = "networkd"
  /\ UNCHANGED <<files, script, running, disturbed, requests>>

\* ... and, as Restart does after the same check, leaves a script to run.
BeginRestart(c) ==
  /\ managed \notin Rejected
  /\ Begin(c, [at |-> "schedule"])
  /\ UNCHANGED <<files, host>>
ScheduleScript(c) ==
  /\ request[c].at = "schedule" /\ End(c)
  /\ script' \in {script, TRUE}
  /\ UNCHANGED <<files, managers, running, disturbed, requests>>

\* The script: netplan apply, which leaves the host as it is if it refuses.
RunScript ==
  /\ script /\ script' = FALSE
  /\ running' \in {running} \cup ({managed} \ Rejected)
  /\ UNCHANGED <<files, managers, request, disturbed, requests>>

\* The process is killed and started again.
Crash ==
  /\ Busy # {}
  /\ request' = [c \in Clients |-> Idle]
  /\ disturbed' =
       (disturbed \/ \E c \in Clients : request[c].at = "generate")
  /\ UNCHANGED <<files, host, requests>>

Next ==
  \/ \E c \in Clients :
       \/ BeginUpdate(c) \/ WriteBackup(c) \/ WriteDocument(c) \/ FailEarly(c)
       \/ Generate(c) \/ GenerateFails(c) \/ DisableCloudInit(c)
       \/ BeginApply(c) \/ PrepareNetworkManagers(c)
       \/ BeginRestart(c) \/ ScheduleScript(c)
  \/ DeleteBackup \/ RunScript \/ Crash

Spec == Init /\ [][Next]_vars
------------------------------------------------------------------------------
Requests ==
  [at : {"idle", "prepare", "schedule"}]
    \cup [at : {"backup", "write", "generate", "cloud"}, document : Documents,
         previous : Documents \cup {None}]
TypeOK ==
  /\ managed \in Documents \cup {None} /\ backups \subseteq Documents
  /\ cloudInit \in BOOLEAN /\ managers \in {"as found", "networkd"}
  /\ script \in BOOLEAN /\ running \in Documents \cup {None}
  /\ request \in [Clients -> Requests]
  /\ disturbed \in BOOLEAN /\ requests \in 0..MaxRequests

\* Between updates the managed document is one that netplan accepts: a refused,
\* failed or abandoned update puts back what it found, and what that was had
\* been accepted before, also after a chain of updates and restored backups, as
\* long as no two requests met and the putting back worked.
AcceptedAtRest ==
  \/ disturbed \/ managed \notin Rejected
  \/ \E c \in Clients : request[c].at = "generate"
==============================================================================
