------------------------------ MODULE Settings ------------------------------
(***************************************************************************)
(* The settings document (internal/settings) and the copies of it the        *)
(* program runs with.  Three callers change the document, each by loading,   *)
(* changing and saving the whole of it: the settings route, the route for    *)
(* the listeners' ports (both httpapi/server.go) and the unattended mode     *)
(* (interference/service.go).  Only the settings route takes a lock, that of *)
(* the video session, and only if it changes the video's settings, which it  *)
(* hands to the video service before it saves them.                          *)
(*                                                                         *)
(* A section of the document is one value; validation of the request and     *)
(* the pruning of old intrusions are left out, and what the unattended mode  *)
(* does with its section is in Unattended.                                   *)
(***************************************************************************)
EXTENDS Naturals, FiniteSets

CONSTANTS None, Clients, MaxRequests
SettingsConstants == MaxRequests \in Nat /\ IsFiniteSet(Clients)

Video == {"host", "rtmp"}          \* used by the video service
Live == Video \cup {"general", "ports"}
Sections == Live \cup {"unattended"}
Values == {0, 1}

VARIABLES
  saved,     \* the document
  runtime,   \* what the video service, the store, the connectors and the
             \* listeners run with
  lock,      \* fpvVideoMu: None, or the client that holds it
  session,   \* activeFPVVideoSession # 0
  process,   \* the video service's cmd # nil
  request,   \* per client: what it is in the middle of
  disturbed, \* history, since the start: requests met, the video service refused
             \* to take its former settings back, or the start left some aside
  requests   \* bound: requests so far, up to MaxRequests

video == <<session, process>>
vars == <<saved, runtime, lock, video, request, disturbed, requests>>

Idle == [at |-> "idle"]
Busy == {c \in Clients : request[c] # Idle}

Init ==
  /\ saved = [s \in Sections |-> 0] /\ runtime = [s \in Live |-> 0]
  /\ lock = None /\ session = FALSE /\ process = FALSE
  /\ request = [c \in Clients |-> Idle] /\ disturbed = FALSE /\ requests = 0
------------------------------------------------------------------------------
\* The document and the memory with the sections that are asked for changed.
Changed(f, want) == [s \in DOMAIN f |-> IF s \in DOMAIN want THEN want[s] ELSE f[s]]
Without(want, s) == [t \in DOMAIN want \ {s} |-> want[t]]

Asks == (UNION {[S -> Values] : S \in (SUBSET {"host", "rtmp", "general"}) \ {{}}})
          \cup [{"ports"} -> Values] \cup [{"unattended"} -> Values]

Begin(c) ==
  /\ request[c] = Idle /\ requests < MaxRequests /\ requests' = requests + 1
  /\ disturbed' = (disturbed \/ Busy # {})
  /\ \E want \in Asks :
       request' = [request EXCEPT ![c] =
         [at |-> IF DOMAIN want \cap Video = {} THEN "load" ELSE "lock",
          want |-> want, loaded |-> None, old |-> runtime]]
  /\ UNCHANGED <<saved, runtime, lock, video>>

To(c, at) == request' = [request EXCEPT ![c].at = at]
Unlock(c) == lock' = IF lock = c THEN None ELSE lock

\* The video service refuses new settings while its process runs.
Set(S, f) == runtime' = [s \in Live |-> IF s \in S THEN f[s] ELSE runtime[s]]

\* The settings route takes the lock and sets the host, which is refused while
\* the process runs; a host that is no news is forgotten.
TakeLock(c) ==
  /\ request[c].at = "lock" /\ lock = None
  /\ lock' = c
  /\ request' = [request EXCEPT ![c] =
       [at |-> "host", want |-> @.want, loaded |-> None, old |-> runtime]]
  /\ UNCHANGED <<saved, runtime, video, disturbed, requests>>

NewIn(c, s) == s \in DOMAIN request[c].want /\ request[c].want[s] # runtime[s]
SetWebRTCListenHost(c) ==
  /\ request[c].at = "host" /\ ~(NewIn(c, "host") /\ process)
  /\ request' = [request EXCEPT ![c] =
       [at |-> "load", loaded |-> None, old |-> @.old,
        want |-> IF NewIn(c, "host") THEN @.want ELSE Without(@.want, "host")]]
  /\ Set(DOMAIN request[c].want \cap {"host"}, request[c].want)
  /\ UNCHANGED <<saved, lock, video, disturbed, requests>>

\* A request that ends with an error puts the video service's settings back;
\* whether they are taken back is not looked at.
\* Mutant: only the host is put back.
PutBackHost(c, S) == Set(S \ {"rtmp"}, request[c].old)
PutBack(c, S) == Set(S, request[c].old)
Fail(c, S) ==
  /\ LET back == {s \in S : runtime[s] # request[c].old[s]}
     IN /\ IF process /\ back # {} THEN UNCHANGED runtime ELSE PutBack(c, back)
        /\ disturbed' = (disturbed \/ (process /\ back # {}))
  /\ Unlock(c)
  /\ request' = [request EXCEPT ![c] = Idle]
  /\ UNCHANGED <<saved, video, requests>>

RefuseHost(c) ==
  /\ request[c].at = "host" /\ NewIn(c, "host") /\ process /\ Fail(c, {})

\* LoadUser: the document is read.
LoadUser(c) ==
  /\ request[c].at = "load"
  /\ request' = [request EXCEPT ![c] =
       [at |-> IF "rtmp" \in DOMAIN @.want THEN "rtmp" ELSE "save",
        want |-> @.want, loaded |-> saved, old |-> @.old]]
  /\ UNCHANGED <<saved, runtime, lock, video, disturbed, requests>>
LoadFails(c) == request[c].at = "load" /\ Fail(c, Video)

\* New publishing settings need there to be neither a session nor a process.
SetRTMPSettings(c) ==
  /\ request[c].at = "rtmp" /\ ~(NewIn(c, "rtmp") /\ (session \/ process))
  /\ To(c, "save")
  /\ Set({"rtmp"}, request[c].want)
  /\ UNCHANGED <<saved, lock, video, disturbed, requests>>
RefuseRTMP(c) ==
  /\ request[c].at = "rtmp" /\ NewIn(c, "rtmp") /\ (session \/ process)
  /\ Fail(c, {"host"})

\* SaveEditableUser replaces the document by what was loaded with the changes.
SaveEditableUser(c) ==
  /\ request[c].at = "save"
  /\ saved' = Changed(request[c].loaded, request[c].want)
  /\ Unlock(c)
  /\ To(c, "apply")
  /\ UNCHANGED <<runtime, video, disturbed, requests>>
SaveFails(c) == request[c].at = "save" /\ Fail(c, Video)

\* applyUserSettings after the settings route has saved, with all of what it
\* saved; applyTCPPorts with the ports asked for.
ApplyUserSettings(c) ==
  /\ request[c].at = "apply"
  /\ LET want == request[c].want
         all == Changed(request[c].loaded, want)
     IN IF DOMAIN want \cap {"ports", "unattended"} # {}
          THEN Set(DOMAIN want \cap {"ports"}, want)
          ELSE Set({"general"}, all)
  /\ request' = [request EXCEPT ![c] = Idle]
  /\ UNCHANGED <<saved, lock, video, disturbed, requests>>
------------------------------------------------------------------------------
\* The video session, of which only what the settings look at is here: it is
\* begun under the lock, and the process it starts and stops is not.
BeginSession ==
  /\ ~session /\ lock = None /\ session' = TRUE
  /\ UNCHANGED <<saved, runtime, lock, process, request, disturbed, requests>>
StartProcess ==
  /\ session /\ ~process /\ process' = TRUE
  /\ UNCHANGED <<saved, runtime, lock, session, request, disturbed, requests>>
EndProcess ==
  /\ process /\ process' = FALSE
  /\ UNCHANGED <<saved, runtime, lock, session, request, disturbed, requests>>
EndSession ==
  /\ session /\ ~process /\ lock = None /\ session' = FALSE
  /\ UNCHANGED <<saved, runtime, lock, process, request, disturbed, requests>>

\* The program is stopped and started: everything comes from the document, but
\* for a host that is no address of the machine any more, and all of a document
\* that cannot be read.  For those the program's own settings, 0, stand in.
Restart ==
  /\ \E taken \in {Live, Live \ {"host"}, {}} :
       runtime' = [s \in Live |-> IF s \in taken THEN saved[s] ELSE 0]
  /\ disturbed' = (\E s \in Live : runtime'[s] # saved[s])
  /\ lock' = None /\ session' = FALSE /\ process' = FALSE
  /\ request' = [c \in Clients |-> Idle]
  /\ UNCHANGED <<saved, requests>>

Next ==
  \/ \E c \in Clients :
       \/ Begin(c) \/ TakeLock(c) \/ SetWebRTCListenHost(c) \/ RefuseHost(c)
       \/ LoadUser(c) \/ LoadFails(c) \/ SetRTMPSettings(c) \/ RefuseRTMP(c)
       \/ SaveEditableUser(c) \/ SaveFails(c) \/ ApplyUserSettings(c)
  \/ BeginSession \/ StartProcess \/ EndProcess \/ EndSession
  \/ Restart

Spec == Init /\ [][Next]_vars
------------------------------------------------------------------------------
Requests ==
  [at : {"lock", "host", "load", "rtmp", "save", "apply"}, want : Asks \cup {<<>>},
   loaded : [Sections -> Values] \cup {None}, old : [Live -> Values]]
TypeOK ==
  /\ saved \in [Sections -> Values] /\ runtime \in [Live -> Values]
  /\ lock \in Clients \cup {None} /\ session \in BOOLEAN /\ process \in BOOLEAN
  /\ \A c \in Clients : request[c] \in Requests \cup {Idle}
  /\ disturbed \in BOOLEAN /\ requests \in 0..MaxRequests

\* With no request under way the program runs with what is saved: a request
\* that was refused or failed after it had changed the video's settings has put
\* them back, one that saved has applied what it saved.  Nothing is said while
\* disturbed.
RuntimeIsSaved ==
  disturbed \/ Busy # {} \/ \A s \in Live : runtime[s] = saved[s]
==============================================================================
