----------------------------- MODULE DIDDecoder -----------------------------
(***************************************************************************)
(* The decoder of encrypted DID packets (internal/diddecrypt) and its MQTT   *)
(* session with the platform that decrypts (internal/position/o4_mqtt.go).   *)
(* Each packet has a goroutine of its own; they share the client, the topics *)
(* subscribed and the keys the platform has accepted.  A packet's number is  *)
(* its request id, which the code draws at random.                          *)
(*                                                                         *)
(* Once it is set the client counts as connected for good, for the library    *)
(* reconnects by itself (SetAutoReconnect), so that ensureClient asks no more.*)
(***************************************************************************)
EXTENDS Naturals, Sequences

CONSTANTS None, Ids, Devices, MaxPackets, KeyTTL, MaxTime, MaxFaults
\* A decrypted position, a success without one, a refusal; a key that is new or
\* exists, or is refused.
Replies == {"target", "nothing", "accepted", "refused"}
DecoderConstants ==
  /\ MaxPackets \in Nat /\ KeyTTL \in Nat /\ MaxTime \in Nat /\ MaxFaults \in Nat
  /\ None \notin Nat /\ None \notin Replies

VARIABLES
  jobs,           \* the packets so far: where their goroutines are and what
                  \* their response channels hold
  keys,           \* Decoder.keys: when the key of an id was cached
  client,         \* whether there is a client
  abandoned,      \* clients that timed out and go on trying to connect
  mu, subMu,      \* the packets that hold the two mutexes, 0 for none
  subscriptions,  \* devices whose response topic counts as subscribed
  responses,      \* requests whose channel is registered
  routes,         \* devices whose responses the broker forwards
  asked,          \* requests on their way to the platform
  answers,        \* its responses on their way back
  known,          \* ids whose key the platform has accepted
  now,            \* bound: the clock, up to MaxTime
  faults          \* bound: time-outs, losses and duplicates, up to MaxFaults

session == <<client, abandoned, mu, subMu, subscriptions, routes>>
traffic == <<responses, asked, answers, known>>
vars == <<jobs, keys, session, traffic, now, faults>>

Kinds == {"direct", "key", "dynamic", "other"}
Steps == {"client", "connecting", "subscribe", "subscribing", "publish",
          "sent", "waiting", "ended"}
Jobs ==
  [kind : Kinds, id : Ids, device : Devices, step : Steps,
   got : Replies \cup {None}, target : BOOLEAN]

Init ==
  /\ jobs = <<>> /\ keys = [id \in Ids |-> None]
  /\ client = FALSE /\ abandoned = 0 /\ mu = 0 /\ subMu = 0
  /\ subscriptions = {} /\ routes = {}
  /\ responses = {} /\ asked = {} /\ answers = {} /\ known = {}
  /\ now = 0 /\ faults = 0

At(i, step) == i \in DOMAIN jobs /\ jobs[i].step = step
GoOn(i, step) == jobs' = [jobs EXCEPT ![i].step = step]
Fault == faults < MaxFaults /\ faults' = faults + 1
------------------------------------------------------------------------------
(* Decoding a packet.                                                       *)

\* getKeyPacket, which forgets a key that is too old.
Cached(id) == keys[id] # None /\ now <= keys[id] + KeyTTL
LookUp(id) == [keys EXCEPT ![id] = IF Cached(id) THEN @ ELSE None]

\* A key that is cached is not sent again, a dynamic packet needs one.
Ends(kind, id) ==
  \/ kind = "other"
  \/ kind = "key" /\ Cached(id)
  \/ kind = "dynamic" /\ ~Cached(id)
Receive ==
  /\ Len(jobs) < MaxPackets
  /\ \E kind \in Kinds, id \in Ids, device \in Devices :
       /\ jobs' = Append(jobs,
            [kind |-> kind, id |-> id, device |-> device, got |-> None,
             step |-> IF Ends(kind, id) THEN "ended" ELSE "client",
             target |-> FALSE])
       /\ keys' = IF kind \in {"key", "dynamic"} THEN LookUp(id) ELSE keys
  /\ UNCHANGED <<session, traffic, now, faults>>

\* ensureClient; publishAndWait and ensureSubscription call it.
EnsureClient(i) ==
  /\ At(i, "client") /\ mu = 0
  /\ IF client THEN GoOn(i, "subscribe") /\ UNCHANGED mu
     ELSE GoOn(i, "connecting") /\ mu' = i
  /\ UNCHANGED <<keys, client, abandoned, subMu, subscriptions, routes, traffic,
                 now, faults>>

Connected(i) ==
  /\ At(i, "connecting") /\ GoOn(i, "subscribe")
  /\ client' = TRUE /\ subscriptions' = {} /\ mu' = 0
  /\ UNCHANGED <<keys, abandoned, subMu, routes, traffic, now, faults>>

\* Nobody stops the client that was too slow.
ConnectTimeout(i) ==
  /\ At(i, "connecting") /\ Fault /\ GoOn(i, "ended")
  /\ abandoned' = abandoned + 1 /\ mu' = 0
  /\ UNCHANGED <<keys, client, subMu, subscriptions, routes, traffic, now>>

\* ensureSubscription looks before and after it has the mutex.
EnsureSubscription(i) ==
  /\ At(i, "subscribe")
  /\ IF jobs[i].device \in subscriptions
       THEN GoOn(i, "publish") /\ UNCHANGED subMu
       ELSE subMu = 0 /\ subMu' = i /\ GoOn(i, "subscribing")
  /\ UNCHANGED <<keys, client, abandoned, mu, subscriptions, routes, traffic,
                 now, faults>>

Subscribed(i) ==
  /\ At(i, "subscribing") /\ GoOn(i, "publish")
  /\ routes' = routes \cup {jobs[i].device}
  /\ subscriptions' = subscriptions \cup {jobs[i].device}
  /\ subMu' = 0
  /\ UNCHANGED <<keys, client, abandoned, mu, traffic, now, faults>>

\* The broker may have carried it out, or do so when it is back.
SubscribeFails(i) ==
  /\ At(i, "subscribing") /\ Fault /\ GoOn(i, "ended")
  /\ routes' \in {routes, routes \cup {jobs[i].device}}
  /\ subMu' = 0
  /\ UNCHANGED <<keys, client, abandoned, mu, subscriptions, traffic, now>>

\* The channel is registered before the request is on its way.
Publish(i) ==
  /\ At(i, "publish") /\ GoOn(i, "sent")
  /\ responses' = responses \cup {i} /\ asked' = asked \cup {i}
  /\ UNCHANGED <<keys, session, answers, known, now, faults>>

Published(i) ==
  /\ At(i, "sent") /\ GoOn(i, "waiting")
  /\ UNCHANGED <<keys, session, traffic, now, faults>>

\* Neither takes back a request the broker has, or will get from the library.
GiveUp(i) ==
  /\ GoOn(i, "ended") /\ responses' = responses \ {i}
  /\ UNCHANGED <<keys, session, answers, known, now>>
PublishFails(i) ==
  At(i, "sent") /\ GiveUp(i) /\ Fault /\ asked' \in {asked, asked \ {i}}
Timeout(i) ==
  At(i, "waiting") /\ GiveUp(i) /\ UNCHANGED <<asked, faults>>

\* Decrypt, SendKeyPacket and what decodeHexPair makes of their results: a key is
\* cached, a position becomes a target.
TakeResponse(i) ==
  /\ At(i, "waiting") /\ jobs[i].got # None
  /\ jobs' = [jobs EXCEPT ![i].step = "ended",
                          ![i].target = jobs[i].got = "target"]
  /\ keys' = IF jobs[i].got = "accepted"
               THEN [keys EXCEPT ![jobs[i].id] = now] ELSE keys
  /\ responses' = responses \ {i}
  /\ UNCHANGED <<session, asked, answers, known, now, faults>>

\* handleMessage drops what nobody waits for any more and what comes twice.
HandleMessage ==
  /\ \E a \in answers :
       /\ \/ answers' = answers \ {a} /\ UNCHANGED faults
          \/ Fault /\ UNCHANGED answers
       /\ jobs' = IF a.request \in responses /\ jobs[a.request].got = None
                    THEN [jobs EXCEPT ![a.request].got = a.reply] ELSE jobs
  /\ UNCHANGED <<keys, session, responses, asked, known, now>>
------------------------------------------------------------------------------
(* The platform and the broker.                                             *)

\* It decrypts a direct packet, and a dynamic one whose key it has.
Answers(i) ==
  CASE jobs[i].kind = "key" -> {"accepted", "refused"}
    [] jobs[i].kind = "dynamic" /\ jobs[i].id \notin known -> {"refused"}
    [] OTHER -> {"target", "nothing", "refused"}
Answer ==
  /\ \E i \in asked : \E r \in Answers(i) :
       /\ asked' = asked \ {i}
       /\ known' = IF r = "accepted" THEN known \cup {jobs[i].id} ELSE known
       /\ answers' = IF jobs[i].device \in routes
                       THEN answers \cup {[request |-> i, reply |-> r]}
                       ELSE answers
  /\ UNCHANGED <<jobs, keys, session, responses, now, faults>>

\* A broker that restarts may have lost the session; subscriptions do not tell.
Forget ==
  /\ routes # {} /\ Fault /\ routes' = {}
  /\ UNCHANGED <<jobs, keys, client, abandoned, mu, subMu, subscriptions,
                 traffic, now>>

Tick ==
  /\ now < MaxTime /\ now' = now + 1
  /\ UNCHANGED <<jobs, keys, session, traffic, faults>>

Next ==
  \/ Receive \/ HandleMessage \/ Answer \/ Forget \/ Tick
  \/ \E i \in DOMAIN jobs :
       \/ EnsureClient(i) \/ Connected(i) \/ ConnectTimeout(i)
       \/ EnsureSubscription(i) \/ Subscribed(i) \/ SubscribeFails(i)
       \/ Publish(i) \/ Published(i) \/ PublishFails(i)
       \/ Timeout(i) \/ TakeResponse(i)

Spec == Init /\ [][Next]_vars
------------------------------------------------------------------------------
TypeOK ==
  /\ jobs \in Seq(Jobs) /\ Len(jobs) <= MaxPackets
  /\ keys \in [Ids -> (0..MaxTime) \cup {None}]
  /\ client \in BOOLEAN /\ abandoned \in 0..MaxFaults
  /\ mu \in 0..MaxPackets /\ subMu \in 0..MaxPackets
  /\ subscriptions \subseteq Devices /\ routes \subseteq Devices
  /\ responses \subseteq DOMAIN jobs /\ asked \subseteq DOMAIN jobs
  /\ answers \subseteq [request : DOMAIN jobs, reply : Replies]
  /\ known \subseteq Ids
  /\ now \in 0..MaxTime /\ faults \in 0..MaxFaults

\* A dynamic packet is sent only under a key that the platform accepted in an
\* answer of this session, however many answers were late, lost or doubled.
KeyAccepted == \A id \in Ids : keys[id] # None => id \in known

\* An answer that comes while its packet is still waited for is not missed, even
\* when it overtakes the acknowledgement of the request, and is taken only for
\* the packet it answers.
AnswerArrives ==
  [][\A a \in answers \ answers' :
       (At(a.request, "sent") \/ At(a.request, "waiting"))
         => jobs'[a.request].got # None]_vars
==============================================================================
