---------------------------- MODULE MediaSoupAPI ----------------------------
(***************************************************************************)
(* Joining a room and producing into it: mssdk/mssignal/msapi.cpp, driven  *)
(* by MediaControl::join (mssdk/peerconnection/media_control.cpp).         *)
(*                                                                         *)
(* One MediaSoupAPI object serves every join.  Each init() replaces its    *)
(* MSSignal and its promise_, connects, and then waits three seconds for   *)
(* the "mediasoup-version" notification that fulfils the promise.  A       *)
(* replaced MSSignal is not closed: it and its WSPPClient keep each other  *)
(* alive, so its io thread goes on calling on_recv_notify of this object.  *)
(* connect() may never return (module WSPPClient), and requests go through *)
(* send_request_and_recv_response (module MSSignal): here one is answered  *)
(* as it should be, answered by a response that the handlers cannot use,   *)
(* or its caller is never woken.                                           *)
(*                                                                         *)
(* Joins and a publisher's requests come from one application thread here. *)
(* Publishers on other threads are in the module MediaControl.             *)
(***************************************************************************)
EXTENDS Integers, FiniteSets

CONSTANTS MaxJoins,      \* bound: calls of join
          TransportIds   \* ids the server gives to transports, in the order
                         \* of std::map's keys

ASSUME MaxJoinsAssumption     == MaxJoins \in Nat
ASSUME TransportIdsAssumption == TransportIds \subseteq Nat \ {0}

Joins  == 1..MaxJoins
NoJoin == 0
NoId   == 0

\* The requests, named by the position of the caller: the four of a join, in
\* order, and the two of a publisher.
JoinRequests    == {"caps", "send", "recv", "join"}
ProduceRequests == {"connect", "produce"}
Requests        == JoinRequests \cup ProduceRequests

NoTransport == [join |-> NoJoin, send |-> FALSE]
Transport   == [join : Joins \cup {NoJoin}, send : BOOLEAN]

VARIABLES
    appPc,       \* the caller: "idle", "connecting" (in connect()), "version" (in
                 \* wait_for), a request, "blocked" (it waits for ever), "crashed"
    cur,         \* the join whose MSSignal ms_sinal_ points to, and owner of promise_
    link,        \* per join: its connection, "none", "up", "failed", "lost"
    promiseSet,  \* promise_ has its value
    setBy,       \* ghost: the connection whose notification set promise_
    versionSent, \* per join: the server has sent its version notification
    ioPc,        \* per join: io thread "idle", "notify" (promise_ loaded), "dead"
    ioPtr,       \* per join: whose promise_ the io thread has loaded
    loaded,      \* loaded_
    transports,  \* transport_list_
    target,      \* the transport of the request in progress
    verdict,     \* ghost: the server's answer to the last produce() that returned
                 \* 0: "accepted", "refused" ("ok": false), "none" before
    outcome,     \* per join: how MediaControl::join ended, "timeout" of init(), "ok",
                 \* or the request whose response made it return -1 or throw
    ub           \* ghost: a promise_ was used after it was replaced

vars == <<appPc, cur, link, promiseSet, setBy, versionSent, ioPc, ioPtr, loaded,
          transports, target, verdict, outcome, ub>>

producing == <<target, verdict>>

Init == /\ appPc = "idle" /\ cur = NoJoin
        /\ link = [k \in Joins |-> "none"]
        /\ promiseSet = FALSE /\ setBy = NoJoin
        /\ versionSent = [k \in Joins |-> FALSE]
        /\ ioPc = [k \in Joins |-> "idle"]
        /\ ioPtr = [k \in Joins |-> NoJoin]
        /\ loaded = FALSE
        /\ transports = [i \in TransportIds |-> NoTransport]
        /\ target = NoId /\ verdict = "none"
        /\ outcome = [k \in Joins |-> "none"]
        /\ ub = FALSE

-----------------------------------------------------------------------------
\* MediaSoupAPI::init.

\* A new MSSignal, a new promise_, and connect() begins.
InitSignal ==
    /\ appPc = "idle" /\ cur < MaxJoins
    /\ cur' = cur + 1
    /\ appPc' = "connecting"
    /\ promiseSet' = FALSE /\ setBy' = NoJoin
    /\ UNCHANGED <<link, versionSent, ioPc, ioPtr, loaded, transports, producing, outcome, ub>>

\* connect_sync gets the verdict of the attempt, and init does not look at it; or
\* the verdict met no promise, and connect_sync waits for ever.  Until it returns
\* it holds mutex_, so no text of its connection is handled.
ConnectReturn ==
    /\ appPc = "connecting"
    /\ \/ /\ appPc' = "version"
          /\ \E l \in {"up", "failed"} : link' = [link EXCEPT ![cur] = l]
       \/ appPc' = "blocked" /\ UNCHANGED link
    /\ UNCHANGED <<cur, promiseSet, setBy, versionSent, ioPc, ioPtr, loaded, transports,
                   producing, outcome, ub>>

\* wait_for returns ready: init returns 0 and join asks for the capabilities.
VersionReady ==
    /\ appPc = "version" /\ promiseSet
    /\ appPc' = "caps"
    /\ UNCHANGED <<cur, link, promiseSet, setBy, versionSent, ioPc, ioPtr, loaded,
                   transports, producing, outcome, ub>>

\* Mutant: the result of wait_for is ignored.
VersionTimeoutIgnored ==
    /\ appPc = "version" /\ ~promiseSet
    /\ appPc' = "caps"
    /\ UNCHANGED <<cur, link, promiseSet, setBy, versionSent, ioPc, ioPtr, loaded,
                   transports, producing, outcome, ub>>

\* Mutant: future.get() in place of wait_for.
VersionTimeoutNever ==
    /\ appPc = "version" /\ promiseSet
    /\ appPc' = "caps"
    /\ UNCHANGED <<cur, link, promiseSet, setBy, versionSent, ioPc, ioPtr, loaded,
                   transports, producing, outcome, ub>>

\* Three seconds pass: init returns -1 and join gives up; promise_ stays.
VersionTimeout ==
    /\ appPc = "version" /\ ~promiseSet
    /\ appPc' = "idle"
    /\ outcome' = [outcome EXCEPT ![cur] = "timeout"]
    /\ UNCHANGED <<cur, link, promiseSet, setBy, versionSent, ioPc, ioPtr, loaded,
                   transports, producing, ub>>

-----------------------------------------------------------------------------
\* on_recv_notify on the io thread of connection k.

\* The server sends one version notification per connection; promise_ is loaded.
NotifyStart(k) ==
    /\ ioPc[k] = "idle" /\ link[k] = "up" /\ ~versionSent[k]
    /\ versionSent' = [versionSent EXCEPT ![k] = TRUE]
    /\ ioPc' = [ioPc EXCEPT ![k] = "notify"]
    /\ ioPtr' = [ioPtr EXCEPT ![k] = cur]
    /\ UNCHANGED <<appPc, cur, link, promiseSet, setBy, loaded, transports, producing, outcome,
                   ub>>

\* promise_->set_value: throws on the io thread if the value is already there,
\* and is undefined if init() has replaced promise_ since it was loaded.
NotifySet(k) ==
    /\ ioPc[k] = "notify"
    /\ \/ /\ ioPtr[k] = cur /\ ~promiseSet
          /\ promiseSet' = TRUE /\ setBy' = k
          /\ ioPc' = [ioPc EXCEPT ![k] = "idle"]
          /\ UNCHANGED ub
       \/ /\ ioPtr[k] = cur /\ promiseSet
          /\ ioPc' = [ioPc EXCEPT ![k] = "dead"]
          /\ UNCHANGED <<promiseSet, setBy, ub>>
       \/ /\ ioPtr[k] # cur
          /\ ub' = TRUE
          /\ \E pc \in {"idle", "dead"} : ioPc' = [ioPc EXCEPT ![k] = pc]
          /\ UNCHANGED <<promiseSet, setBy>>
    /\ UNCHANGED <<appPc, cur, link, versionSent, ioPtr, loaded, transports, producing, outcome>>

-----------------------------------------------------------------------------
\* The four requests of join, each answered on the current connection.

Answerable(request) == appPc = request /\ link[cur] = "up"

\* get_router_rtp_capabilities and load_capabilities.
GetRouterRtpCapabilities ==
    /\ Answerable("caps")
    /\ loaded' = TRUE
    /\ appPc' = "send"
    /\ UNCHANGED <<cur, link, promiseSet, setBy, versionSent, ioPc, ioPtr, transports,
                   producing, outcome, ub>>

\* Mutant: a received transport is stored as a sending one.
CreateTransportAlwaysSend(request, next) ==
    /\ Answerable(request)
    /\ \E i \in TransportIds :
          /\ transports[i] = NoTransport
          /\ transports' = [transports EXCEPT ![i] = [join |-> cur, send |-> TRUE]]
    /\ appPc' = next
    /\ UNCHANGED <<cur, link, promiseSet, setBy, versionSent, ioPc, ioPtr, loaded,
                   producing, outcome, ub>>

\* Mutant: bsend_transport is left uninitialised.
CreateTransportNoFlag(request, next) ==
    /\ Answerable(request)
    /\ \E i \in TransportIds :
          /\ transports[i] = NoTransport
          /\ transports' = [transports EXCEPT ![i] = [join |-> cur]]
    /\ appPc' = next
    /\ UNCHANGED <<cur, link, promiseSet, setBy, versionSent, ioPc, ioPtr, loaded,
                   producing, outcome, ub>>

\* create_webrtc_transport and on_create_{send,recv}_transport_response; the
\* list keeps the transports of earlier joins.
CreateTransport(request, next) ==
    /\ Answerable(request)
    /\ \E i \in TransportIds :
          /\ transports[i] = NoTransport
          /\ transports' = [transports EXCEPT ![i] = [join |-> cur, send |-> request = "send"]]
    /\ appPc' = next
    /\ UNCHANGED <<cur, link, promiseSet, setBy, versionSent, ioPc, ioPtr, loaded,
                   producing, outcome, ub>>

CreateSendTransport == CreateTransport("send", "recv")
CreateRecvTransport == CreateTransport("recv", "join")

\* join and on_join_response.
JoinRoom ==
    /\ Answerable("join")
    /\ appPc' = "idle"
    /\ outcome' = [outcome EXCEPT ![cur] = "ok"]
    /\ UNCHANGED <<cur, link, promiseSet, setBy, versionSent, ioPc, ioPtr, loaded,
                   transports, producing, ub>>

-----------------------------------------------------------------------------
\* What a publisher asks for once a transport exists.

\* Mutant: bsend_transport is not looked at.
get_send_transport_param_either ==
    LET known == {i \in TransportIds : transports[i] # NoTransport}
    IN  {i \in known : \A j \in known : i <= j}

\* get_send_transport_param: the first sending one in the order of the map, or
\* none.
SendIds == {i \in TransportIds : transports[i].join # NoJoin /\ transports[i].send}
get_send_transport_param == {i \in SendIds : \A j \in SendIds : i <= j}

\* connect_webrtc_transport and produce, up to the response.
StartRequest(request) ==
    /\ appPc = "idle"
    /\ target' \in get_send_transport_param
    /\ appPc' = request
    /\ UNCHANGED <<cur, link, promiseSet, setBy, versionSent, ioPc, ioPtr, loaded,
                   transports, verdict, outcome, ub>>

\* connect_webrtc_transport returns 0 on any response.
ConnectResponse ==
    /\ Answerable("connect")
    /\ appPc' = "idle" /\ target' = NoId
    /\ UNCHANGED <<cur, link, promiseSet, setBy, versionSent, ioPc, ioPtr, loaded,
                   transports, verdict, outcome, ub>>

\* on_produce_response returns 0 whether "ok" is true or false, and -1 if there is
\* none: the server knows only the transports of the connection it is asked on.
ProduceResponse ==
    /\ Answerable("produce")
    /\ \/ transports[target].join = cur /\ verdict' = "accepted"
       \/ verdict' = "refused"
       \/ UNCHANGED verdict
    /\ appPc' = "idle" /\ target' = NoId
    /\ UNCHANGED <<cur, link, promiseSet, setBy, versionSent, ioPc, ioPtr, loaded,
                   transports, outcome, ub>>

-----------------------------------------------------------------------------

(***************************************************************************)
(* A request of join gets a response that its handler cannot use: one that *)
(* does not parse, lacks "ok", or lacks data, as an "ok": false does (the  *)
(* handlers test !response->ok, the absence of an absl::optional<bool>, or *)
(* nothing).                                                               *)
(*   - The handlers of the capabilities and of the two transports return   *)
(*     -1, or throw (load_capabilities, iceCandidates.value()): join ends, *)
(*     and what earlier requests have stored stays.                        *)
(*   - Reading absent data, or a null response in on_join_response, is     *)
(*     undefined: a crash, or a join that goes on with nothing read.       *)
(***************************************************************************)
Rejected(request) ==
    /\ Answerable(request)
    /\ \/ /\ request # "join" /\ appPc' = "idle"
          /\ outcome' = [outcome EXCEPT ![cur] = request]
          /\ UNCHANGED loaded
       \/ appPc' = "crashed" /\ UNCHANGED <<loaded, outcome>>
       \/ request = "caps" /\ appPc' = "send" /\ loaded' = TRUE /\ UNCHANGED outcome
       \/ /\ request = "join" /\ appPc' = "idle"
          /\ outcome' = [outcome EXCEPT ![cur] = "ok"]
          /\ UNCHANGED loaded
    /\ UNCHANGED <<cur, link, promiseSet, setBy, versionSent, ioPc, ioPtr, transports,
                   producing, ub>>

\* send_request_and_recv_response never returns: MSSignal has dropped the response
\* that came before the request was in ack_list_, or given it to another request.
ResponseMissed ==
    /\ appPc \in Requests
    /\ appPc' = "blocked"
    /\ UNCHANGED <<cur, link, promiseSet, setBy, versionSent, ioPc, ioPtr, loaded,
                   transports, producing, outcome, ub>>

\* The connection is lost; the caller of a pending request is never woken.
ConnectionLost(k) ==
    /\ link[k] = "up"
    /\ link' = [link EXCEPT ![k] = "lost"]
    /\ UNCHANGED <<appPc, cur, promiseSet, setBy, versionSent, ioPc, ioPtr, loaded,
                   transports, producing, outcome, ub>>

-----------------------------------------------------------------------------

Answer == \/ GetRouterRtpCapabilities \/ CreateSendTransport \/ CreateRecvTransport
          \/ JoinRoom \/ ConnectResponse \/ ProduceResponse
          \/ \E r \in JoinRequests : Rejected(r)

Next == \/ InitSignal \/ ConnectReturn \/ VersionReady \/ VersionTimeout
        \/ \E k \in Joins : NotifyStart(k) \/ NotifySet(k) \/ ConnectionLost(k)
        \/ \E r \in ProduceRequests : StartRequest(r)
        \/ Answer \/ ResponseMissed

\* The caller runs, its timer expires, connect_sync returns unless its verdict is
\* lost (WSPPClient.ConnectReturns), and a request whose response is not missed is
\* answered (Rpc, through MSSignal).
Fairness == /\ WF_vars(ConnectReturn)
            /\ WF_vars(VersionReady) /\ WF_vars(VersionTimeout)
            /\ WF_vars(Answer)

Spec == Init /\ [][Next]_vars /\ Fairness

-----------------------------------------------------------------------------

TypeOK == /\ appPc \in {"idle", "connecting", "version", "blocked", "crashed"} \cup Requests
          /\ cur \in Joins \cup {NoJoin}
          /\ link \in [Joins -> {"none", "up", "failed", "lost"}]
          /\ promiseSet \in BOOLEAN /\ setBy \in Joins \cup {NoJoin}
          /\ versionSent \in [Joins -> BOOLEAN]
          /\ ioPc \in [Joins -> {"idle", "notify", "dead"}]
          /\ ioPtr \in [Joins -> Joins \cup {NoJoin}]
          /\ loaded \in BOOLEAN
          /\ transports \in [TransportIds -> Transport]
          /\ target \in TransportIds \cup {NoId}
          /\ verdict \in {"none", "accepted", "refused"}
          /\ outcome \in [Joins -> {"none", "timeout", "ok", "caps", "send", "recv"}]
          /\ ub \in BOOLEAN

\* A join up to k timed out.
Disturbed(k) == \E j \in Joins : j <= k /\ outcome[j] = "timeout"

(***************************************************************************)
(* A join gets past init() on the version notification of its own          *)
(* connection, or on one an earlier connection had left over.  Left over   *)
(* means: the join of that connection timed out before it came, or was     *)
(* itself let through by a left-over one.  One timeout can so shift all    *)
(* later joins by one, for on_recv_notify does not know which MSSignal     *)
(* calls it; without a timeout no join is let through too early.           *)
(***************************************************************************)
OwnVersion ==
    appPc \in JoinRequests => \/ setBy = cur
                              \/ setBy \in Joins /\ setBy < cur /\ Disturbed(setBy)

(***************************************************************************)
(* A join that returned 0 left what publish and subscribe look for:        *)
(* capabilities loaded, and a sending and a receiving transport of its own *)
(* in transport_list_, whatever responses it was given.                    *)
(***************************************************************************)
JoinedIsReady ==
    \A k \in Joins :
        outcome[k] = "ok" =>
            /\ loaded
            /\ \A dir \in BOOLEAN :
                  \E i \in TransportIds : transports[i] = [join |-> k, send |-> dir]

(***************************************************************************)
(* A publisher uses a sending transport of a join, this one or an earlier, *)
(* that succeeded, or that failed on its very last transport, the          *)
(* receiving one: transport_list_ is never cleared, so such a join leaves  *)
(* its sending transport to be picked.  A join that timed out in init(),   *)
(* or failed on the capabilities or on the sending transport, leaves none. *)
(* (A publisher on another thread may also find that of a join in          *)
(* progress; here the thread that joins is the one that publishes.)        *)
(***************************************************************************)
TargetIsUsable ==
    target # NoId => /\ transports[target].send
                     /\ outcome[transports[target].join] \in {"ok", "recv"}

(***************************************************************************)
(* produce() returns 0 only if the server accepted the producer: a         *)
(* response with "ok": false is an error response.                         *)
(***************************************************************************)
ProduceVerdict == verdict # "refused"

(***************************************************************************)
(* The wait for the version ends, whatever became of the connection.  And  *)
(* join returns, unless its caller was stranded: in connect(), whose wait  *)
(* has no bound and whose verdict may be lost; in a request whose response *)
(* was missed; or in one on a connection that is gone or was never up      *)
(* (or the ids of the bound TransportIds are used up).                     *)
(***************************************************************************)
JoinReturns ==
    /\ appPc = "version" ~> appPc # "version"
    /\ appPc \in {"connecting", "version"} \cup JoinRequests
           ~> \/ appPc \in {"idle", "crashed", "blocked"}
              \/ cur # NoJoin /\ link[cur] \in {"failed", "lost"}
              \/ \A i \in TransportIds : transports[i] # NoTransport
=============================================================================
