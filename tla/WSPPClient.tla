----------------------------- MODULE WSPPClient -----------------------------
(***************************************************************************)
(* The websocket client: mssdk/websocket/WSPPClient.cpp over WSClient.cpp  *)
(* (and its TLS twin WSSClient.cpp, which has the same control).           *)
(*                                                                         *)
(* connect_sync starts an attempt, allocates promise_ and blocks on it     *)
(* with mutex_ held; on_open or on_fail, on the io thread of the attempt,  *)
(* fulfils it without taking mutex_.  The io thread is started before      *)
(* promise_ is assigned, and the constructor leaves promise_ uninitialised.*)
(* Every attempt has its own websocketpp endpoint and io thread; replacing *)
(* an endpoint stops it but does not wait for the handler that is running. *)
(***************************************************************************)
EXTENDS Integers, FiniteSets

CONSTANTS MaxAttempts,  \* bound: calls of connect_sync
          MaxTexts      \* bound: text frames per attempt

ASSUME BoundsAssumption == MaxAttempts \in Nat /\ MaxTexts \in Nat

Attempts == 1..MaxAttempts
None     == 0             \* a null ws_client_

Success == "success"       \* 0, from on_open
Error   == "failure"       \* the error code of on_fail, or -1

VARIABLES
    callPc,    \* "idle", "started" (endpoint connecting), "waiting" (on promise_)
    attempt,   \* number of calls of connect_sync so far
    result,    \* per attempt: what connect_sync returned, "none" before
    mutex,     \* holder of WSPPClient::mutex_: "free", "caller"
    promise,   \* promise_: "null", "garbage", "fresh", "ok", "error", "deleted"
    wsClient,  \* ws_client_: the attempt whose endpoint it owns
    status,    \* ws_status_
    conn,      \* per attempt: state of the endpoint's connection
    stopped,   \* per attempt: ws_client_->stop() was called
    ioPc,      \* per attempt: the handler the io thread is in
    texts,     \* per attempt: text frames received
    received,  \* per attempt: texts pushed to recv_text_que_ and to the observer
    missed,    \* ghost: a verdict found no promise to fulfil
    ub         \* ghost: a verdict used an uninitialised or deleted promise_

vars == <<callPc, attempt, result, mutex, promise, wsClient, status, conn,
          stopped, ioPc, texts, received, missed, ub>>

Init == /\ callPc = "idle" /\ attempt = 0
        /\ result = [k \in Attempts |-> "none"]
        /\ mutex = "free"
        /\ promise \in {"null", "garbage"}    \* never initialised
        /\ wsClient = None /\ status = "init"
        /\ conn = [k \in Attempts |-> "none"]
        /\ stopped = [k \in Attempts |-> FALSE]
        /\ ioPc = [k \in Attempts |-> "idle"]
        /\ texts = [k \in Attempts |-> 0]
        /\ received = [k \in Attempts |-> 0]
        /\ missed = FALSE /\ ub = FALSE

-----------------------------------------------------------------------------
\* The caller.

\* WSPPClient::close and WSClient::close: the current endpoint, if any, is
\* stopped and abandoned (release()).
StopCurrent == stopped' = [k \in Attempts |-> stopped[k] \/ k = wsClient]

\* WSClient::connect of a new endpoint: 0 with its io thread running and the
\* handshake begun, or -1 for a bad uri or subprotocol.
EndpointConnect(k, ret) ==
    \/ ret = 0 /\ conn' = [conn EXCEPT ![k] = "handshake"]
    \/ ret = -1 /\ UNCHANGED conn

(***************************************************************************)
(* connect_sync up to the return of connect(): the previous endpoint is    *)
(* closed and a new one told to connect.  If it cannot, connect_sync       *)
(* returns at once, with the status left at CONNECTING.                    *)
(***************************************************************************)
ConnectSync ==
    /\ callPc = "idle" /\ mutex = "free"
    /\ attempt < MaxAttempts
    /\ attempt' = attempt + 1
    /\ StopCurrent
    /\ wsClient' = attempt'
    /\ status' = "connecting"
    /\ \/ /\ EndpointConnect(attempt', 0)
          /\ callPc' = "started" /\ mutex' = "caller"
          /\ UNCHANGED result
       \/ /\ EndpointConnect(attempt', -1)
          /\ result' = [result EXCEPT ![attempt'] = Error]
          /\ UNCHANGED <<callPc, mutex>>
    /\ UNCHANGED <<promise, ioPc, texts, received, missed, ub>>

\* promise_ = new std::promise<int>(), after the io thread is running.
NewPromise ==
    /\ callPc = "started"
    /\ callPc' = "waiting"
    /\ promise' = "fresh"
    /\ UNCHANGED <<attempt, result, mutex, wsClient, status, conn, stopped, ioPc,
                   texts, received, missed, ub>>

\* get_future().get() returns; delete promise_ leaves the pointer dangling.
ConnectReturn ==
    /\ callPc = "waiting"
    /\ promise \in {"ok", "error"}
    /\ result' = [result EXCEPT ![attempt] = IF promise = "ok" THEN Success ELSE Error]
    /\ promise' = "deleted"
    /\ callPc' = "idle" /\ mutex' = "free"
    /\ UNCHANGED <<attempt, wsClient, status, conn, stopped, ioPc, texts, received,
                   missed, ub>>

\* Mutant: the status is left as it was.
CloseKeepsStatus ==
    /\ mutex = "free"
    /\ StopCurrent
    /\ wsClient' = None
    /\ UNCHANGED <<callPc, attempt, result, mutex, promise, status, conn, ioPc, texts,
                   received, missed, ub>>

\* WSPPClient::close from another thread.
Close ==
    /\ mutex = "free"
    /\ StopCurrent
    /\ wsClient' = None
    /\ status' = "disconnect"
    /\ UNCHANGED <<callPc, attempt, result, mutex, promise, conn, ioPc, texts,
                   received, missed, ub>>

-----------------------------------------------------------------------------
\* The io thread of attempt k.  A handler starts only while the endpoint runs,
\* and finishes even if it is stopped meanwhile.

IoStart(k) ==
    /\ ioPc[k] = "idle" /\ ~stopped[k]
    /\ \/ /\ conn[k] = "handshake"
          /\ \/ ioPc' = [ioPc EXCEPT ![k] = "on_open"] /\ conn' = [conn EXCEPT ![k] = "open"]
             \/ ioPc' = [ioPc EXCEPT ![k] = "on_fail"] /\ conn' = [conn EXCEPT ![k] = "failed"]
          /\ UNCHANGED texts
       \/ /\ conn[k] = "open" /\ texts[k] < MaxTexts
          /\ ioPc' = [ioPc EXCEPT ![k] = "on_text"]
          /\ texts' = [texts EXCEPT ![k] = @ + 1]
          /\ UNCHANGED conn
       \/ /\ conn[k] = "open"
          /\ ioPc' = [ioPc EXCEPT ![k] = "on_close"]
          /\ conn' = [conn EXCEPT ![k] = "closed"]
          /\ UNCHANGED texts
    /\ UNCHANGED <<callPc, attempt, result, mutex, promise, wsClient, status,
                   stopped, received, missed, ub>>

\* Mutant: the handler's own event stored as the status.
OnVerdictRaw(k) ==
    /\ ioPc[k] \in {"on_open", "on_fail"}
    /\ status' = ioPc[k]
    /\ ioPc' = [ioPc EXCEPT ![k] = IF @ = "on_open" THEN "set_ok" ELSE "set_error"]
    /\ UNCHANGED <<callPc, attempt, result, mutex, promise, wsClient, conn, stopped,
                   texts, received, missed, ub>>

\* on_open and on_fail up to the test of promise_: the status, then the observer.
OnVerdict(k) ==
    /\ ioPc[k] \in {"on_open", "on_fail"}
    /\ status' = IF ioPc[k] = "on_open" THEN "connected" ELSE "disconnect"
    /\ ioPc' = [ioPc EXCEPT ![k] = IF @ = "on_open" THEN "set_ok" ELSE "set_error"]
    /\ UNCHANGED <<callPc, attempt, result, mutex, promise, wsClient, conn, stopped,
                   texts, received, missed, ub>>

Verdict(k) == IF ioPc[k] = "set_ok" THEN "ok" ELSE "error"

\* Mutant: on_fail reports success.
SetPromiseOk(k) ==
    /\ ioPc[k] \in {"set_ok", "set_error"}
    /\ promise = "fresh" /\ promise' = "ok"
    /\ ioPc' = [ioPc EXCEPT ![k] = "idle"]
    /\ UNCHANGED <<callPc, attempt, result, mutex, wsClient, status, conn, stopped,
                   texts, received, missed, ub>>

\* Mutant: only on_open fulfils promise_.
SetPromiseOpenOnly(k) ==
    /\ ioPc[k] \in {"set_ok", "set_error"}
    /\ promise' = IF ioPc[k] = "set_ok" /\ promise = "fresh" THEN "ok" ELSE promise
    /\ missed' = (missed \/ promise # "fresh")
    /\ ioPc' = [ioPc EXCEPT ![k] = "idle"]
    /\ UNCHANGED <<callPc, attempt, result, mutex, wsClient, status, conn, stopped,
                   texts, received, ub>>

(***************************************************************************)
(* if (promise_) promise_->set_value(...).  A null pointer skips it; an    *)
(* uninitialised or deleted one is undefined behaviour: the write is lost  *)
(* or the thread crashes; a second set_value throws future_error.          *)
(***************************************************************************)
SetPromise(k) ==
    /\ ioPc[k] \in {"set_ok", "set_error"}
    /\ \/ /\ promise = "null"
          /\ missed' = TRUE
          /\ ioPc' = [ioPc EXCEPT ![k] = "idle"]
          /\ UNCHANGED <<promise, ub>>
       \/ /\ promise \in {"garbage", "deleted"}
          /\ ub' = TRUE
          /\ \E pc \in {"idle", "dead"} : ioPc' = [ioPc EXCEPT ![k] = pc]
          /\ UNCHANGED <<promise, missed>>
       \/ /\ promise \in {"fresh", "ok", "error"}
          /\ promise' = IF promise = "fresh" THEN Verdict(k) ELSE promise
          /\ ioPc' = [ioPc EXCEPT ![k] = IF promise = "fresh" THEN "idle" ELSE "dead"]
          /\ UNCHANGED <<missed, ub>>
    /\ UNCHANGED <<callPc, attempt, result, mutex, wsClient, status, conn, stopped,
                   texts, received>>

\* on_close does not touch promise_ and reports on_fail to the observer.
OnClose(k) ==
    /\ ioPc[k] = "on_close"
    /\ status' = "disconnect"
    /\ ioPc' = [ioPc EXCEPT ![k] = "idle"]
    /\ UNCHANGED <<callPc, attempt, result, mutex, promise, wsClient, conn, stopped,
                   texts, received, missed, ub>>

\* Mutant: mutex_ is not taken.
OnTextMessageUnlocked(k) ==
    /\ ioPc[k] = "on_text"
    /\ received' = [received EXCEPT ![k] = @ + 1]
    /\ ioPc' = [ioPc EXCEPT ![k] = "idle"]
    /\ UNCHANGED <<callPc, attempt, result, mutex, promise, wsClient, status, conn,
                   stopped, texts, missed, ub>>

\* on_text_message: under mutex_, the queue and then the observer.
OnTextMessage(k) ==
    /\ ioPc[k] = "on_text"
    /\ mutex = "free"
    /\ received' = [received EXCEPT ![k] = @ + 1]
    /\ ioPc' = [ioPc EXCEPT ![k] = "idle"]
    /\ UNCHANGED <<callPc, attempt, result, mutex, promise, wsClient, status, conn,
                   stopped, texts, missed, ub>>

-----------------------------------------------------------------------------

Io(k) == IoStart(k) \/ OnVerdict(k) \/ SetPromise(k) \/ OnClose(k) \/ OnTextMessage(k)

Next == \/ ConnectSync \/ NewPromise \/ ConnectReturn \/ Close
        \/ \E k \in Attempts : Io(k)

\* The endpoint ends a handshake (websocketpp has an open-handshake timeout) and
\* runs its handlers to the end; the caller's thread is scheduled.
Fairness == /\ WF_vars(NewPromise) /\ WF_vars(ConnectReturn)
            /\ \A k \in Attempts : /\ WF_vars(IoStart(k) /\ conn[k] = "handshake")
                                   /\ WF_vars(OnVerdict(k)) /\ WF_vars(SetPromise(k))

Spec == Init /\ [][Next]_vars /\ Fairness

-----------------------------------------------------------------------------

TypeOK == /\ callPc \in {"idle", "started", "waiting"}
          /\ attempt \in 0..MaxAttempts
          /\ result \in [Attempts -> {"none", Success, Error}]
          /\ mutex \in {"free", "caller"}
          /\ promise \in {"null", "garbage", "fresh", "ok", "error", "deleted"}
          /\ wsClient \in Attempts \cup {None}
          /\ status \in {"init", "connecting", "connected", "disconnect"}
          /\ conn \in [Attempts -> {"none", "handshake", "open", "failed", "closed"}]
          /\ stopped \in [Attempts -> BOOLEAN]
          /\ ioPc \in [Attempts -> {"idle", "on_open", "on_fail", "set_ok", "set_error",
                                    "on_close", "on_text", "dead"}]
          /\ texts \in [Attempts -> 0..MaxTexts]
          /\ received \in [Attempts -> 0..MaxTexts]
          /\ missed \in BOOLEAN /\ ub \in BOOLEAN

(***************************************************************************)
(* The verdict is the attempt's own: connect_sync returns 0 only for an    *)
(* attempt whose endpoint was opened, and an error only for one that       *)
(* failed or never started, whatever earlier attempts left behind in       *)
(* promise_.                                                               *)
(***************************************************************************)
VerdictIsOwn ==
    \A k \in Attempts :
        /\ result[k] = Success => conn[k] \in {"open", "closed"}
        /\ result[k] = Error => conn[k] \in {"failed", "none"}

(***************************************************************************)
(* No text reaches the observer while connect_sync of its attempt is still *)
(* inside: on_text_message waits for mutex_, so MSSignal sees the first    *)
(* message only once connect() has told it that the connection is up.      *)
(***************************************************************************)
TextAfterReturn == \A k \in Attempts : received[k] > 0 => result[k] = Success

(***************************************************************************)
(* status() says CONNECTED only while the endpoint ws_client_ owns is open *)
(* or its on_close is about to run.                                        *)
(***************************************************************************)
ConnectedIsTrue ==
    status = "connected" =>
        /\ wsClient # None
        /\ \/ conn[wsClient] = "open"
           \/ conn[wsClient] = "closed" /\ ioPc[wsClient] = "on_close"

(***************************************************************************)
(* A caller inside connect_sync gets out, unless the handshake ended       *)
(* before promise_ was assigned: the verdict then went to whatever the     *)
(* pointer held, and nobody fulfils the new promise.                       *)
(***************************************************************************)
ConnectReturns == callPc # "idle" ~> (callPc = "idle" \/ missed \/ ub)
=============================================================================
