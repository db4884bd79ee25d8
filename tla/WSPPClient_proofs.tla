-------------------------- MODULE WSPPClient_proofs --------------------------
(***************************************************************************)
(* The invariants of WSPPClient, for any number of connection attempts and *)
(* texts.                                                                  *)
(***************************************************************************)
EXTENDS WSPPClient, TLAPS

\* The io thread is in a handler that is to fulfil promise_.
Deciding(k) == ioPc[k] \in {"on_open", "on_fail", "set_ok", "set_error"}

\* mutex_ is held exactly while a caller is inside connect_sync.
Held == mutex = "caller" <=> callPc # "idle"

\* The handler an io thread is in goes with the state of its connection.
HandlerFits ==
    \A k \in Attempts :
        /\ ioPc[k] \in {"on_open", "set_ok", "on_text"} => conn[k] = "open"
        /\ ioPc[k] \in {"on_fail", "set_error"} => conn[k] = "failed"
        /\ ioPc[k] = "on_close" => conn[k] = "closed"

\* Attempts that were not made, and attempts that have returned: only the one
\* in progress may have its handshake, or the handler of its outcome, ahead.
Unmade   == \A k \in Attempts : k > attempt => conn[k] = "none" /\ result[k] = "none"
Returned(k) == k < attempt \/ (k = attempt /\ callPc = "idle")
Settled  == \A k \in Attempts :
                Returned(k) => result[k] # "none" /\ conn[k] # "handshake" /\ ~Deciding(k)

\* The attempt in progress owns ws_client_, and promise_ is its own once fresh.
Current ==
    callPc # "idle" =>
        /\ attempt \in Attempts /\ wsClient = attempt /\ result[attempt] = "none"
        /\ conn[attempt] # "none"
        /\ callPc = "started" => promise \notin {"fresh", "ok", "error"}
        /\ callPc = "waiting" =>
              /\ promise \in {"fresh", "ok", "error"}
              /\ promise = "ok" => conn[attempt] \in {"open", "closed"}
              /\ promise = "error" => conn[attempt] = "failed"
              /\ promise # "fresh" => ~Deciding(attempt)

Idle == callPc = "idle" => promise \notin {"fresh", "ok", "error"}

\* Every text received is counted first.
Counted == \A k \in Attempts :
               received[k] + (IF ioPc[k] = "on_text" THEN 1 ELSE 0) <= texts[k]

ConnInv == /\ TypeOK /\ Held /\ HandlerFits /\ Unmade /\ Settled /\ Current /\ Idle /\ Counted
           /\ VerdictIsOwn /\ TextAfterReturn /\ ConnectedIsTrue

USE DEF Attempts, None, Success, Error

\* TypeOK in two parts: the object's own members, and those of its endpoints.
ObjectTypes ==
    /\ callPc \in {"idle", "started", "waiting"}
    /\ attempt \in 0..MaxAttempts
    /\ mutex \in {"free", "caller"}
    /\ promise \in {"null", "garbage", "fresh", "ok", "error", "deleted"}
    /\ wsClient \in Attempts \cup {None}
    /\ status \in {"init", "connecting", "connected", "disconnect"}
    /\ missed \in BOOLEAN /\ ub \in BOOLEAN
EndpointTypes ==
    /\ result \in [Attempts -> {"none", Success, Error}]
    /\ conn \in [Attempts -> {"none", "handshake", "open", "failed", "closed"}]
    /\ stopped \in [Attempts -> BOOLEAN]
    /\ ioPc \in [Attempts -> {"idle", "on_open", "on_fail", "set_ok", "set_error",
                              "on_close", "on_text", "dead"}]
    /\ texts \in [Attempts -> 0..MaxTexts]
    /\ received \in [Attempts -> 0..MaxTexts]

LEMMA TypeParts == /\ TypeOK <=> ObjectTypes /\ EndpointTypes
                   /\ TypeOK' <=> ObjectTypes' /\ EndpointTypes'
BY DEF TypeOK, ObjectTypes, EndpointTypes

LEMMA ConnInit == Init => ConnInv
<1> SUFFICES ASSUME Init PROVE ConnInv
  OBVIOUS
<1>1. ObjectTypes
  <2>1. callPc \in {"idle", "started", "waiting"} /\ mutex \in {"free", "caller"}
    BY DEF Init
  <2>2. attempt \in 0..MaxAttempts /\ wsClient \in Attempts \cup {None}
    BY BoundsAssumption DEF Init
  <2>3. promise \in {"null", "garbage", "fresh", "ok", "error", "deleted"}
    BY DEF Init
  <2>4. status \in {"init", "connecting", "connected", "disconnect"}
    BY DEF Init
  <2>5. missed \in BOOLEAN /\ ub \in BOOLEAN
    BY DEF Init
  <2> QED BY <2>1, <2>2, <2>3, <2>4, <2>5 DEF ObjectTypes
<1>2. EndpointTypes
  BY BoundsAssumption DEF Init, EndpointTypes
<1>3. Held /\ HandlerFits
  BY DEF Init, Held, HandlerFits
<1>4. Unmade /\ Settled
  BY DEF Init, Unmade, Settled, Returned
<1>5. Current /\ Idle /\ Counted
  BY DEF Init, Current, Idle, Counted
<1>6. VerdictIsOwn /\ TextAfterReturn /\ ConnectedIsTrue
  BY DEF Init, VerdictIsOwn, TextAfterReturn, ConnectedIsTrue
<1> QED BY <1>1, <1>2, <1>3, <1>4, <1>5, <1>6, TypeParts DEF ConnInv

LEMMA ConnectSyncKeeps == ConnInv /\ ConnectSync => ConnInv'
<1> SUFFICES ASSUME ConnInv, ConnectSync PROVE ConnInv'
  OBVIOUS
<1>0. ObjectTypes /\ EndpointTypes
  BY TypeParts DEF ConnInv
<1>d. \/ /\ conn' = [conn EXCEPT ![attempt'] = "handshake"] /\ result' = result
         /\ callPc' = "started" /\ mutex' = "caller"
      \/ /\ result' = [result EXCEPT ![attempt'] = Error] /\ conn' = conn
         /\ callPc' = callPc /\ mutex' = mutex
  BY DEF ConnectSync, EndpointConnect
<1>a. attempt \in 0..MaxAttempts /\ attempt' = attempt + 1 /\ attempt' \in Attempts
  BY <1>0, BoundsAssumption DEF ObjectTypes, ConnectSync
<1>1. ObjectTypes'
  BY <1>0, <1>a, <1>d DEF ObjectTypes, ConnectSync
<1>2. EndpointTypes'
  BY <1>0, <1>a, <1>d DEF EndpointTypes, ConnectSync, StopCurrent
<1>3. conn[attempt'] = "none" /\ result[attempt'] = "none"
  BY <1>a DEF ConnInv, Unmade
<1>b. \A k \in Attempts : k # attempt' => conn'[k] = conn[k] /\ result'[k] = result[k]
  BY <1>0, <1>d DEF EndpointTypes
<1>c. \/ /\ conn'[attempt'] = "handshake" /\ result' = result /\ callPc' = "started"
      \/ /\ result'[attempt'] = Error /\ conn' = conn /\ callPc' = "idle"
  BY <1>0, <1>a, <1>d DEF ConnectSync, EndpointTypes
<1>4. Held'
  BY <1>d DEF ConnInv, ConnectSync, Held
<1>5. HandlerFits'
  <2>1. ioPc' = ioPc
    BY DEF ConnectSync
  <2>2. ioPc[attempt'] \notin {"on_open", "set_ok", "on_text", "on_fail", "set_error", "on_close"}
    BY <1>3, <1>a DEF ConnInv, HandlerFits
  <2>3. \A k \in Attempts : conn'[k] = conn[k] \/ k = attempt'
    BY <1>b
  <2> QED BY <2>1, <2>2, <2>3 DEF ConnInv, HandlerFits
<1>6. Unmade'
  BY <1>a, <1>b DEF ConnInv, Unmade
<1>7. Settled'
  <2> SUFFICES ASSUME NEW k \in Attempts, Returned(k)'
               PROVE  (result[k] # "none" /\ conn[k] # "handshake" /\ ~Deciding(k))'
    BY DEF Settled
  <2>1. CASE k = attempt'
    BY <2>1, <1>3, <1>c, <1>d DEF ConnInv, ConnectSync, Returned, Deciding, HandlerFits
  <2>2. CASE k # attempt'
    BY <2>2, <1>a, <1>b, <1>d DEF ConnInv, ConnectSync, Settled, Returned, Deciding
  <2> QED BY <2>1, <2>2
<1>8. Current' /\ Idle'
  BY <1>0, <1>a, <1>d, <1>3 DEF ConnInv, ConnectSync, Current, Idle, EndpointTypes
<1>9. Counted'
  BY <1>d DEF ConnInv, ConnectSync, Counted
<1>10. VerdictIsOwn'
  BY <1>0, <1>a, <1>d, <1>3 DEF ConnInv, ConnectSync, VerdictIsOwn, EndpointTypes
<1>11. TextAfterReturn'
  BY <1>0, <1>a, <1>d, <1>3 DEF ConnInv, ConnectSync, TextAfterReturn, EndpointTypes
<1>12. ConnectedIsTrue'
  BY DEF ConnectSync, ConnectedIsTrue
<1> QED BY <1>1, <1>2, <1>4, <1>5, <1>6, <1>7, <1>8, <1>9, <1>10, <1>11, <1>12, TypeParts
        DEF ConnInv

LEMMA NewPromiseKeeps == ConnInv /\ NewPromise => ConnInv'
<1> SUFFICES ASSUME ConnInv, NewPromise PROVE ConnInv'
  OBVIOUS
<1>1. ObjectTypes' /\ EndpointTypes'
  BY TypeParts DEF ConnInv, NewPromise, ObjectTypes, EndpointTypes
<1>2. Held' /\ HandlerFits' /\ Unmade' /\ Settled' /\ Counted'
  BY DEF ConnInv, NewPromise, Held, HandlerFits, Unmade, Settled, Returned, Deciding, Counted
<1>3. Current' /\ Idle'
  BY DEF ConnInv, NewPromise, Current, Idle
<1>4. VerdictIsOwn' /\ TextAfterReturn' /\ ConnectedIsTrue'
  BY DEF ConnInv, NewPromise, VerdictIsOwn, TextAfterReturn, ConnectedIsTrue
<1> QED BY <1>1, <1>2, <1>3, <1>4, TypeParts DEF ConnInv

LEMMA ConnectReturnKeeps == ConnInv /\ ConnectReturn => ConnInv'
<1> SUFFICES ASSUME ConnInv, ConnectReturn PROVE ConnInv'
  OBVIOUS
<1>0. ObjectTypes /\ EndpointTypes
  BY TypeParts DEF ConnInv
<1>1. /\ attempt \in Attempts /\ callPc = "waiting"
      /\ promise = "ok" => conn[attempt] \in {"open", "closed"}
      /\ promise = "error" => conn[attempt] = "failed"
      /\ ~Deciding(attempt) /\ promise \in {"ok", "error"}
      /\ conn[attempt] # "handshake"
  BY DEF ConnInv, ConnectReturn, Current
<1>2. result'[attempt] = IF promise = "ok" THEN Success ELSE Error
  BY <1>0, <1>1 DEF ConnectReturn, EndpointTypes
<1>3. \A k \in Attempts : k # attempt => result'[k] = result[k]
  BY <1>0 DEF ConnectReturn, EndpointTypes
<1>4. ObjectTypes'
  BY <1>0 DEF ConnectReturn, ObjectTypes
<1>5. EndpointTypes'
  BY <1>0 DEF ConnectReturn, EndpointTypes
<1>6. Held' /\ HandlerFits' /\ Counted'
  BY DEF ConnInv, ConnectReturn, Held, HandlerFits, Counted
<1>7. Unmade'
  BY <1>0, <1>3 DEF ConnInv, ConnectReturn, Unmade, ObjectTypes
<1>8. Settled'
  <2> SUFFICES ASSUME NEW k \in Attempts, Returned(k)'
               PROVE  (result[k] # "none" /\ conn[k] # "handshake" /\ ~Deciding(k))'
    BY DEF Settled
  <2>1. CASE k = attempt
    BY <2>1, <1>1, <1>2 DEF ConnectReturn, Deciding
  <2>2. CASE k # attempt
    BY <2>2, <1>3 DEF ConnInv, ConnectReturn, Settled, Returned, Deciding
  <2> QED BY <2>1, <2>2
<1>9. Current' /\ Idle'
  BY DEF ConnectReturn, Current, Idle
<1>10. VerdictIsOwn'
  BY <1>1, <1>2, <1>3 DEF ConnInv, ConnectReturn, VerdictIsOwn
<1>11. TextAfterReturn'
  <2>1. result[attempt] = "none"
    BY <1>1 DEF ConnInv, Current
  <2> QED BY <1>3, <2>1 DEF ConnInv, ConnectReturn, TextAfterReturn
<1>12. ConnectedIsTrue'
  BY DEF ConnInv, ConnectReturn, ConnectedIsTrue
<1> QED BY <1>4, <1>5, <1>6, <1>7, <1>8, <1>9, <1>10, <1>11, <1>12, TypeParts DEF ConnInv

LEMMA CloseKeeps == ConnInv /\ Close => ConnInv'
<1> SUFFICES ASSUME ConnInv, Close PROVE ConnInv'
  OBVIOUS
<1>0. ObjectTypes /\ EndpointTypes /\ callPc = "idle"
  BY TypeParts DEF ConnInv, Close, Held, ObjectTypes
<1>1. ObjectTypes'
  BY <1>0 DEF Close, ObjectTypes
<1>2. EndpointTypes'
  BY <1>0 DEF Close, StopCurrent, EndpointTypes
<1>3. Held' /\ HandlerFits' /\ Unmade' /\ Counted'
  BY DEF ConnInv, Close, Held, HandlerFits, Unmade, Counted
<1>4. Settled' /\ Current' /\ Idle'
  BY <1>0 DEF ConnInv, Close, Settled, Returned, Deciding, Current, Idle
<1>5. VerdictIsOwn' /\ TextAfterReturn' /\ ConnectedIsTrue'
  BY DEF ConnInv, Close, VerdictIsOwn, TextAfterReturn, ConnectedIsTrue
<1> QED BY <1>1, <1>2, <1>3, <1>4, <1>5, TypeParts DEF ConnInv

\* Only the attempt in progress can have a handler of its outcome ahead.
LEMMA OnlyCurrentDecides ==
    ASSUME ConnInv, NEW k \in Attempts, Deciding(k) \/ conn[k] = "handshake"
    PROVE  callPc # "idle" /\ k = attempt
<1>1. attempt \in 0..MaxAttempts /\ conn[k] # "none"
  BY TypeParts DEF ConnInv, ObjectTypes, HandlerFits, Deciding
<1>2. k <= attempt
  BY <1>1 DEF ConnInv, Unmade
<1>3. ~Returned(k)
  BY DEF ConnInv, Settled
<1> QED BY <1>1, <1>2, <1>3 DEF Returned

-----------------------------------------------------------------------------
\* A step of the io thread of k changes nothing of the other attempts.

LEMMA IoStartKeeps == ASSUME ConnInv, NEW k \in Attempts, IoStart(k) PROVE ConnInv'
<1>0. ObjectTypes /\ EndpointTypes
  BY TypeParts DEF ConnInv
<1>a. \A j \in Attempts : j # k => /\ conn'[j] = conn[j] /\ ioPc'[j] = ioPc[j]
                                    /\ texts'[j] = texts[j]
  BY <1>0 DEF IoStart, EndpointTypes
<1>b. \/ /\ conn[k] = "handshake" /\ texts'[k] = texts[k]
         /\ \/ ioPc'[k] = "on_open" /\ conn'[k] = "open"
            \/ ioPc'[k] = "on_fail" /\ conn'[k] = "failed"
      \/ /\ conn[k] = "open" /\ conn'[k] = "open" /\ ioPc'[k] = "on_text"
         /\ texts'[k] = texts[k] + 1 /\ texts[k] < MaxTexts
      \/ /\ conn[k] = "open" /\ conn'[k] = "closed" /\ ioPc'[k] = "on_close"
         /\ texts'[k] = texts[k]
  BY <1>0 DEF IoStart, EndpointTypes
<1>c. conn[k] = "handshake" => callPc # "idle" /\ k = attempt
  BY OnlyCurrentDecides
<1>d. /\ UNCHANGED <<callPc, attempt, result, mutex, promise, wsClient, status, received>>
      /\ ioPc[k] = "idle" /\ UNCHANGED <<stopped, missed, ub>>
  BY DEF IoStart
<1>1. ObjectTypes'
  BY <1>0, <1>d DEF ObjectTypes
<1>2. EndpointTypes'
  <2>1. conn' \in [Attempts -> {"none", "handshake", "open", "failed", "closed"}]
    BY <1>0 DEF IoStart, EndpointTypes
  <2>2. ioPc' \in [Attempts -> {"idle", "on_open", "on_fail", "set_ok", "set_error",
                                "on_close", "on_text", "dead"}]
    BY <1>0 DEF IoStart, EndpointTypes
  <2>3. texts' \in [Attempts -> 0..MaxTexts]
    <3>1. CASE UNCHANGED texts
      BY <3>1, <1>0 DEF EndpointTypes
    <3>2. CASE texts[k] < MaxTexts /\ texts' = [texts EXCEPT ![k] = texts[k] + 1]
      <4>1. texts[k] + 1 \in 0..MaxTexts
        BY <3>2, <1>0, BoundsAssumption DEF EndpointTypes
      <4> QED BY <4>1, <3>2, <1>0 DEF EndpointTypes
    <3> QED BY <3>1, <3>2 DEF IoStart
  <2> QED BY <2>1, <2>2, <2>3, <1>0, <1>d DEF EndpointTypes
<1>3. Held' /\ Idle'
  BY <1>d DEF ConnInv, Held, Idle
<1>4. HandlerFits'
  BY <1>a, <1>b DEF ConnInv, HandlerFits
<1>5. Unmade'
  BY <1>a, <1>b, <1>d DEF ConnInv, Unmade
<1>6. Settled'
  BY <1>a, <1>b, <1>c, <1>d, <1>0 DEF ConnInv, Settled, Returned, Deciding, ObjectTypes
<1>7. Current'
  BY <1>a, <1>b, <1>d DEF ConnInv, Current, Deciding
<1>8. Counted'
  BY <1>a, <1>b, <1>d, <1>0 DEF ConnInv, Counted, EndpointTypes
<1>9. VerdictIsOwn'
  <2>1. conn[k] = "handshake" => result[k] = "none"
    BY <1>c DEF ConnInv, Current
  <2> QED BY <2>1, <1>a, <1>b, <1>d DEF ConnInv, VerdictIsOwn
<1>10. TextAfterReturn'
  BY <1>d DEF ConnInv, TextAfterReturn
<1>11. ConnectedIsTrue'
  BY <1>0, <1>a, <1>b, <1>d DEF ConnInv, ConnectedIsTrue, ObjectTypes
<1> QED BY <1>1, <1>2, <1>3, <1>4, <1>5, <1>6, <1>7, <1>8, <1>9, <1>10, <1>11, TypeParts
        DEF ConnInv

LEMMA OnVerdictKeeps == ASSUME ConnInv, NEW k \in Attempts, OnVerdict(k) PROVE ConnInv'
<1>0. ObjectTypes /\ EndpointTypes
  BY TypeParts DEF ConnInv
<1>a. callPc # "idle" /\ k = attempt
  BY OnlyCurrentDecides DEF OnVerdict, Deciding
<1>b. \A j \in Attempts : j # k => ioPc'[j] = ioPc[j]
  BY <1>0 DEF OnVerdict, EndpointTypes
<1>c. \/ /\ ioPc[k] = "on_open" /\ ioPc'[k] = "set_ok" /\ status' = "connected"
      \/ /\ ioPc[k] = "on_fail" /\ ioPc'[k] = "set_error" /\ status' = "disconnect"
  BY <1>0 DEF OnVerdict, EndpointTypes
<1>d. UNCHANGED <<callPc, attempt, result, mutex, promise, wsClient, conn, stopped, texts,
                  received, missed, ub>>
  BY DEF OnVerdict
<1>1. ObjectTypes'
  BY <1>0, <1>c, <1>d DEF ObjectTypes
<1>2. EndpointTypes'
  BY <1>0 DEF OnVerdict, EndpointTypes
<1>3. Held' /\ Idle' /\ Unmade'
  BY <1>d DEF ConnInv, Held, Idle, Unmade
<1>4. HandlerFits'
  BY <1>b, <1>c, <1>d DEF ConnInv, HandlerFits
<1>5. Settled'
  BY <1>a, <1>b, <1>d, <1>0 DEF ConnInv, Settled, Returned, Deciding, ObjectTypes
<1>6. Current'
  BY <1>a, <1>c, <1>d DEF ConnInv, Current, Deciding
<1>7. Counted'
  BY <1>b, <1>c, <1>d DEF ConnInv, Counted
<1>8. VerdictIsOwn' /\ TextAfterReturn'
  BY <1>d DEF ConnInv, VerdictIsOwn, TextAfterReturn
<1>9. ConnectedIsTrue'
  <2>1. status' = "connected" => conn[k] = "open"
    BY <1>c DEF ConnInv, HandlerFits
  <2>2. wsClient = k
    BY <1>a DEF ConnInv, Current
  <2> QED BY <2>1, <2>2, <1>d DEF ConnectedIsTrue
<1> QED BY <1>1, <1>2, <1>3, <1>4, <1>5, <1>6, <1>7, <1>8, <1>9, TypeParts DEF ConnInv

LEMMA SetPromiseKeeps == ASSUME ConnInv, NEW k \in Attempts, SetPromise(k) PROVE ConnInv'
<1>0. ObjectTypes /\ EndpointTypes
  BY TypeParts DEF ConnInv
<1>a. callPc # "idle" /\ k = attempt
  BY OnlyCurrentDecides DEF SetPromise, Deciding
<1>b. \A j \in Attempts : j # k => ioPc'[j] = ioPc[j]
  BY <1>0 DEF SetPromise, EndpointTypes
<1>c. ioPc'[k] \in {"idle", "dead"} /\ ioPc[k] \in {"set_ok", "set_error"}
  BY <1>0 DEF SetPromise, EndpointTypes
<1>d. promise' = IF promise = "fresh" THEN Verdict(k) ELSE promise
  BY DEF SetPromise
<1>e. UNCHANGED <<callPc, attempt, result, mutex, wsClient, status, conn, stopped, texts,
                  received>>
  BY DEF SetPromise
<1>f. Verdict(k) \in {"ok", "error"}
  BY DEF Verdict
<1>1. ObjectTypes'
  <2>1. promise' \in {"null", "garbage", "fresh", "ok", "error", "deleted"}
    BY <1>0, <1>d, <1>f DEF ObjectTypes
  <2>2. missed' \in BOOLEAN /\ ub' \in BOOLEAN
    BY <1>0 DEF SetPromise, ObjectTypes
  <2> QED BY <2>1, <2>2, <1>0, <1>e DEF ObjectTypes
<1>2. EndpointTypes'
  BY <1>0 DEF SetPromise, EndpointTypes
<1>3. Held' /\ Idle' /\ Unmade'
  BY <1>a, <1>e DEF ConnInv, Held, Idle, Unmade
<1>4. HandlerFits'
  BY <1>b, <1>c, <1>e DEF ConnInv, HandlerFits
<1>5. Settled'
  BY <1>a, <1>b, <1>e, <1>0 DEF ConnInv, Settled, Returned, Deciding, ObjectTypes
<1>6. Current'
  <2>1. ~Deciding(attempt)'
    BY <1>a, <1>c, <1>e DEF Deciding
  <2>2. /\ Verdict(k) = "ok" => conn[k] = "open"
        /\ Verdict(k) = "error" => conn[k] = "failed"
    BY <1>c DEF ConnInv, HandlerFits, Verdict
  <2> QED BY <2>1, <2>2, <1>a, <1>d, <1>e, <1>f DEF ConnInv, Current
<1>7. Counted'
  BY <1>b, <1>c, <1>e DEF ConnInv, Counted
<1>8. VerdictIsOwn' /\ TextAfterReturn'
  BY <1>e DEF ConnInv, VerdictIsOwn, TextAfterReturn
<1>9. ConnectedIsTrue'
  BY <1>0, <1>b, <1>c, <1>e DEF ConnInv, ConnectedIsTrue, ObjectTypes
<1> QED BY <1>1, <1>2, <1>3, <1>4, <1>5, <1>6, <1>7, <1>8, <1>9, TypeParts DEF ConnInv

LEMMA OnCloseKeeps == ASSUME ConnInv, NEW k \in Attempts, OnClose(k) PROVE ConnInv'
<1>0. ObjectTypes /\ EndpointTypes
  BY TypeParts DEF ConnInv
<1>b. /\ \A j \in Attempts : j # k => ioPc'[j] = ioPc[j]
      /\ ioPc'[k] = "idle" /\ ioPc[k] = "on_close"
  BY <1>0 DEF OnClose, EndpointTypes
<1>d. /\ UNCHANGED <<callPc, attempt, result, mutex, promise, wsClient, conn, texts, received>>
      /\ UNCHANGED <<stopped, missed, ub>> /\ status' = "disconnect"
  BY DEF OnClose
<1>1. ObjectTypes'
  BY <1>0, <1>d DEF ObjectTypes
<1>2. EndpointTypes'
  BY <1>0 DEF OnClose, EndpointTypes
<1>3. Held' /\ Idle' /\ Unmade'
  BY <1>d DEF ConnInv, Held, Idle, Unmade
<1>4. HandlerFits'
  BY <1>b, <1>d DEF ConnInv, HandlerFits
<1>5. Settled'
  BY <1>b, <1>d DEF ConnInv, Settled, Returned, Deciding
<1>6. Current'
  BY <1>b, <1>d DEF ConnInv, Current, Deciding
<1>7. Counted'
  BY <1>b, <1>d DEF ConnInv, Counted
<1>8. VerdictIsOwn' /\ TextAfterReturn' /\ ConnectedIsTrue'
  BY <1>d DEF ConnInv, VerdictIsOwn, TextAfterReturn, ConnectedIsTrue
<1> QED BY <1>1, <1>2, <1>3, <1>4, <1>5, <1>6, <1>7, <1>8, TypeParts DEF ConnInv

LEMMA OnTextMessageKeeps ==
    ASSUME ConnInv, NEW k \in Attempts, OnTextMessage(k) PROVE ConnInv'
<1>0. ObjectTypes /\ EndpointTypes
  BY TypeParts DEF ConnInv
<1>a. received[k] + 1 <= texts[k] /\ texts[k] \in 0..MaxTexts /\ received[k] \in 0..MaxTexts
  BY <1>0 DEF ConnInv, Counted, OnTextMessage, EndpointTypes
<1>b. /\ \A j \in Attempts : j # k => ioPc'[j] = ioPc[j] /\ received'[j] = received[j]
      /\ ioPc[k] = "on_text" /\ ioPc'[k] = "idle" /\ received'[k] = received[k] + 1
  BY <1>0 DEF OnTextMessage, EndpointTypes
<1>d. /\ UNCHANGED <<callPc, attempt, result, mutex, promise, wsClient, conn, texts, status>>
      /\ UNCHANGED <<stopped, missed, ub>> /\ mutex = "free"
  BY DEF OnTextMessage
<1>1. ObjectTypes'
  BY <1>0, <1>d DEF ObjectTypes
<1>2. EndpointTypes'
  <2>1. received' \in [Attempts -> 0..MaxTexts]
    <3>1. received[k] + 1 \in 0..MaxTexts
      BY <1>a, BoundsAssumption
    <3>2. received' = [received EXCEPT ![k] = received[k] + 1]
      BY DEF OnTextMessage
    <3> QED BY <1>0, <3>1, <3>2 DEF EndpointTypes
  <2>2. ioPc' \in [Attempts -> {"idle", "on_open", "on_fail", "set_ok", "set_error",
                                "on_close", "on_text", "dead"}]
    BY <1>0 DEF OnTextMessage, EndpointTypes
  <2> QED BY <2>1, <2>2, <1>0, <1>d DEF EndpointTypes
<1>3. Held' /\ Idle' /\ Unmade'
  BY <1>d DEF ConnInv, Held, Idle, Unmade
<1>4. HandlerFits'
  BY <1>b, <1>d DEF ConnInv, HandlerFits
<1>5. Settled'
  BY <1>b, <1>d DEF ConnInv, Settled, Returned, Deciding
<1>6. Current'
  BY <1>b, <1>d DEF ConnInv, Current, Deciding
<1>7. Counted'
  BY <1>a, <1>b, <1>d DEF ConnInv, Counted
<1>8. VerdictIsOwn'
  BY <1>d DEF ConnInv, VerdictIsOwn
<1>9. TextAfterReturn'
  \* mutex_ is free, so no attempt is in progress: that of k has returned.
  <2>1. callPc = "idle" /\ conn[k] = "open"
    BY <1>0, <1>b, <1>d DEF ConnInv, Held, HandlerFits, ObjectTypes
  <2>2. Returned(k)
    BY <2>1, <1>0 DEF ConnInv, Unmade, Returned, ObjectTypes
  <2>3. result[k] = Success
    BY <2>1, <2>2, <1>0 DEF ConnInv, Settled, VerdictIsOwn, EndpointTypes
  <2> QED BY <2>3, <1>b, <1>d DEF ConnInv, TextAfterReturn
<1>10. ConnectedIsTrue'
  BY <1>0, <1>b, <1>d DEF ConnInv, ConnectedIsTrue, ObjectTypes
<1> QED BY <1>1, <1>2, <1>3, <1>4, <1>5, <1>6, <1>7, <1>8, <1>9, <1>10, TypeParts DEF ConnInv

LEMMA ConnStep == ConnInv /\ [Next]_vars => ConnInv'
<1> SUFFICES ASSUME ConnInv, [Next]_vars PROVE ConnInv'
  OBVIOUS
<1>1. CASE ConnectSync
  BY <1>1, ConnectSyncKeeps
<1>2. CASE NewPromise \/ ConnectReturn \/ Close
  BY <1>2, NewPromiseKeeps, ConnectReturnKeeps, CloseKeeps
<1>3. CASE \E k \in Attempts : Io(k)
  BY <1>3, IoStartKeeps, OnVerdictKeeps, SetPromiseKeeps, OnCloseKeeps, OnTextMessageKeeps DEF Io
<1>4. CASE UNCHANGED vars
  <2> USE <1>4 DEF vars
  <2>1. ObjectTypes' /\ EndpointTypes'
    BY TypeParts DEF ConnInv, ObjectTypes, EndpointTypes
  <2>2. Held' /\ HandlerFits' /\ Unmade' /\ Settled' /\ Counted'
    BY DEF ConnInv, Held, HandlerFits, Unmade, Settled, Returned, Deciding, Counted
  <2>3. Current' /\ Idle'
    BY DEF ConnInv, Current, Idle, Deciding
  <2>4. VerdictIsOwn' /\ TextAfterReturn' /\ ConnectedIsTrue'
    BY DEF ConnInv, VerdictIsOwn, TextAfterReturn, ConnectedIsTrue
  <2> QED BY <2>1, <2>2, <2>3, <2>4, TypeParts DEF ConnInv
<1> QED BY <1>1, <1>2, <1>3, <1>4 DEF Next

LEMMA ConnAlways == Spec => []ConnInv
BY ConnInit, ConnStep, PTL DEF Spec

-----------------------------------------------------------------------------

\* Types, for any number of attempts and texts (WSPPClient's members).
THEOREM TypeCorrect == Spec => []TypeOK
<1>1. ConnInv => TypeOK
  BY DEF ConnInv
<1> QED BY <1>1, ConnAlways, PTL

\* connect_sync returns the outcome of its own attempt: promise_ is never set by
\* the handler of an attempt that has returned.
THEOREM VerdictCorrect == Spec => []VerdictIsOwn
<1>1. ConnInv => VerdictIsOwn
  BY DEF ConnInv
<1> QED BY <1>1, ConnAlways, PTL

\* on_text_message hands on no text before connect_sync of its attempt returned.
THEOREM TextCorrect == Spec => []TextAfterReturn
<1>1. ConnInv => TextAfterReturn
  BY DEF ConnInv
<1> QED BY <1>1, ConnAlways, PTL

\* CONNECTED is said only of the endpoint ws_client_ owns, while it is open.
THEOREM ConnectedCorrect == Spec => []ConnectedIsTrue
<1>1. ConnInv => ConnectedIsTrue
  BY DEF ConnInv
<1> QED BY <1>1, ConnAlways, PTL
=============================================================================
