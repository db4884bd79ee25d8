------------------------- MODULE MediaSoupAPI_proofs -------------------------
(***************************************************************************)
(* The invariants of MediaSoupAPI, for any number of joins and any set of  *)
(* transport ids.                                                          *)
(***************************************************************************)
EXTENDS MediaSoupAPI, TLAPS

\* A join is running: it connects, waits for the version, or for an answer.
Joining == appPc \in {"connecting", "version", "caps", "send", "recv", "join"}

\* Joins to come have left no trace, past ones have returned, and the current
\* one has returned unless it is running (or the program is blocked or has crashed).
Outcomes ==
    /\ \A k \in Joins : k > cur => outcome[k] = "none" /\ link[k] = "none" /\ ioPc[k] = "idle"
    /\ \A k \in Joins : k < cur => outcome[k] # "none"
    /\ Joining => cur \in Joins /\ outcome[cur] = "none"
    /\ appPc \in {"idle", "connect", "produce"} /\ cur \in Joins => outcome[cur] # "none"

\* The version notification of connection k has been dealt with.
Served(k) == versionSent[k] /\ ioPc[k] # "notify"

\* Where the value of promise_ came from, and what let a finished join through.
PromiseIsSet == /\ promiseSet <=> setBy # NoJoin
                /\ appPc \in JoinRequests => promiseSet
SetByServed  == setBy # NoJoin => setBy <= cur /\ Served(setBy)
SetByOwner   == Joining /\ setBy # NoJoin => setBy = cur \/ Disturbed(setBy)
NotifySent   == \A k \in Joins : ioPc[k] = "notify" => versionSent[k]
EndIsServed  == \A k \in Joins : outcome[k] # "none" => Disturbed(k) \/ Served(k)

Notified == PromiseIsSet /\ SetByServed /\ SetByOwner /\ NotifySent /\ EndIsServed

\* What a running join has obtained so far.
Has(k, dir) == \E i \in TransportIds : transports[i] = [join |-> k, send |-> dir]

Ready == /\ appPc \in {"send", "recv", "join"} => loaded
         /\ appPc \in {"recv", "join"} => Has(cur, TRUE)
         /\ appPc = "join" => Has(cur, FALSE)

\* The stages of a join before its first transport is stored.
Early == appPc \in {"connecting", "version", "caps", "send"}

\* A transport belongs to a join that has begun, has asked for its first
\* transport, and did not end before that was stored.
Listed == \A i \in TransportIds :
              transports[i].join # NoJoin =>
                  /\ transports[i].join <= cur
                  /\ outcome[transports[i].join] \in {"none", "ok", "recv"}
                  /\ transports[i].join = cur => ~Early

Targeted == target # NoId => target \in TransportIds /\ appPc \in ProduceRequests \cup {"blocked"}

\* How a join can end, and "none" before.
Ends == {"none", "timeout", "ok", "caps", "send", "recv"}

\* TypeOK in parts.
CallTypes == /\ appPc \in {"idle", "connecting", "version", "blocked", "crashed",
                           "caps", "send", "recv", "join", "connect", "produce"}
             /\ cur \in Joins \cup {NoJoin}
             /\ loaded \in BOOLEAN /\ ub \in BOOLEAN
             /\ verdict \in {"none", "accepted", "refused"}
PromiseTypes == /\ promiseSet \in BOOLEAN /\ setBy \in Joins \cup {NoJoin}
                /\ versionSent \in [Joins -> BOOLEAN]
                /\ ioPc \in [Joins -> {"idle", "notify", "dead"}]
                /\ ioPtr \in [Joins -> Joins \cup {NoJoin}]
OutcomeTypes == /\ link \in [Joins -> {"none", "up", "failed", "lost"}]
                /\ outcome \in [Joins -> Ends]
ListTypes    == transports \in [TransportIds -> Transport]
TargetTypes  == target \in TransportIds \cup {NoId}

Types == CallTypes /\ PromiseTypes /\ OutcomeTypes /\ ListTypes /\ TargetTypes

RoomInv == Types /\ Outcomes /\ Notified /\ Ready /\ JoinedIsReady /\ Listed
           /\ Targeted /\ TargetIsUsable

-----------------------------------------------------------------------------

LEMMA TypeParts == (TypeOK <=> Types) /\ (TypeOK' <=> Types')
<1>1. {"idle", "connecting", "version", "blocked", "crashed"} \cup Requests =
      {"idle", "connecting", "version", "blocked", "crashed",
       "caps", "send", "recv", "join", "connect", "produce"}
  BY DEF Requests, JoinRequests, ProduceRequests
<1> QED
  BY <1>1 DEF TypeOK, Types, CallTypes, PromiseTypes, OutcomeTypes, ListTypes, TargetTypes,
               Ends

LEMMA JoinsAreNumbers == Joins \subseteq Nat /\ NoJoin \notin Joins /\ NoJoin = 0
                         /\ (\A k \in Joins : \A j \in 1..k : j \in Joins)
                         /\ NoId \notin TransportIds
BY MaxJoinsAssumption, TransportIdsAssumption DEF Joins, NoJoin, NoId

LEMMA RoomInit == Init => RoomInv
<1> SUFFICES ASSUME Init PROVE RoomInv
  OBVIOUS
<1>1. CallTypes
  BY DEF Init, CallTypes
<1>2. PromiseTypes
  BY DEF Init, PromiseTypes
<1>3. OutcomeTypes
  BY DEF Init, OutcomeTypes, Ends
<1>4. ListTypes /\ TargetTypes
  BY DEF Init, ListTypes, TargetTypes, Transport, NoTransport
<1>5. Outcomes
  BY JoinsAreNumbers DEF Init, Outcomes, Joining
<1>6. Notified
  BY DEF Init, Notified, PromiseIsSet, SetByServed, SetByOwner, NotifySent, EndIsServed,
         JoinRequests
<1>7. Ready /\ JoinedIsReady
  BY DEF Init, Ready, JoinedIsReady
<1>8. Listed /\ Targeted /\ TargetIsUsable
  BY DEF Init, Listed, Targeted, TargetIsUsable, NoTransport
<1> QED BY <1>1, <1>2, <1>3, <1>4, <1>5, <1>6, <1>7, <1>8 DEF RoomInv, Types

-----------------------------------------------------------------------------
\* What no step undoes.

\* The steps of the caller and of the answers it waits for.
Caller == \/ InitSignal \/ ConnectReturn \/ VersionReady \/ VersionTimeout
          \/ \E r \in ProduceRequests : StartRequest(r)
          \/ Answer \/ ResponseMissed

\* The rest is what the io threads and the network do to connection k.
LEMMA NextParts ==
    Next <=> Caller \/ \E k \in Joins : NotifyStart(k) \/ NotifySet(k) \/ ConnectionLost(k)
BY DEF Next, Caller

\* The caller leaves the io threads alone, promise_ as well unless it is replaced,
\* and connections except the one it has opened.
LEMMA CallerFrame ==
    ASSUME Caller
    PROVE  /\ UNCHANGED <<versionSent, ioPc, ioPtr, ub>>
           /\ ~InitSignal => UNCHANGED <<cur, promiseSet, setBy>>
           /\ ~ConnectReturn => UNCHANGED link
<1>1. CASE InitSignal \/ ConnectReturn \/ VersionReady \/ VersionTimeout \/ ResponseMissed
  BY <1>1 DEF InitSignal, ConnectReturn, VersionReady, VersionTimeout, ResponseMissed
<1>2. CASE \E r \in ProduceRequests : StartRequest(r)
  BY <1>2 DEF StartRequest
<1>3. CASE Answer
  <2>1. CASE GetRouterRtpCapabilities \/ JoinRoom \/ ConnectResponse \/ ProduceResponse
    BY <2>1 DEF GetRouterRtpCapabilities, JoinRoom, ConnectResponse, ProduceResponse
  <2>2. CASE CreateSendTransport \/ CreateRecvTransport
    BY <2>2 DEF CreateSendTransport, CreateRecvTransport, CreateTransport
  <2>3. CASE \E r \in JoinRequests : Rejected(r)
    BY <2>3 DEF Rejected
  <2> QED BY <1>3, <2>1, <2>2, <2>3 DEF Answer
<1> QED BY <1>1, <1>2, <1>3 DEF Caller

\* An io thread and the network leave the caller and its lists alone.
LEMMA IoFrame ==
    ASSUME NEW k \in Joins, NotifyStart(k) \/ NotifySet(k) \/ ConnectionLost(k)
    PROVE  UNCHANGED <<appPc, cur, loaded, transports, producing, outcome>>
BY DEF NotifyStart, NotifySet, ConnectionLost

\* When the caller writes an outcome, and which.
LEMMA OutcomeEffect ==
    ASSUME Caller, Types
    PROVE  \/ VersionTimeout /\ outcome' = [outcome EXCEPT ![cur] = "timeout"]
           \/ /\ appPc = "join" /\ appPc' = "idle"
              /\ outcome' = [outcome EXCEPT ![cur] = "ok"]
           \/ /\ appPc \in {"caps", "send", "recv"} /\ appPc' = "idle"
              /\ outcome' = [outcome EXCEPT ![cur] = appPc]
           \/ outcome' = outcome
<1>1. CASE InitSignal \/ ConnectReturn \/ VersionReady \/ VersionTimeout \/ ResponseMissed
  BY <1>1 DEF InitSignal, ConnectReturn, VersionReady, VersionTimeout, ResponseMissed
<1>2. CASE \E r \in ProduceRequests : StartRequest(r)
  BY <1>2 DEF StartRequest
<1>3. CASE Answer
  <2>1. CASE GetRouterRtpCapabilities \/ ConnectResponse \/ ProduceResponse
    BY <2>1 DEF GetRouterRtpCapabilities, ConnectResponse, ProduceResponse
  <2>2. CASE CreateSendTransport \/ CreateRecvTransport
    BY <2>2 DEF CreateSendTransport, CreateRecvTransport, CreateTransport
  <2>3. CASE JoinRoom
    BY <2>3 DEF JoinRoom, Answerable
  <2>4. CASE \E r \in JoinRequests : Rejected(r)
    BY <2>4 DEF Rejected, Answerable, JoinRequests
  <2> QED BY <1>3, <2>1, <2>2, <2>3, <2>4 DEF Answer
<1> QED BY <1>1, <1>2, <1>3 DEF Caller

\* A timeout is never taken back, for the outcome written is the one of a join
\* that is running.
LEMMA DisturbedStays ==
    ASSUME RoomInv, Next
    PROVE  \A k \in Joins : Disturbed(k) => Disturbed(k)'
<1>1. CASE UNCHANGED outcome
  BY <1>1 DEF Disturbed
<1>2. ASSUME Caller PROVE \A j \in Joins : outcome[j] = "timeout" => outcome'[j] = "timeout"
  <2>1. appPc \in {"caps", "send", "recv", "join"} => outcome[cur] = "none"
    BY DEF RoomInv, Outcomes, Joining
  <2>2. outcome \in [Joins -> Ends]
    BY DEF RoomInv, Types, OutcomeTypes
  <2> QED BY <1>2, <2>1, <2>2, OutcomeEffect DEF RoomInv, Ends
<1>3. CASE Caller
  BY <1>2, <1>3 DEF Disturbed
<1> QED BY <1>1, <1>3, NextParts, IoFrame

LEMMA ServedStays ==
    ASSUME RoomInv, Next
    PROVE  \A k \in Joins : Served(k) => Served(k)'
<1>0. PromiseTypes
  BY DEF RoomInv, Types
<1>1. CASE Caller
  BY <1>1, CallerFrame DEF Served
<1>2. ASSUME NEW j \in Joins, NotifyStart(j) \/ ConnectionLost(j)
      PROVE  \A k \in Joins : Served(k) => Served(k)'
  BY <1>0, <1>2 DEF NotifyStart, ConnectionLost, Served, PromiseTypes
<1>3. ASSUME NEW j \in Joins, NotifySet(j)
      PROVE  \A k \in Joins : Served(k) => Served(k)'
  BY <1>0, <1>3 DEF NotifySet, Served, PromiseTypes
<1> QED BY <1>1, <1>2, <1>3, NextParts

\* What a step does to transport_list_: at most one new transport of the
\* current join, whose request is answered by it.
LEMMA TransportsEffect ==
    ASSUME RoomInv, Next
    PROVE  \/ transports' = transports
           \/ /\ \/ appPc = "send" /\ appPc' = "recv"
                 \/ appPc = "recv" /\ appPc' = "join"
              /\ UNCHANGED <<cur, outcome, target, loaded>>
              /\ \E i \in TransportIds :
                    /\ transports[i] = NoTransport
                    /\ transports' =
                         [transports EXCEPT ![i] = [join |-> cur, send |-> appPc = "send"]]
<1>1. CASE CreateSendTransport
  BY <1>1 DEF CreateSendTransport, CreateTransport, Answerable, producing
<1>2. CASE CreateRecvTransport
  BY <1>2 DEF CreateRecvTransport, CreateTransport, Answerable, producing
<1>3. CASE \/ InitSignal \/ ConnectReturn \/ VersionReady \/ VersionTimeout \/ ResponseMissed
           \/ \E r \in ProduceRequests : StartRequest(r)
  BY <1>3 DEF InitSignal, ConnectReturn, VersionReady, VersionTimeout, ResponseMissed, StartRequest
<1>4. CASE GetRouterRtpCapabilities \/ JoinRoom \/ ConnectResponse \/ ProduceResponse
  BY <1>4 DEF GetRouterRtpCapabilities, JoinRoom, ConnectResponse, ProduceResponse
<1>5. CASE \E r \in JoinRequests : Rejected(r)
  BY <1>5 DEF Rejected
<1>6. CASE \E k \in Joins : NotifyStart(k) \/ NotifySet(k) \/ ConnectionLost(k)
  BY <1>6, IoFrame
<1> QED BY <1>1, <1>2, <1>3, <1>4, <1>5, <1>6, NextParts DEF Caller, Answer

LEMMA HasStays ==
    ASSUME RoomInv, Next, NEW k \in Joins, NEW dir \in BOOLEAN, Has(k, dir)
    PROVE  Has(k, dir)'
<1>1. PICK i \in TransportIds : transports[i] = [join |-> k, send |-> dir]
  BY DEF Has
<1>2. transports[i] # NoTransport
  BY <1>1, JoinsAreNumbers DEF NoTransport
<1>3. transports'[i] = transports[i]
  BY <1>2, TransportsEffect DEF RoomInv, Types, ListTypes
<1> QED BY <1>1, <1>3 DEF Has

-----------------------------------------------------------------------------
\* The types.

LEMMA CallTypesKept == ASSUME RoomInv, Next PROVE CallTypes'
<1>0. CallTypes /\ MaxJoins \in Nat
  BY MaxJoinsAssumption DEF RoomInv, Types
<1>1. CASE InitSignal
  BY <1>0, <1>1 DEF InitSignal, CallTypes, Joins, NoJoin, producing
<1>2. CASE ConnectReturn \/ VersionReady \/ VersionTimeout \/ ResponseMissed
  BY <1>0, <1>2 DEF ConnectReturn, VersionReady, VersionTimeout, ResponseMissed, CallTypes, producing
<1>3. CASE \E r \in ProduceRequests : StartRequest(r)
  BY <1>0, <1>3 DEF StartRequest, ProduceRequests, CallTypes
<1>4. CASE GetRouterRtpCapabilities \/ JoinRoom
  BY <1>0, <1>4 DEF GetRouterRtpCapabilities, JoinRoom, CallTypes, producing
<1>5. CASE CreateSendTransport \/ CreateRecvTransport
  BY <1>0, <1>5 DEF CreateSendTransport, CreateRecvTransport, CreateTransport, CallTypes, producing
<1>6. CASE ConnectResponse \/ ProduceResponse
  BY <1>0, <1>6 DEF ConnectResponse, ProduceResponse, CallTypes
<1>7. CASE \E r \in JoinRequests : Rejected(r)
  BY <1>0, <1>7 DEF Rejected, CallTypes, producing
<1>8. CASE \E k \in Joins : NotifyStart(k) \/ NotifySet(k) \/ ConnectionLost(k)
  BY <1>0, <1>8, IoFrame DEF NotifyStart, NotifySet, ConnectionLost, CallTypes, producing
<1> QED BY <1>1, <1>2, <1>3, <1>4, <1>5, <1>6, <1>7, <1>8 DEF Next, Answer

LEMMA PromiseTypesKept == ASSUME RoomInv, Next PROVE PromiseTypes'
<1>0. PromiseTypes /\ CallTypes
  BY DEF RoomInv, Types
<1>1. CASE InitSignal
  BY <1>0, <1>1 DEF InitSignal, PromiseTypes
<1>2. CASE Caller /\ ~InitSignal
  BY <1>0, <1>2, CallerFrame DEF PromiseTypes
<1>3. ASSUME NEW k \in Joins, NotifyStart(k) PROVE PromiseTypes'
  BY <1>0, <1>3 DEF NotifyStart, PromiseTypes, CallTypes
<1>4. ASSUME NEW k \in Joins, NotifySet(k) PROVE PromiseTypes'
  BY <1>0, <1>4 DEF NotifySet, PromiseTypes
<1>5. ASSUME NEW k \in Joins, ConnectionLost(k) PROVE PromiseTypes'
  BY <1>0, <1>5 DEF ConnectionLost, PromiseTypes
<1> QED BY <1>1, <1>2, <1>3, <1>4, <1>5, NextParts

LEMMA OutcomeTypesKept == ASSUME RoomInv, Next PROVE OutcomeTypes'
<1>0. OutcomeTypes /\ Types
  BY DEF RoomInv, Types
<1>1. link' \in [Joins -> {"none", "up", "failed", "lost"}]
  <2>1. CASE ConnectReturn
    BY <1>0, <2>1 DEF ConnectReturn, OutcomeTypes
  <2>2. CASE Caller /\ ~ConnectReturn
    BY <1>0, <2>2, CallerFrame DEF OutcomeTypes
  <2>3. CASE \E k \in Joins : NotifyStart(k) \/ NotifySet(k) \/ ConnectionLost(k)
    BY <1>0, <2>3 DEF NotifyStart, NotifySet, ConnectionLost, OutcomeTypes
  <2> QED BY <2>1, <2>2, <2>3, NextParts
<1>2. outcome' \in [Joins -> Ends]
  BY <1>0, OutcomeEffect, IoFrame, NextParts DEF OutcomeTypes, Ends
<1> QED BY <1>1, <1>2 DEF OutcomeTypes

LEMMA ListTypesKept == ASSUME RoomInv, Next PROVE ListTypes'
<1>1. ListTypes /\ cur \in Joins \cup {NoJoin}
  BY DEF RoomInv, Types, CallTypes
<1>2. ASSUME NEW dir \in BOOLEAN PROVE [join |-> cur, send |-> dir] \in Transport
  BY <1>1 DEF Transport
<1>3. (appPc = "send") \in BOOLEAN
  OBVIOUS
<1> QED BY <1>1, <1>2, <1>3, TransportsEffect DEF ListTypes

\* The target is picked when the caller is idle and dropped when it is again.
LEMMA TargetKept ==
    ASSUME RoomInv, Next
    PROVE  /\ TargetTypes' /\ Targeted'
           /\ \/ target' = NoId
              \/ target' = target /\ (appPc' = appPc \/ ResponseMissed)
              \/ /\ appPc = "idle" /\ target' \in SendIds
                 /\ UNCHANGED <<transports, cur, outcome>>
<1>0. TargetTypes /\ Targeted
  BY DEF RoomInv, Types
<1>1. CASE \E r \in ProduceRequests : StartRequest(r)
  BY <1>0, <1>1 DEF StartRequest, get_send_transport_param, SendIds, TargetTypes, Targeted
<1>2. CASE ConnectResponse \/ ProduceResponse
  BY <1>2 DEF ConnectResponse, ProduceResponse, TargetTypes, Targeted
<1>3. CASE InitSignal \/ ConnectReturn \/ VersionReady \/ VersionTimeout
  <2>1. appPc \in {"idle", "connecting", "version"} /\ target' = target
    BY <1>3 DEF InitSignal, ConnectReturn, VersionReady, VersionTimeout, producing
  <2>2. target = NoId
    BY <1>0, <2>1 DEF Targeted, ProduceRequests
  <2> QED BY <2>1, <2>2 DEF TargetTypes, Targeted
<1>4. CASE GetRouterRtpCapabilities \/ JoinRoom \/ CreateSendTransport \/ CreateRecvTransport
           \/ \E r \in JoinRequests : Rejected(r)
  <2>1. appPc \in JoinRequests /\ target' = target
    BY <1>4 DEF GetRouterRtpCapabilities, JoinRoom, CreateSendTransport, CreateRecvTransport,
                CreateTransport, Rejected, Answerable, producing, JoinRequests
  <2>2. target = NoId
    BY <1>0, <2>1 DEF Targeted, ProduceRequests, JoinRequests
  <2> QED BY <2>1, <2>2 DEF TargetTypes, Targeted
<1>5. CASE \E k \in Joins : NotifyStart(k) \/ NotifySet(k) \/ ConnectionLost(k)
  BY <1>0, <1>5, IoFrame DEF TargetTypes, Targeted, producing
<1>6. CASE ResponseMissed
  BY <1>0, <1>6 DEF ResponseMissed, TargetTypes, Targeted, producing
<1> QED BY <1>1, <1>2, <1>3, <1>4, <1>5, <1>6 DEF Next, Answer

-----------------------------------------------------------------------------
\* How far a call is, and what its join returned.

\* A step of the caller other than InitSignal takes a join on, ends it with an
\* outcome, or belongs to a publisher.
LEMMA StageEffect ==
    ASSUME Types, Caller, ~InitSignal
    PROVE  \/ Joining /\ Joining' /\ outcome' = outcome
           \/ appPc' \in {"blocked", "crashed"} /\ outcome' = outcome
           \/ /\ Joining /\ appPc' = "idle"
              /\ \/ VersionTimeout /\ outcome' = [outcome EXCEPT ![cur] = "timeout"]
                 \/ appPc = "join" /\ outcome' = [outcome EXCEPT ![cur] = "ok"]
                 \/ /\ appPc \in {"caps", "send", "recv"}
                    /\ outcome' = [outcome EXCEPT ![cur] = appPc]
           \/ /\ appPc \in {"idle", "connect", "produce"}
              /\ appPc' \in {"idle", "connect", "produce"}
              /\ outcome' = outcome
<1>1. CASE VersionReady
  BY <1>1 DEF VersionReady, Joining
<1>2. CASE VersionTimeout
  BY <1>2 DEF VersionTimeout, Joining
<1>3. CASE \E r \in ProduceRequests : StartRequest(r)
  BY <1>3 DEF StartRequest, ProduceRequests
<1>4. CASE GetRouterRtpCapabilities
  BY <1>4 DEF GetRouterRtpCapabilities, Answerable, Joining
<1>5. CASE CreateSendTransport \/ CreateRecvTransport
  BY <1>5 DEF CreateSendTransport, CreateRecvTransport, CreateTransport, Answerable, Joining
<1>6. CASE JoinRoom
  BY <1>6 DEF JoinRoom, Answerable, Joining
<1>7. CASE ConnectResponse \/ ProduceResponse
  BY <1>7 DEF ConnectResponse, ProduceResponse, Answerable
<1>8. CASE \E r \in JoinRequests : Rejected(r)
  BY <1>8 DEF Rejected, Answerable, Joining, JoinRequests
<1>9. CASE ConnectReturn \/ ResponseMissed
  BY <1>9 DEF ConnectReturn, ResponseMissed, Joining
<1> QED BY <1>1, <1>2, <1>3, <1>4, <1>5, <1>6, <1>7, <1>8, <1>9 DEF Caller, Answer

LEMMA OutcomesKept == ASSUME RoomInv, Next PROVE Outcomes'
<1>0. Outcomes /\ Types /\ CallTypes /\ OutcomeTypes /\ PromiseTypes
  BY DEF RoomInv, Types
<1>1. CASE InitSignal
  <2>0. cur \in Nat
    <3>1. Joins \cup {NoJoin} \subseteq Nat
      BY JoinsAreNumbers
    <3> QED BY <1>0, <3>1 DEF CallTypes
  <2>1. /\ appPc = "idle" /\ appPc' = "connecting"
        /\ cur' = cur + 1 /\ cur' \in Joins
        /\ UNCHANGED <<outcome, ioPc, link>>
    BY <1>0, <1>1, MaxJoinsAssumption DEF InitSignal, CallTypes, OutcomeTypes, Joins, NoJoin
  <2>2. \A k \in Joins : (k >= cur' => k > cur) /\ (k < cur' => k < cur \/ k = cur)
    <3>1. \A k \in Nat : (k >= cur + 1 => k > cur) /\ (k < cur + 1 => k < cur \/ k = cur)
      BY <2>0
    <3> QED BY <2>1, <3>1, JoinsAreNumbers
  <2>3. \A k \in Joins : k < cur' => outcome'[k] # "none"
    BY <2>1, <2>2, <1>0 DEF Outcomes
  <2>4. \A k \in Joins : k > cur' => outcome'[k] = "none" /\ link'[k] = "none" /\ ioPc'[k] = "idle"
    BY <2>1, <2>2, <1>0, JoinsAreNumbers DEF Outcomes
  <2>5. outcome'[cur'] = "none"
    BY <2>1, <2>2, <1>0, JoinsAreNumbers DEF Outcomes
  <2> QED BY <2>1, <2>3, <2>4, <2>5 DEF Outcomes
<1>2. CASE Caller /\ ~InitSignal
  <2>1. /\ UNCHANGED <<cur, ioPc>>
        /\ \A k \in Joins : k > cur => link'[k] = link[k]
    <3>1. CASE ~ConnectReturn
      BY <1>2, <3>1, CallerFrame
    <3>2. CASE ConnectReturn
      <4>1. \A k \in Joins : k # cur => link'[k] = link[k]
        BY <1>0, <3>2 DEF ConnectReturn, OutcomeTypes
      <4>2. cur \in Nat
        <5>1. Joins \cup {NoJoin} \subseteq Nat
          BY JoinsAreNumbers
        <5> QED BY <1>0, <5>1 DEF CallTypes
      <4>3. \A k \in Nat : k > cur => k # cur
        BY <4>2
      <4>4. UNCHANGED <<cur, ioPc>>
        BY <3>2 DEF ConnectReturn
      <4> QED BY <4>1, <4>3, <4>4, JoinsAreNumbers
    <3> QED BY <3>1, <3>2
  <2>2. CASE \/ Joining /\ Joining' /\ outcome' = outcome
             \/ appPc' \in {"blocked", "crashed"} /\ outcome' = outcome
             \/ /\ appPc \in {"idle", "connect", "produce"}
                /\ appPc' \in {"idle", "connect", "produce"}
                /\ outcome' = outcome
    BY <1>0, <2>1, <2>2 DEF Outcomes, Joining
  <2>3. ASSUME Joining, appPc' = "idle", NEW r \in Ends \ {"none"},
               outcome' = [outcome EXCEPT ![cur] = r]
        PROVE  Outcomes'
    <3>1. cur \in Joins
      BY <1>0, <2>3 DEF Outcomes
    <3>2. outcome'[cur] # "none" /\ \A k \in Joins : k # cur => outcome'[k] = outcome[k]
      BY <1>0, <2>3, <3>1 DEF OutcomeTypes
    <3>3. \A k \in Joins : k > cur \/ k < cur => k # cur
      BY <3>1, JoinsAreNumbers
    <3> QED BY <1>0, <2>1, <2>3, <3>1, <3>2, <3>3 DEF Outcomes, Joining
  <2>4. {"timeout", "ok", "caps", "send", "recv"} \subseteq Ends \ {"none"}
    BY DEF Ends
  <2> QED BY <1>0, <1>2, <2>2, <2>3, <2>4, StageEffect
<1>3. ASSUME NEW k \in Joins, NotifyStart(k) \/ NotifySet(k) \/ ConnectionLost(k)
      PROVE  Outcomes'
  <2>1. UNCHANGED <<appPc, cur, outcome>>
    BY <1>3, IoFrame
  <2>2. link[k] # "none" \/ ioPc[k] # "idle"
    BY <1>3 DEF NotifyStart, NotifySet, ConnectionLost
  <2>3. ~(k > cur)
    BY <1>0, <2>2 DEF Outcomes
  <2>4. \A j \in Joins : j # k => link'[j] = link[j] /\ ioPc'[j] = ioPc[j]
    BY <1>0, <1>3 DEF NotifyStart, NotifySet, ConnectionLost, OutcomeTypes, PromiseTypes
  <2> QED BY <1>0, <2>1, <2>3, <2>4 DEF Outcomes, Joining
<1> QED BY <1>1, <1>2, <1>3, NextParts

-----------------------------------------------------------------------------
\* The version notifications.

\* Between InitSignal and the next, promise_ is set once, by a connection that
\* is dealt with by setting it.
LEMMA PromiseEffect ==
    ASSUME RoomInv, Next, ~InitSignal
    PROVE  \/ UNCHANGED <<promiseSet, setBy>>
           \/ /\ promiseSet' = TRUE /\ setBy = NoJoin
              /\ \E k \in Joins : /\ setBy' = k /\ ioPc[k] = "notify"
                                  /\ Served(k)'
                                  /\ UNCHANGED <<appPc, cur, outcome>>
<1>0. PromiseTypes /\ NotifySent /\ PromiseIsSet
  BY DEF RoomInv, Types, Notified
<1>1. CASE Caller
  BY <1>1, CallerFrame
<1>2. ASSUME NEW k \in Joins, NotifyStart(k) \/ ConnectionLost(k)
      PROVE  UNCHANGED <<promiseSet, setBy>>
  BY <1>2 DEF NotifyStart, ConnectionLost
<1>3. ASSUME NEW k \in Joins, NotifySet(k), ~UNCHANGED <<promiseSet, setBy>>
      PROVE  /\ promiseSet' = TRUE /\ setBy = NoJoin
             /\ setBy' = k /\ ioPc[k] = "notify" /\ Served(k)'
             /\ UNCHANGED <<appPc, cur, outcome>>
  <2>1. /\ ioPc[k] = "notify" /\ ~promiseSet /\ promiseSet' = TRUE /\ setBy' = k
        /\ ioPc' = [ioPc EXCEPT ![k] = "idle"] /\ versionSent' = versionSent
    BY <1>3 DEF NotifySet
  <2>2. Served(k)'
    BY <1>0, <2>1 DEF NotifySent, Served, PromiseTypes
  <2>3. setBy = NoJoin
    BY <1>0, <2>1 DEF PromiseIsSet
  <2> QED BY <1>3, <2>1, <2>2, <2>3, IoFrame
<1> QED BY <1>1, <1>2, <1>3, NextParts

LEMMA PromiseIsSetKept == ASSUME RoomInv, Next PROVE PromiseIsSet'
<1>0. PromiseIsSet /\ Types
  BY DEF RoomInv, Notified
<1>1. CASE InitSignal
  BY <1>1 DEF InitSignal, PromiseIsSet, JoinRequests
<1>2. CASE VersionReady
  BY <1>0, <1>2 DEF VersionReady, PromiseIsSet
<1>3. CASE Caller /\ ~InitSignal /\ ~VersionReady
  <2>1. UNCHANGED <<promiseSet, setBy>>
    BY <1>3, CallerFrame
  <2>2. appPc' \in JoinRequests => appPc \in JoinRequests
    BY <1>3 DEF Caller, Answer, ConnectReturn, ResponseMissed, VersionTimeout, StartRequest,
                GetRouterRtpCapabilities,
                CreateSendTransport, CreateRecvTransport, CreateTransport, JoinRoom,
                ConnectResponse, ProduceResponse, Rejected, Answerable, JoinRequests,
                ProduceRequests
  <2> QED BY <1>0, <2>1, <2>2 DEF PromiseIsSet
<1>4. CASE \E k \in Joins : NotifyStart(k) \/ NotifySet(k) \/ ConnectionLost(k)
  <2>1. appPc' = appPc
    BY <1>4, IoFrame
  <2>2. CASE UNCHANGED <<promiseSet, setBy>>
    BY <1>0, <2>1, <2>2 DEF PromiseIsSet
  <2>3. CASE promiseSet' = TRUE /\ setBy' \in Joins
    BY <2>3, JoinsAreNumbers DEF PromiseIsSet
  <2> QED BY <1>1, <2>2, <2>3, PromiseEffect
<1> QED BY <1>1, <1>2, <1>3, <1>4, NextParts

LEMMA SetByServedKept == ASSUME RoomInv, Next PROVE SetByServed'
<1>0. SetByServed /\ Outcomes /\ setBy \in Joins \cup {NoJoin} /\ cur \in Joins \cup {NoJoin}
  BY DEF RoomInv, Types, Notified, CallTypes, PromiseTypes
<1>1. CASE InitSignal
  BY <1>1 DEF InitSignal, SetByServed
<1>2. cur' = cur \/ InitSignal
  BY CallerFrame, IoFrame, NextParts
<1>3. CASE ~InitSignal /\ UNCHANGED <<promiseSet, setBy>>
  <2>1. setBy # NoJoin => Served(setBy)'
    BY <1>0, <1>3, ServedStays DEF SetByServed, Served
  <2> QED BY <1>0, <1>2, <1>3, <2>1 DEF SetByServed, Served
<1>4. ASSUME ~InitSignal, NEW k \in Joins, setBy' = k, ioPc[k] = "notify", Served(k)'
      PROVE  SetByServed'
  <2>1. ~(k > cur)
    BY <1>0, <1>4 DEF Outcomes
  <2>2. k <= cur
    BY <1>0, <2>1, JoinsAreNumbers
  <2> QED BY <1>2, <1>4, <2>2 DEF SetByServed, Served
<1> QED BY <1>1, <1>3, <1>4, PromiseEffect

LEMMA SetByOwnerKept == ASSUME RoomInv, Next PROVE SetByOwner'
<1>0. /\ SetByOwner /\ Outcomes /\ EndIsServed /\ PromiseIsSet /\ Types
      /\ setBy \in Joins \cup {NoJoin} /\ cur \in Joins \cup {NoJoin}
  BY DEF RoomInv, Types, Notified, CallTypes, PromiseTypes
<1>1. CASE InitSignal
  BY <1>1 DEF InitSignal, SetByOwner
<1>2. CASE ~InitSignal /\ UNCHANGED <<promiseSet, setBy>>
  <2>1. cur' = cur /\ (Joining' => Joining)
    BY <1>0, <1>2, CallerFrame, IoFrame, NextParts, StageEffect DEF Joining
  <2>2. setBy # NoJoin /\ Disturbed(setBy) => Disturbed(setBy)'
    BY <1>0, <1>2, DisturbedStays DEF Disturbed
  <2> QED BY <1>0, <1>2, <2>1, <2>2 DEF SetByOwner, Disturbed
<1>3. ASSUME ~InitSignal, NEW k \in Joins, setBy' = k, ioPc[k] = "notify",
             UNCHANGED <<appPc, cur, outcome>>
      PROVE  SetByOwner'
  <2>1. k < cur \/ k = cur
    <3>1. ~(k > cur)
      BY <1>0, <1>3 DEF Outcomes
    <3> QED BY <1>0, <3>1, JoinsAreNumbers
  <2>2. ASSUME k < cur PROVE Disturbed(k)
    <3>1. outcome[k] # "none"
      BY <1>0, <2>2 DEF Outcomes
    <3> QED BY <1>0, <1>3, <3>1 DEF EndIsServed, Served
  <2>3. Disturbed(k) => Disturbed(k)'
    BY DisturbedStays
  <2> QED BY <1>3, <2>1, <2>2, <2>3 DEF SetByOwner, Disturbed
<1> QED BY <1>1, <1>2, <1>3, PromiseEffect

LEMMA NotifySentKept == ASSUME RoomInv, Next PROVE NotifySent'
<1>0. NotifySent /\ PromiseTypes
  BY DEF RoomInv, Types, Notified
<1>1. CASE Caller
  BY <1>0, <1>1, CallerFrame DEF NotifySent
<1>2. ASSUME NEW k \in Joins, NotifyStart(k) PROVE NotifySent'
  BY <1>0, <1>2 DEF NotifyStart, NotifySent, PromiseTypes
<1>3. ASSUME NEW k \in Joins, NotifySet(k) PROVE NotifySent'
  BY <1>0, <1>3 DEF NotifySet, NotifySent, PromiseTypes
<1>4. ASSUME NEW k \in Joins, ConnectionLost(k) PROVE NotifySent'
  BY <1>0, <1>4 DEF ConnectionLost, NotifySent
<1> QED BY <1>1, <1>2, <1>3, <1>4, NextParts

\* A join that ends after init() ends on a promise_ that was set: by its own
\* connection, or by one whose promise a timeout had taken away.
LEMMA EndIsServedKept == ASSUME RoomInv, Next PROVE EndIsServed'
<1>0. /\ EndIsServed /\ SetByOwner /\ SetByServed /\ PromiseIsSet /\ Outcomes /\ Types
      /\ setBy \in Joins \cup {NoJoin} /\ cur \in Joins \cup {NoJoin}
      /\ outcome \in [Joins -> Ends]
  BY DEF RoomInv, Types, Notified, CallTypes, PromiseTypes, OutcomeTypes
<1>1. ASSUME NEW k \in Joins, outcome[k] # "none"
      PROVE  Disturbed(k)' \/ Served(k)'
  BY <1>0, <1>1, DisturbedStays, ServedStays DEF EndIsServed
<1>2. ASSUME NEW k \in Joins, outcome'[k] = "timeout"
      PROVE  Disturbed(k)'
  BY <1>2, JoinsAreNumbers DEF Disturbed
<1>3. ASSUME NEW k \in Joins, outcome[k] = "none", outcome'[k] \notin {"none", "timeout"}
      PROVE  Disturbed(k)' \/ Served(k)'
  <2>1. appPc \in {"caps", "send", "recv", "join"} /\ k = cur
    <3>1. Caller
      BY <1>3, IoFrame, NextParts
    <3> QED BY <1>0, <1>3, <3>1, OutcomeEffect
  <2>2. setBy \in Joins /\ (setBy = cur \/ Disturbed(setBy)) /\ setBy <= cur /\ Served(setBy)
    <3>1. setBy # NoJoin
      BY <1>0, <2>1 DEF PromiseIsSet, JoinRequests
    <3> QED BY <1>0, <2>1, <3>1 DEF SetByOwner, SetByServed, Joining
  <2>3. CASE setBy = cur
    BY <2>1, <2>2, <2>3, ServedStays
  <2>4. CASE Disturbed(setBy)
    <3>1. Disturbed(k)
      BY <2>1, <2>2, <2>4, JoinsAreNumbers DEF Disturbed
    <3> QED BY <3>1, DisturbedStays
  <2> QED BY <2>2, <2>3, <2>4
<1>4. \A k \in Joins : outcome'[k] # "none" => Disturbed(k)' \/ Served(k)'
  BY <1>1, <1>2, <1>3
<1> QED BY <1>4 DEF EndIsServed, Disturbed, Served

-----------------------------------------------------------------------------
\* What a join obtains.

LEMMA ReadyKept == ASSUME RoomInv, Next PROVE Ready'
<1>0. Ready /\ CallTypes /\ cur \in Joins \cup {NoJoin}
      /\ (appPc \in {"send", "recv", "join"} => cur \in Joins)
  BY DEF RoomInv, Types, CallTypes, Outcomes, Joining
<1>1. CASE UNCHANGED <<appPc, cur, loaded>>
  <2>1. ASSUME NEW dir \in BOOLEAN, appPc \in {"recv", "join"}, Has(cur, dir)
        PROVE  Has(cur, dir)'
    BY <1>0, <1>1, <2>1, HasStays DEF Has
  <2> QED BY <1>0, <1>1, <2>1 DEF Ready
<1>2. CASE \/ InitSignal \/ ConnectReturn \/ VersionReady \/ VersionTimeout \/ ResponseMissed
           \/ \E r \in ProduceRequests : StartRequest(r)
  <2>1. appPc' \notin {"send", "recv", "join"}
    BY <1>2 DEF InitSignal, ConnectReturn, VersionReady, VersionTimeout, ResponseMissed,
                StartRequest, ProduceRequests
  <2> QED BY <2>1 DEF Ready
<1>3. CASE JoinRoom \/ ConnectResponse \/ ProduceResponse
  BY <1>3 DEF JoinRoom, ConnectResponse, ProduceResponse, Ready
<1>4. CASE GetRouterRtpCapabilities \/ \E r \in JoinRequests : Rejected(r)
  <2>1. \/ appPc' \notin {"send", "recv", "join"}
        \/ appPc' = "send" /\ loaded' = TRUE
    BY <1>4 DEF GetRouterRtpCapabilities, Rejected
  <2> QED BY <2>1 DEF Ready
<1>5. CASE CreateSendTransport \/ CreateRecvTransport
  <2>1. \/ appPc = "send" /\ appPc' = "recv"
        \/ appPc = "recv" /\ appPc' = "join"
    BY <1>5 DEF CreateSendTransport, CreateRecvTransport, CreateTransport, Answerable
  <2>2. /\ UNCHANGED <<cur, loaded>> /\ loaded
        /\ \E i \in TransportIds :
              transports' = [transports EXCEPT ![i] = [join |-> cur, send |-> appPc = "send"]]
    BY <1>0, <1>5 DEF CreateSendTransport, CreateRecvTransport, CreateTransport, Answerable, Ready
  <2>3. transports \in [TransportIds -> Transport]
    BY DEF RoomInv, Types, ListTypes
  <2>4. \E i \in TransportIds : transports'[i] = [join |-> cur, send |-> appPc = "send"]
    BY <2>2, <2>3
  <2>5. CASE appPc = "send" /\ appPc' = "recv"
    <3>1. Has(cur, TRUE)'
      BY <2>2, <2>4, <2>5 DEF Has
    <3> QED BY <2>2, <2>5, <3>1 DEF Ready
  <2>6. CASE appPc = "recv" /\ appPc' = "join"
    <3>1. Has(cur, FALSE)'
      BY <2>2, <2>4, <2>6 DEF Has
    <3>2. Has(cur, TRUE)'
      BY <1>0, <2>2, <2>6, HasStays DEF Ready, Has
    <3> QED BY <2>2, <2>6, <3>1, <3>2 DEF Ready
  <2> QED BY <2>1, <2>5, <2>6
<1>6. CASE \E k \in Joins : NotifyStart(k) \/ NotifySet(k) \/ ConnectionLost(k)
  BY <1>1, <1>6, IoFrame
<1> QED BY <1>2, <1>3, <1>4, <1>5, <1>6 DEF Next, Answer

LEMMA LoadedStays == ASSUME Next, loaded PROVE loaded'
<1>1. CASE Caller
  BY <1>1 DEF Caller, InitSignal, ConnectReturn, VersionReady, VersionTimeout, StartRequest,
              Answer, GetRouterRtpCapabilities, CreateSendTransport, CreateRecvTransport,
              CreateTransport, JoinRoom, ConnectResponse, ProduceResponse, Rejected,
              ResponseMissed
<1> QED BY <1>1, IoFrame, NextParts

LEMMA JoinedIsReadyKept == ASSUME RoomInv, Next PROVE JoinedIsReady'
<1>0. /\ JoinedIsReady /\ Ready /\ Types /\ Outcomes
      /\ outcome \in [Joins -> Ends]
  BY DEF RoomInv, Types, OutcomeTypes
<1>1. ASSUME NEW k \in Joins, outcome'[k] = "ok"
      PROVE  loaded /\ \A dir \in BOOLEAN : Has(k, dir)
  <2>1. CASE outcome[k] = "ok"
    BY <1>0, <1>1, <2>1 DEF JoinedIsReady, Has
  <2>2. CASE outcome[k] # "ok"
    <3>1. Caller
      BY <1>1, <2>2, IoFrame, NextParts
    <3>2. appPc = "join" /\ cur = k
      BY <1>0, <1>1, <2>2, <3>1, OutcomeEffect
    <3> QED BY <1>0, <3>2 DEF Ready
  <2> QED BY <2>1, <2>2
<1>2. ASSUME NEW k \in Joins, outcome'[k] = "ok"
      PROVE  loaded' /\ \A dir \in BOOLEAN : Has(k, dir)'
  BY <1>1, <1>2, LoadedStays, HasStays
<1> QED BY <1>2 DEF JoinedIsReady, Has

-----------------------------------------------------------------------------
\* transport_list_.

LEMMA ListedKept == ASSUME RoomInv, Next PROVE Listed'
<1>0. /\ Listed /\ Outcomes /\ Types /\ CallTypes
      /\ transports \in [TransportIds -> Transport]
      /\ outcome \in [Joins -> Ends]
      /\ cur \in Joins \cup {NoJoin}
      /\ \A i \in TransportIds : transports[i].join \in Joins \cup {NoJoin}
  BY DEF RoomInv, Types, CallTypes, OutcomeTypes, ListTypes, Transport
<1>1. CASE InitSignal
  <2>1. cur' = cur + 1 /\ UNCHANGED <<transports, outcome>>
    BY <1>1 DEF InitSignal
  <2>2. cur \in Nat /\ \A i \in TransportIds : transports[i].join \in Nat
    <3>1. Joins \cup {NoJoin} \subseteq Nat
      BY JoinsAreNumbers
    <3> QED BY <1>0, <3>1
  <2>3. \A n \in Nat : n <= cur => n <= cur + 1 /\ n # cur + 1
    BY <2>2
  <2> QED BY <1>0, <2>1, <2>2, <2>3 DEF Listed
<1>2. CASE transports' = transports /\ cur' = cur /\ outcome' = outcome
           /\ (Early' => Early)
  BY <1>0, <1>2 DEF Listed
<1>3. CASE transports' = transports /\ cur' = cur /\ outcome' = outcome
           /\ appPc' = "idle"
  BY <1>0, <1>3 DEF Listed, Early
<1>4. ASSUME NEW r \in Ends, outcome' = [outcome EXCEPT ![cur] = r],
             transports' = transports, cur' = cur, appPc' = "idle",
             r \notin {"ok", "recv"} => Early
      PROVE  Listed'
  <2>1. ASSUME NEW i \in TransportIds, transports[i].join # NoJoin
        PROVE  outcome'[transports[i].join] \in {"none", "ok", "recv"}
    <3>1. transports[i].join \in Joins
      BY <1>0, <2>1
    <3>2. outcome[transports[i].join] \in {"none", "ok", "recv"}
          /\ (transports[i].join = cur => ~Early)
      BY <1>0, <2>1 DEF Listed
    <3> QED BY <1>0, <1>4, <3>1, <3>2
  <2> QED BY <1>0, <1>4, <2>1 DEF Listed, Early
<1>5. CASE transports' # transports
  <2>1. PICK i \in TransportIds :
           /\ transports' = [transports EXCEPT ![i] = [join |-> cur, send |-> appPc = "send"]]
           /\ appPc \in {"send", "recv"} /\ ~Early'
           /\ UNCHANGED <<cur, outcome>>
    BY <1>5, TransportsEffect DEF Early
  <2>2. cur \in Joins /\ outcome[cur] = "none"
    BY <1>0, <2>1 DEF Outcomes, Joining
  <2>3. transports'[i].join = cur /\ \A j \in TransportIds : j # i => transports'[j] = transports[j]
    BY <1>0, <2>1
  <2>4. cur <= cur
    BY <2>2, JoinsAreNumbers
  <2> QED BY <1>0, <2>1, <2>2, <2>3, <2>4 DEF Listed
<1>6. CASE Caller /\ ~InitSignal /\ transports' = transports
  <2>1. cur' = cur
    BY <1>6, CallerFrame
  <2>2. VersionTimeout => Early
    BY DEF VersionTimeout, Early
  <2>3. CASE outcome' = outcome
    <3>1. Early' => Early
      BY <1>6 DEF Caller, Answer, ConnectReturn, VersionReady, VersionTimeout, StartRequest,
                  GetRouterRtpCapabilities, CreateSendTransport, CreateRecvTransport,
                  CreateTransport, JoinRoom, ConnectResponse, ProduceResponse, Rejected,
                  ResponseMissed, ProduceRequests, Answerable, Early
    <3> QED BY <1>2, <1>6, <2>1, <2>3, <3>1
  <2>4. CASE outcome' # outcome
    <3>1. PICK r \in Ends : /\ outcome' = [outcome EXCEPT ![cur] = r] /\ appPc' = "idle"
                            /\ r \notin {"ok", "recv"} => Early
      BY <1>0, <1>6, <2>2, <2>4, StageEffect DEF Ends, Early
    <3> QED BY <1>4, <1>6, <2>1, <3>1
  <2> QED BY <2>3, <2>4
<1>7. CASE \E k \in Joins : NotifyStart(k) \/ NotifySet(k) \/ ConnectionLost(k)
  BY <1>2, <1>7, IoFrame DEF Early
<1> QED BY <1>1, <1>5, <1>6, <1>7, NextParts

LEMMA TargetIsUsableKept == ASSUME RoomInv, Next PROVE TargetIsUsable'
<1>0. /\ TargetIsUsable /\ Targeted /\ Listed /\ Outcomes /\ Types
      /\ transports \in [TransportIds -> Transport]
      /\ outcome \in [Joins -> Ends]
      /\ cur \in Joins \cup {NoJoin}
  BY DEF RoomInv, Types, CallTypes, OutcomeTypes, ListTypes
<1>1. CASE target' = NoId
  BY <1>1 DEF TargetIsUsable
<1>2. CASE target' # NoId /\ target' = target /\ (appPc' = appPc \/ ResponseMissed)
  <2>1. target \in TransportIds /\ appPc \in {"connect", "produce", "blocked"}
    BY <1>0, <1>2 DEF Targeted, ProduceRequests
  <2>2. transports' = transports
    BY <1>2, <2>1, TransportsEffect
  <2>3. cur' = cur /\ outcome' = outcome
    <3>1. ~InitSignal
      BY <2>1 DEF InitSignal
    <3>3. ~Joining
      BY <2>1 DEF Joining
    <3>2. CASE Caller
      BY <1>0, <1>2, <2>1, <3>1, <3>2, <3>3, CallerFrame, StageEffect
    <3> QED BY <3>2, IoFrame, NextParts
  <2>4. target' = target /\ target # NoId
    BY <1>2
  <2> QED BY <1>0, <2>2, <2>3, <2>4 DEF TargetIsUsable
<1>3. CASE /\ appPc = "idle" /\ target' \in SendIds
           /\ UNCHANGED <<transports, cur, outcome>>
  <2>1. PICK i \in TransportIds : target' = i /\ transports[i].join # NoJoin /\ transports[i].send
    BY <1>3 DEF SendIds
  <2>2. /\ transports[i].join \in Joins /\ transports[i].join <= cur
        /\ outcome[transports[i].join] \in {"none", "ok", "recv"}
    BY <1>0, <2>1 DEF Listed, Transport
  <2>3. transports[i].join < cur \/ transports[i].join = cur
    <3>1. \A m, n \in Nat : m <= n => m < n \/ m = n
      OBVIOUS
    <3>2. Joins \subseteq Nat /\ Joins \cup {NoJoin} \subseteq Nat
      BY JoinsAreNumbers
    <3>3. transports[i].join \in Nat /\ cur \in Nat
      BY <1>0, <2>2, <3>2
    <3> QED BY <2>2, <3>1, <3>3
  <2>4. outcome[transports[i].join] # "none"
    BY <1>0, <1>3, <2>2, <2>3 DEF Outcomes
  <2> QED BY <1>3, <2>1, <2>2, <2>4 DEF TargetIsUsable
<1> QED BY <1>1, <1>2, <1>3, TargetKept

-----------------------------------------------------------------------------

LEMMA Stutter == RoomInv /\ UNCHANGED vars => RoomInv'
<1> SUFFICES ASSUME RoomInv, UNCHANGED vars PROVE RoomInv'
  OBVIOUS
<1>1. Types'
  BY DEF RoomInv, vars, Types, CallTypes, PromiseTypes, OutcomeTypes, ListTypes, TargetTypes
<1>2. Outcomes' /\ Ready' /\ JoinedIsReady'
  BY DEF RoomInv, vars, Outcomes, Joining, Ready, Has, JoinedIsReady
<1>3. Notified'
  BY DEF RoomInv, vars, Notified, PromiseIsSet, SetByServed, SetByOwner, NotifySent,
         EndIsServed, Served, Disturbed, Joining
<1>4. Listed' /\ Targeted' /\ TargetIsUsable'
  BY DEF RoomInv, vars, Listed, Early, Targeted, TargetIsUsable, producing
<1> QED BY <1>1, <1>2, <1>3, <1>4 DEF RoomInv

LEMMA RoomStep == RoomInv /\ [Next]_vars => RoomInv'
<1>1. ASSUME RoomInv, Next PROVE Types'
  BY <1>1, CallTypesKept, PromiseTypesKept, OutcomeTypesKept, ListTypesKept, TargetKept DEF Types
<1>2. ASSUME RoomInv, Next PROVE Notified'
  BY <1>2, PromiseIsSetKept, SetByServedKept, SetByOwnerKept, NotifySentKept, EndIsServedKept
     DEF Notified
<1>3. ASSUME RoomInv, Next PROVE RoomInv'
  BY <1>1, <1>2, <1>3, OutcomesKept, ReadyKept, JoinedIsReadyKept, ListedKept, TargetKept,
     TargetIsUsableKept DEF RoomInv
<1> QED BY <1>3, Stutter

LEMMA Inductive == Spec => []RoomInv
BY RoomInit, RoomStep, PTL DEF Spec

\* Every variable of the room API keeps the values its code can give it: the
\* stages of a join, and a transport_list_ of transports of joins.
THEOREM TypeCorrect == Spec => []TypeOK
<1>1. RoomInv => TypeOK
  BY TypeParts DEF RoomInv
<1> QED BY <1>1, Inductive, PTL

\* A join gets past the version wait of init() on the notification of its own
\* connection, or on one that a timeout had left over.
THEOREM VersionCorrect == Spec => []OwnVersion
<1>1. RoomInv => OwnVersion
  <2> SUFFICES ASSUME RoomInv, appPc \in JoinRequests
               PROVE  \/ setBy = cur
                      \/ setBy \in Joins /\ setBy < cur /\ Disturbed(setBy)
    BY DEF OwnVersion
  <2>1. setBy \in Joins /\ cur \in Joins
    BY DEF RoomInv, Notified, PromiseIsSet, Types, PromiseTypes, Outcomes, Joining, JoinRequests
  <2>2. setBy <= cur /\ (setBy = cur \/ Disturbed(setBy))
    BY <2>1, JoinsAreNumbers
       DEF RoomInv, Notified, SetByServed, SetByOwner, Joining, JoinRequests
  <2> QED BY <2>1, <2>2, JoinsAreNumbers
<1> QED BY <1>1, Inductive, PTL

\* A join that returned 0 has loaded the capabilities and left a sending and a
\* receiving transport, whatever responses it was given.
THEOREM JoinCorrect == Spec => []JoinedIsReady
<1>1. RoomInv => JoinedIsReady
  BY DEF RoomInv
<1> QED BY <1>1, Inductive, PTL

\* get_send_transport_param picks a sending transport of a join that succeeded, or
\* of one that failed on its receiving transport and left its sending one behind.
THEOREM TargetCorrect == Spec => []TargetIsUsable
<1>1. RoomInv => TargetIsUsable
  BY DEF RoomInv
<1> QED BY <1>1, Inductive, PTL
=============================================================================
