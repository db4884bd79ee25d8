------------------------- MODULE MediaControl_proofs -------------------------
(***************************************************************************)
(* What publish and subscribe guarantee although no lock is held over      *)
(* them, for any number of threads, calls, streams and joins.              *)
(***************************************************************************)
EXTENDS MediaControl, TLAPS

\* A line of remote_sdp_: nothing here closes one.
OpenLine == [mid : {"0", "1"}, closed : {FALSE}, direction : {"recvonly"},
             setup : RS!Setups, ice : Tps]

\* The locals of a call.
Local == [pc : {"idle", "stranded"} \cup PublishSteps \cup SubscribeSteps, id : 0..MaxCalls,
          kind : Kinds, stream : Streams \cup {"none"}, peer : Peers \cup {"none"}, lines : 0..2, tp : Tps,
          fresh : BOOLEAN, msidx : [idx : Nat, reuseMid : {RS!NoMid}],
          seen : SUBSET Kinds, known : SUBSET Kinds]

\* The steps between CreateOffer and the end of a half, and parts of them.
OnTransport  == {"create", "connect", "role", "send", "produce", "answer"}
HasIndex     == {"connect", "role", "send", "produce", "answer"}
LinePending  == {"create", "connect", "role", "send"}
IndexPending == {"connect", "role", "send"}
LineSent     == {"produce", "answer"}
AfterConnect == {"role", "send", "produce", "answer"}

\* The types, in four parts.
LocalsType ==
    /\ cs \in [Callers -> Local]
    /\ calls \in 0..MaxCalls
    /\ \A c \in Callers : cs[c].pc \notin {"idle", "stranded"} => cs[c].id \in 1..calls

LinesType ==
    /\ mediaSections \in Seq(OpenLine) /\ sdpMedia = mediaSections
    /\ owners \in Seq(1..calls) /\ Len(owners) = Len(mediaSections)
    /\ hasSdp \in BOOLEAN /\ (~hasSdp => owners = << >>)
    /\ role \in RS!Roles /\ ice \in Tps

RoomType ==
    /\ api \in BOOLEAN /\ sendable \subseteq Kinds /\ givesMids \in BOOLEAN
    /\ joins \in Tps /\ sendTp \in 0..joins
    /\ sendTp # NoTp => api

StoresType ==
    /\ publishPcs \in [Streams -> 0..MaxCalls] /\ subPcs \subseteq Peers
    /\ consumers \in [Peers -> SUBSET Kinds]
    /\ threw \subseteq 1..calls /\ late \subseteq 1..calls /\ mute \subseteq 1..calls
    /\ overlapped \in BOOLEAN /\ stale \in BOOLEAN

Types == LocalsType /\ LinesType /\ RoomType /\ StoresType

\* One transceiver at most for each half gone through, and one at least while a
\* half is past CreateOffer, on a transport that exists.
LineCount(local) ==
    /\ local.pc = "offer" => local.lines <= (IF local.kind = "audio" THEN 0 ELSE 1)
    /\ local.pc \in OnTransport => /\ local.lines \in 1..(IF local.kind = "audio" THEN 1 ELSE 2)
                                   /\ local.tp \in 1..joins

LocalsFit == \A c \in Callers : LineCount(cs[c])

\* remote_sdp_ is there once it was seen or made, and is never reset to null.
SdpChosen == \A c \in Callers : /\ cs[c].pc \in HasIndex => hasSdp
                                /\ cs[c].pc = "create" /\ ~cs[c].fresh => hasSdp

\* While no two publish calls overlapped.
OnePublisher ==
    overlapped \/ \A c, d \in Callers :
                     cs[c].pc \in PublishSteps /\ cs[d].pc \in PublishSteps => c = d

FreshIsNull == overlapped \/ \A c \in Callers : cs[c].pc = "create" => cs[c].fresh = ~hasSdp

IndexIsEnd ==
    overlapped \/ \A c \in Callers : cs[c].pc \in IndexPending => cs[c].msidx.idx = Len(owners)

\* m-lines of the offer that remote_sdp_ has answered.
Sent(local) == IF local.pc \in LinePending THEN local.lines - 1 ELSE local.lines

AllOf(n) == \A k \in DOMAIN owners : owners[k] = n

\* The m-lines of remote_sdp_ are those of the offer of call "local", in order.
OwnLines(local) ==
    /\ Sent(local) > 0 => AllOf(local.id)
    /\ AllOf(local.id) => /\ Len(owners) = Sent(local)
                          /\ \A k \in DOMAIN sdpMedia : sdpMedia[k].mid = MidAt[k]
    /\ local.pc \in LineSent => local.msidx.idx + 1 = local.lines

LinesOfCall ==
    overlapped \/ \A c \in Callers :
                     cs[c].pc \in PublishSteps /\ cs[c].id \notin late => OwnLines(cs[c])

\* What a call still has to send, and that it has not thrown.
KindPending ==
    overlapped \/ \A c \in Callers :
                     cs[c].pc \in PublishSteps =>
                         /\ cs[c].id \notin threw
                         /\ cs[c].kind = "audio" => cs[c].id \notin mute

Alone == OnePublisher /\ FreshIsNull /\ IndexIsEnd /\ LinesOfCall

\* The transport is connected by the audio half, and is the same one in the
\* video half when there was one join only.
Connected ==
    \A c \in Callers :
        /\ cs[c].kind = "audio" /\ cs[c].pc \in AfterConnect
              => <<cs[c].id, cs[c].tp>> \in connects
        /\ cs[c].kind = "video" /\ cs[c].pc \in PublishSteps /\ cs[c].id \notin mute /\ joins <= 1
              => <<cs[c].id, 1>> \in connects

\* Before a late join there is one transport for every call and remote_sdp_.
SameTransport ==
    stale \/ /\ \A c \in Callers : cs[c].pc \in OnTransport => cs[c].tp = sendTp
             /\ hasSdp => ice = sendTp

\* The loop of subscribe: what was announced at its start is still there, and
\* the audio consumer is not skipped.
Loop == \A c \in Callers : cs[c].pc \in SubscribeSteps =>
            /\ cs[c].peer \in Peers
            /\ cs[c].known \subseteq consumers[cs[c].peer]
            /\ cs[c].seen # {} /\ "audio" \in cs[c].known => "audio" \in cs[c].seen

Results == PublishUndisturbed /\ ProducedLine /\ ProducesOnConnected /\ SubscribeVerdict

Inv == /\ Types /\ LocalsFit /\ SdpChosen /\ Alone /\ Connected /\ SameTransport
       /\ Loop /\ Results

-----------------------------------------------------------------------------

\* Step names as sets of strings, for the provers.
LEMMA Steps == /\ OnTransport \subseteq PublishSteps
               /\ "offer" \in PublishSteps /\ "store" \in PublishSteps
               /\ "idle" \notin PublishSteps \cup SubscribeSteps
               /\ "stranded" \notin PublishSteps \cup SubscribeSteps
               /\ PublishSteps \cap SubscribeSteps = {}
BY DEF OnTransport, PublishSteps, SubscribeSteps

LEMMA IdleType == /\ Idle \in Local /\ Idle.pc = "idle"
                  /\ Stranded \in Local /\ Stranded.pc = "stranded"
<1>1. Idle \in Local /\ Idle.pc = "idle"
  BY CallBoundsAssumption DEF Idle, Local, Kinds, NoIdx, NoTp, Tps, RS!NoMid
<1>2. Stranded \in Local /\ Stranded.pc = "stranded"
  BY <1>1 DEF Stranded, Local
<1> QED BY <1>1, <1>2

LEMMA InitInv == Init => Inv
<1> SUFFICES ASSUME Init PROVE Inv
  OBVIOUS
<1>1. \A c \in Callers : /\ cs[c] = Idle /\ cs[c].pc = "idle"
  BY DEF Init, Idle
<1>2. Idle \in Local
  BY IdleType
<1>3. LocalsType
  BY <1>1, <1>2, CallBoundsAssumption DEF Init, LocalsType
<1>4. RoomType
  <2>1. api = FALSE /\ sendable \subseteq Kinds /\ givesMids \in BOOLEAN /\ joins = 0 /\ sendTp = 0
    BY DEF Init, NoTp
  <2>2. api \in BOOLEAN /\ ~(sendTp # NoTp)
    BY <2>1, Zenon DEF NoTp
  <2>3. joins \in Tps /\ sendTp \in 0..joins
    BY <2>1, CallBoundsAssumption DEF Tps
  <2> QED BY <2>1, <2>2, <2>3 DEF RoomType
<1>4c. StoresType
  <2>1. /\ publishPcs = [s \in Streams |-> 0] /\ consumers = [p \in Peers |-> {}]
        /\ subPcs = {} /\ threw = {} /\ late = {} /\ mute = {}
        /\ overlapped = FALSE /\ stale = FALSE
    BY DEF Init
  <2>2. overlapped \in BOOLEAN /\ stale \in BOOLEAN
    BY <2>1, Zenon
  <2>3. publishPcs \in [Streams -> 0..MaxCalls] /\ consumers \in [Peers -> SUBSET Kinds]
    BY <2>1, CallBoundsAssumption
  <2>4. /\ subPcs \subseteq Peers /\ threw \subseteq 1..calls
        /\ late \subseteq 1..calls /\ mute \subseteq 1..calls
    BY <2>1
  <2> QED BY <2>2, <2>3, <2>4 DEF StoresType
<1>4a. LinesType
  <2>1. << >> \in Seq(OpenLine) /\ << >> \in Seq(1..calls) /\ Len(owners) = Len(mediaSections)
    BY DEF Init
  <2> QED
    <3>1. role \in RS!Roles /\ ice \in Tps
      BY CallBoundsAssumption DEF Init, RS!Roles, Tps, NoTp
    <3>2. hasSdp = FALSE /\ owners = << >> /\ mediaSections = << >> /\ sdpMedia = << >>
      BY DEF Init
    <3> QED BY <2>1, <3>1, <3>2 DEF LinesType
<1>5. LocalsFit /\ SdpChosen /\ OnePublisher /\ FreshIsNull /\ IndexIsEnd /\ LinesOfCall
  BY <1>1, Steps DEF LocalsFit, LineCount, SdpChosen, OnePublisher, FreshIsNull, IndexIsEnd,
  LinesOfCall, OnTransport, HasIndex, IndexPending, PublishSteps
<1>6. Connected /\ SameTransport /\ Loop
  BY <1>1, Steps DEF Init, Connected, SameTransport, Loop, AfterConnect, OnTransport, PublishSteps,
  SubscribeSteps
<1>7. Results
  BY DEF Init, Results, PublishUndisturbed, KindsOf, ProducedLine, ProducesOnConnected, SubscribeVerdict
<1> QED BY <1>3, <1>4, <1>4a, <1>4c, <1>5, <1>6, <1>7 DEF Inv, Types, Alone

-----------------------------------------------------------------------------
\* A step of caller c from one step of its call to the next.

Moves(c, new) == /\ new \in Local /\ cs'[c] = new
                 /\ \A d \in Callers : d # c => cs'[d] = cs[d]
                 /\ cs' \in [Callers -> Local]

LEMMA Moving ==
    ASSUME cs \in [Callers -> Local], NEW c \in Callers, NEW new \in Local,
           cs' = [cs EXCEPT ![c] = new]
    PROVE  Moves(c, new)
BY DEF Moves

LEMMA CreateOfferStep ==
    ASSUME Inv, NEW c \in Callers, CreateOffer(c)
    PROVE  Inv'
<1> USE DEF Inv, Types
<1> DEFINE new == [cs[c] EXCEPT !.pc = "create", !.lines = @ + 1, !.tp = sendTp, !.fresh = ~hasSdp]
<1>1. /\ cs[c] \in Local /\ cs[c].pc = "offer" /\ sendTp # NoTp
      /\ cs' = [cs EXCEPT ![c] = new]
      /\ UNCHANGED <<remote, hasSdp, room, calls, stores, owners, pubLog, subLog>>
  BY DEF CreateOffer, LocalsType
<1>2. /\ cs[c].lines \in Nat /\ cs[c].lines <= IF cs[c].kind = "audio" THEN 0 ELSE 1
      /\ sendTp \in 1..joins /\ sendTp \in Tps
  <2>1. cs[c].lines \in 0..2
    BY <1>1 DEF Local
  <2>2. cs[c].lines <= IF cs[c].kind = "audio" THEN 0 ELSE 1
    BY <1>1 DEF LocalsFit, LineCount
  <2>3. sendTp \in 1..joins /\ sendTp \in Tps
    BY <1>1, CallBoundsAssumption DEF RoomType, NoTp, Tps
  <2> QED BY <2>1, <2>2, <2>3
<1>3. new \in Local
  <2>1. "create" \in PublishSteps /\ (~hasSdp) \in BOOLEAN
    BY DEF PublishSteps
  <2>2. cs[c].lines + 1 \in 0..2
    BY <1>2
  <2> QED BY <1>1, <1>2, <2>1, <2>2 DEF Local
<1>4. /\ new.pc = "create" /\ new.kind = cs[c].kind /\ new.id = cs[c].id /\ new.tp = sendTp
      /\ new.fresh = ~hasSdp /\ new.lines = cs[c].lines + 1
  BY <1>1 DEF Local
<1>5. Moves(c, new)
  BY <1>1, <1>3, Moving DEF LocalsType
<1> HIDE DEF new
<1>6. LocalsType'
  BY <1>1, <1>4, <1>5 DEF LocalsType, Moves
<1>7. LinesType' /\ RoomType' /\ StoresType'
  BY <1>1 DEF LinesType, RoomType, StoresType, remote, room, stores, pubLog
<1>8. LocalsFit'
  BY <1>1, <1>2, <1>4, <1>5 DEF LocalsFit, LineCount, Moves, OnTransport, room
<1>9. SdpChosen'
  BY <1>1, <1>4, <1>5 DEF SdpChosen, HasIndex, Moves
<1>10. OnePublisher'
  BY <1>1, <1>4, <1>5, Steps DEF OnePublisher, Alone, Moves, pubLog
<1>11. FreshIsNull' /\ IndexIsEnd'
  BY <1>1, <1>4, <1>5 DEF FreshIsNull, IndexIsEnd, IndexPending, Alone, Moves, pubLog
<1>12. LinesOfCall'
  BY <1>1, <1>2, <1>4, <1>5, Steps DEF LinesOfCall, OwnLines, Sent, AllOf, LinePending, LineSent, Alone, Moves, pubLog, remote
<1>13. Connected'
  BY <1>1, <1>4, <1>5, Steps DEF Connected, AfterConnect, Moves, pubLog, room
<1>14. SameTransport'
  BY <1>1, <1>4, <1>5 DEF SameTransport, Moves, pubLog, room, remote, OnTransport
<1>15. Loop'
  BY <1>1, <1>4, <1>5, Steps DEF Loop, Moves, stores, SubscribeSteps
<1>16. Results'
  BY <1>1 DEF Results, PublishUndisturbed, KindsOf, ProducedLine, ProducesOnConnected, SubscribeVerdict, pubLog, subLog, room
<1> QED BY <1>6, <1>7, <1>8, <1>9, <1>10, <1>11, <1>12, <1>13, <1>14, <1>15, <1>16 DEF Alone

-----------------------------------------------------------------------------
\* Steps that touch the room or the stores only.

LEMMA FrameStep ==
    ASSUME Inv, RoomType', StoresType', \A p \in Peers : consumers[p] \subseteq consumers'[p],
           UNCHANGED <<remote, hasSdp, joins, sendTp, givesMids, sendable, cs, calls, owners, pubLog,
                       subLog>>
    PROVE  Inv'
<1> USE DEF Inv, Types
<1>1. LocalsType' /\ LinesType'
  BY DEF LocalsType, LinesType, remote
<1>2. LocalsFit' /\ SdpChosen'
  BY DEF LocalsFit, LineCount, SdpChosen
<1>3. OnePublisher' /\ FreshIsNull' /\ IndexIsEnd'
  BY DEF Alone, OnePublisher, FreshIsNull, IndexIsEnd, pubLog
<1>4. LinesOfCall'
  BY DEF Alone, LinesOfCall, OwnLines, Sent, AllOf, pubLog, remote
<1>5. Connected' /\ SameTransport'
  BY DEF Connected, SameTransport, pubLog, remote
<1>6. Loop'
  BY DEF Loop
<1>7. Results'
  BY DEF Results, PublishUndisturbed, KindsOf, ProducedLine, ProducesOnConnected, SubscribeVerdict, pubLog,
         subLog
<1> QED BY <1>1, <1>2, <1>3, <1>4, <1>5, <1>6, <1>7 DEF Alone

LEMMA RoomSteps ==
    ASSUME Inv, \/ JoinStart
                \/ \E s \in Streams : Unpublish(s)
                \/ \E p \in Peers : Unsubscribe(p) \/ \E k \in Kinds : NewConsumer(p, k)
    PROVE  Inv'
<1> USE DEF Inv, Types
<1>1. CASE JoinStart
  <2>1. RoomType'
    BY <1>1 DEF JoinStart, RoomType, NoTp
  <2>2. StoresType' /\ UNCHANGED consumers
    BY <1>1 DEF JoinStart, StoresType, stores, pubLog
  <2>3. UNCHANGED <<remote, hasSdp, joins, sendTp, givesMids, sendable, cs, calls, owners, pubLog,
                       subLog>>
    BY <1>1 DEF JoinStart
  <2> QED BY <2>1, <2>2, <2>3, FrameStep
<1>2. CASE \E s \in Streams : Unpublish(s)
  <2>1. PICK s \in Streams : Unpublish(s)
    BY <1>2
  <2>2. RoomType'
    BY <2>1 DEF Unpublish, RoomType, room
  <2>3. publishPcs' \in [Streams -> 0..MaxCalls] /\ UNCHANGED consumers
    BY <2>1, CallBoundsAssumption DEF Unpublish, StoresType
  <2>4. StoresType'
    BY <2>1, <2>3 DEF Unpublish, StoresType, pubLog
  <2>5. UNCHANGED <<remote, hasSdp, joins, sendTp, givesMids, sendable, cs, calls, owners, pubLog,
                       subLog>>
    BY <2>1 DEF Unpublish, room
  <2> QED BY <2>2, <2>3, <2>4, <2>5, FrameStep
<1>3. CASE \E p \in Peers : Unsubscribe(p)
  <2>1. PICK p \in Peers : Unsubscribe(p)
    BY <1>3
  <2>2. RoomType'
    BY <2>1 DEF Unsubscribe, RoomType, room
  <2>3. StoresType' /\ UNCHANGED consumers
    BY <2>1 DEF Unsubscribe, StoresType, pubLog
  <2>4. UNCHANGED <<remote, hasSdp, joins, sendTp, givesMids, sendable, cs, calls, owners, pubLog,
                       subLog>>
    BY <2>1 DEF Unsubscribe, room
  <2> QED BY <2>2, <2>3, <2>4, FrameStep
<1>4. CASE \E p \in Peers : \E k \in Kinds : NewConsumer(p, k)
  <2>1. PICK p \in Peers, k \in Kinds : NewConsumer(p, k)
    BY <1>4
  <2>2. RoomType'
    BY <2>1 DEF NewConsumer, RoomType, room
  <2>3. /\ consumers \in [Peers -> SUBSET Kinds]
        /\ consumers' = [consumers EXCEPT ![p] = @ \cup {k}]
    BY <2>1 DEF NewConsumer, StoresType
  <2>4. /\ consumers' \in [Peers -> SUBSET Kinds]
        /\ \A q \in Peers : consumers[q] \subseteq consumers'[q]
    BY <2>3
  <2>5. StoresType'
    BY <2>1, <2>4 DEF NewConsumer, StoresType, pubLog
  <2>6. UNCHANGED <<remote, hasSdp, joins, sendTp, givesMids, sendable, cs, calls, owners, pubLog,
                       subLog>>
    BY <2>1 DEF NewConsumer, room
  <2> QED BY <2>2, <2>4, <2>5, <2>6, FrameStep
<1> QED BY <1>1, <1>2, <1>3, <1>4

LEMMA JoinTransportsStep == ASSUME Inv, JoinTransports PROVE Inv'
<1> USE DEF Inv, Types
<1>1. /\ joins' = joins + 1 /\ joins < MaxJoins
      /\ sendTp' = joins' \/ (sendTp # NoTp /\ sendTp' = sendTp)
      /\ stale' = (stale \/ hasSdp \/ \E c \in Callers : cs[c].pc = "create")
      /\ api
      /\ UNCHANGED <<remote, hasSdp, api, givesMids, sendable, cs, calls, stores,
                     owners, overlapped, late, mute, threw, connects, produced, subLog>>
  BY DEF JoinTransports
<1>2. joins \in Nat /\ joins' \in Tps /\ sendTp' \in 0..joins'
  BY <1>1, CallBoundsAssumption DEF RoomType, Tps, NoTp
<1>3. LocalsType' /\ LinesType'
  BY <1>1 DEF LocalsType, LinesType, remote
<1>4. RoomType'
  BY <1>1, <1>2 DEF RoomType
<1>5. stale' \in BOOLEAN
  BY <1>1, Zenon
<1>6. StoresType'
  BY <1>1, <1>5 DEF StoresType, stores
<1>7. LocalsFit'
  <2> SUFFICES ASSUME NEW c \in Callers PROVE LineCount(cs[c])'
    BY DEF LocalsFit
  <2>1. cs'[c] = cs[c] /\ LineCount(cs[c])
    BY <1>1 DEF LocalsFit
  <2> QED BY <1>1, <1>2, <2>1 DEF LineCount
<1>8. SdpChosen' /\ OnePublisher' /\ FreshIsNull' /\ IndexIsEnd'
  BY <1>1 DEF SdpChosen, Alone, OnePublisher, FreshIsNull, IndexIsEnd
<1>9. LinesOfCall'
  BY <1>1 DEF Alone, LinesOfCall, OwnLines, Sent, AllOf, remote
<1>10. Connected'
  BY <1>1, <1>2 DEF Connected
<1>11. SameTransport'
  <2> SUFFICES ASSUME ~stale' PROVE SameTransport'
    BY DEF SameTransport
  <2>1. ~hasSdp /\ \A c \in Callers : cs[c].pc # "create"
    BY <1>1
  <2>2. \A c \in Callers : cs[c].pc \notin OnTransport
    BY <2>1 DEF SdpChosen, OnTransport, HasIndex
  <2> QED BY <1>1, <2>1, <2>2 DEF SameTransport
<1>12. Loop'
  BY <1>1 DEF Loop, stores
<1>13. Results'
  BY <1>1, <1>2 DEF Results, PublishUndisturbed, KindsOf, ProducedLine, ProducesOnConnected, SubscribeVerdict,
         subLog
<1> QED BY <1>3, <1>4, <1>6, <1>7, <1>8, <1>9, <1>10, <1>11, <1>12, <1>13 DEF Alone

-----------------------------------------------------------------------------
\* A call ends, and a call of subscribe begins or goes on.

LEMMA EndStep ==
    ASSUME Inv, NEW c \in Callers, NEW new \in {Idle, Stranded}, Moves(c, new),
           UNCHANGED <<mediaSections, sdpMedia, role, ice, hasSdp, room, calls, consumers, owners,
                       overlapped, stale, late, mute, connects, produced>>,
           StoresType', PublishUndisturbed', SubscribeVerdict'
    PROVE  Inv'
<1> USE DEF Inv, Types
<1>1. /\ cs'[c].pc \in {"idle", "stranded"} /\ \A d \in Callers : d # c => cs'[d] = cs[d]
      /\ cs' \in [Callers -> Local]
  BY IdleType DEF Moves
<1>2. LocalsType' /\ LinesType' /\ RoomType'
  BY <1>1 DEF LocalsType, LinesType, RoomType, room
<1>3. LocalsFit' /\ SdpChosen'
  BY <1>1 DEF LocalsFit, LineCount, SdpChosen, OnTransport, HasIndex, room
<1>4. OnePublisher' /\ FreshIsNull' /\ IndexIsEnd'
  BY <1>1, Steps DEF Alone, OnePublisher, FreshIsNull, IndexIsEnd, IndexPending
<1>5. LinesOfCall'
  BY <1>1, Steps DEF Alone, LinesOfCall, OwnLines, Sent, AllOf
<1>6. Connected' /\ SameTransport'
  BY <1>1, Steps DEF Connected, SameTransport, AfterConnect, OnTransport, room
<1>7. Loop'
  BY <1>1, Steps DEF Loop
<1>8. ProducedLine' /\ ProducesOnConnected'
  BY DEF Results, ProducedLine, ProducesOnConnected, room
<1> QED BY <1>2, <1>3, <1>4, <1>5, <1>6, <1>7, <1>8 DEF Alone, Results

LEMMA SubStep ==
    ASSUME Inv, NEW c \in Callers, NEW new \in Local, Moves(c, new),
           cs[c].pc \notin PublishSteps, new.pc \in SubscribeSteps, new.id \in 1..calls',
           calls' \in {calls, calls + 1}, calls' <= MaxCalls, Loop',
           UNCHANGED <<remote, hasSdp, room, stores, owners, pubLog, subLog>>
    PROVE  Inv'
<1> USE DEF Inv, Types
<1>1. /\ cs'[c] = new /\ \A d \in Callers : d # c => cs'[d] = cs[d]
      /\ cs' \in [Callers -> Local] /\ new.pc \notin PublishSteps
      /\ new.pc \notin {"idle", "stranded"}
  BY Steps DEF Moves
<1>2. calls \in Nat /\ calls' \in 0..MaxCalls /\ 1..calls \subseteq 1..calls'
  BY CallBoundsAssumption DEF LocalsType
<1>3. LocalsType'
  BY <1>1, <1>2 DEF LocalsType
<1>4. LinesType' /\ RoomType' /\ StoresType'
  BY <1>2 DEF LinesType, RoomType, StoresType, room, remote, stores, pubLog
<1>5. LocalsFit' /\ SdpChosen'
  BY <1>1, Steps DEF LocalsFit, LineCount, SdpChosen, OnTransport, HasIndex, PublishSteps, room
<1>6. OnePublisher' /\ FreshIsNull' /\ IndexIsEnd'
  BY <1>1 DEF Alone, OnePublisher, FreshIsNull, IndexIsEnd, IndexPending, PublishSteps, pubLog
<1>7. LinesOfCall'
  BY <1>1 DEF Alone, LinesOfCall, OwnLines, Sent, AllOf, pubLog, remote
<1>8. Connected' /\ SameTransport'
  BY <1>1 DEF Connected, SameTransport, AfterConnect, OnTransport, PublishSteps, room, remote, pubLog
<1>9. Results'
  BY DEF Results, PublishUndisturbed, KindsOf, ProducedLine, ProducesOnConnected, SubscribeVerdict, room,
         pubLog, subLog
<1> QED BY <1>3, <1>4, <1>5, <1>6, <1>7, <1>8, <1>9 DEF Alone

-----------------------------------------------------------------------------
\* publish: the steps before an m-line is sent.

LEMMA PublishStep ==
    ASSUME Inv, NEW c \in Callers, NEW s \in Streams, NEW audio \in BOOLEAN, Publish(c, s, audio)
    PROVE  Inv'
<1> USE DEF Inv, Types
<1> DEFINE new == [Idle EXCEPT !.pc = "offer", !.id = calls', !.stream = s,
                               !.kind = IF audio THEN "audio" ELSE "video"]
<1>1. /\ cs[c].pc = "idle" /\ calls < MaxCalls /\ calls' = calls + 1
      /\ cs' = [cs EXCEPT ![c] = new]
      /\ overlapped' = (overlapped \/ \E d \in Callers : cs[d].pc \in PublishSteps)
      /\ mute' = IF audio THEN mute ELSE mute \cup {calls'}
      /\ UNCHANGED <<remote, hasSdp, room, stores, owners, stale, late, threw, connects, produced,
                     subLog>>
  BY DEF Publish
<1>2. calls \in Nat /\ calls' \in 1..MaxCalls /\ 1..calls \subseteq 1..calls' /\ calls' \notin 1..calls
  BY <1>1, CallBoundsAssumption DEF LocalsType
<1>3. /\ new.pc = "offer" /\ new.id = calls' /\ new.lines = 0
      /\ new.kind = IF audio THEN "audio" ELSE "video"
  BY DEF Idle
<1>4. new \in Local
  <2>2. /\ "offer" \in PublishSteps /\ calls' \in 0..MaxCalls /\ 0 \in Tps
        /\ (IF audio THEN "audio" ELSE "video") \in Kinds
    BY <1>2, CallBoundsAssumption DEF PublishSteps, Tps, Kinds
  <2>3. \A k \in Kinds : [Idle EXCEPT !.pc = "offer", !.id = calls', !.stream = s, !.kind = k] \in Local
    BY <2>2, IdleType DEF Local
  <2> QED BY <2>2, <2>3
<1>5. Moves(c, new)
  BY <1>1, <1>4, Moving DEF LocalsType
<1> HIDE DEF new
<1>6. LocalsType'
  BY <1>1, <1>2, <1>3, <1>5 DEF LocalsType, Moves
<1>7. LinesType' /\ RoomType'
  BY <1>1, <1>2 DEF LinesType, RoomType, remote, room
<1>8. StoresType'
  <2>1. overlapped' \in BOOLEAN
    BY <1>1, Zenon
  <2>2. mute' \subseteq 1..calls'
    BY <1>1, <1>2 DEF StoresType
  <2> QED BY <1>1, <1>2, <2>1, <2>2 DEF StoresType, stores
<1>9. LocalsFit' /\ SdpChosen'
  BY <1>1, <1>3, <1>5 DEF LocalsFit, LineCount, SdpChosen, OnTransport, HasIndex, Moves, room
<1>10. OnePublisher' /\ FreshIsNull' /\ IndexIsEnd'
  BY <1>1, <1>3, <1>5 DEF Alone, OnePublisher, FreshIsNull, IndexIsEnd, IndexPending, Moves
<1>11. LinesOfCall'
  <2> SUFFICES ASSUME ~overlapped', NEW d \in Callers,
                      cs'[d].pc \in PublishSteps, cs'[d].id \notin late'
               PROVE  OwnLines(cs[d])'
    BY DEF LinesOfCall
  <2>1. d = c
    BY <1>1, <1>5 DEF Moves
  <2>2. cs'[d] = new /\ Sent(new) = 0 /\ new.pc \notin LineSent
    BY <1>3, <1>5, <2>1 DEF Moves, Sent, LinePending, LineSent
  <2>3. owners # << >> => 1 \in DOMAIN owners /\ owners[1] # calls'
    BY <1>2 DEF LinesType
  <2>4. (\A k \in DOMAIN owners : owners[k] = new.id) => owners = << >>
    BY <1>1, <1>3, <2>3
  <2>5. owners = << >> => Len(owners) = 0 /\ DOMAIN sdpMedia = {}
    BY DEF LinesType
  <2> QED BY <1>1, <2>2, <2>4, <2>5 DEF OwnLines, AllOf, Sent, remote
<1>12. Connected'
  BY <1>1, <1>3, <1>5 DEF Connected, AfterConnect, Moves, room
<1>13. SameTransport' /\ Loop'
  BY <1>1, <1>3, <1>5, Steps DEF SameTransport, Loop, OnTransport, Moves, room, remote, stores
<1>14. PublishUndisturbed'
  <2>1. \A n \in threw : n \in mute' <=> n \in mute
    BY <1>1, <1>2 DEF StoresType
  <2> QED BY <1>1, <2>1 DEF Results, PublishUndisturbed, KindsOf, room
<1>15. ProducedLine' /\ ProducesOnConnected' /\ SubscribeVerdict'
  BY <1>1 DEF Results, ProducedLine, ProducesOnConnected, SubscribeVerdict, subLog, room
<1> QED BY <1>6, <1>7, <1>8, <1>9, <1>10, <1>11, <1>12, <1>13, <1>14, <1>15 DEF Alone, Results

\* AfterHalf keeps everything of a call but its step and its kind.
LEMMA HalfType ==
    ASSUME NEW l \in Local
    PROVE  /\ AfterHalf(l) \in Local
           /\ AfterHalf(l).id = l.id /\ AfterHalf(l).lines = l.lines
           /\ AfterHalf(l).kind = "video"
           /\ AfterHalf(l).pc = IF l.kind = "audio" THEN "offer" ELSE "store"
<1>1. l.kind \in {"audio", "video"}
  BY DEF Local, Kinds
<1>2. CASE l.kind = "audio"
  BY <1>2 DEF AfterHalf, Local, PublishSteps, Kinds
<1>3. CASE l.kind = "video"
  BY <1>3 DEF AfterHalf, Local, PublishSteps, Kinds
<1> QED BY <1>1, <1>2, <1>3

\* A half that ends without a transport, with or without its transceiver.
LEMMA HalfSkipped ==
    ASSUME Inv, KindPending, NEW c \in Callers, cs[c].pc = "offer", NEW new \in Local, Moves(c, new),
           new.id = cs[c].id, new.kind = "video",
           new.pc = IF cs[c].kind = "audio" THEN "offer" ELSE "store",
           \/ new.lines = cs[c].lines /\ late' = late
           \/ new.lines = cs[c].lines + 1 /\ late' = late \cup {cs[c].id},
           mute' = mute \cup {cs[c].id},
           UNCHANGED <<remote, hasSdp, room, calls, stores, owners, overlapped, stale, threw,
                       connects, produced, subLog>>
    PROVE  Inv'
<1> USE DEF Inv, Types
<1>1. /\ cs'[c] = new /\ \A d \in Callers : d # c => cs'[d] = cs[d]
      /\ cs' \in [Callers -> Local]
      /\ new.pc \in {"offer", "store"} /\ new.pc \in PublishSteps
      /\ cs[c].id \in 1..calls /\ cs[c] \in Local
  BY DEF Moves, LocalsType, PublishSteps
<1>2. LocalsType'
  BY <1>1 DEF LocalsType
<1>3. LinesType' /\ RoomType' /\ StoresType'
  BY <1>1 DEF LinesType, RoomType, StoresType, remote, room, stores
<1>4. LocalsFit' /\ SdpChosen'
  <2>1. LineCount(cs[c]) /\ cs[c].lines \in 0..2 /\ cs[c].kind \in {"audio", "video"}
    BY <1>1 DEF LocalsFit, Local, Kinds
  <2>2. LineCount(cs[c])'
    BY <1>1, <2>1 DEF LineCount, OnTransport
  <2> QED BY <1>1, <2>2 DEF LocalsFit, LineCount, SdpChosen, OnTransport, HasIndex, room
<1>5. OnePublisher' /\ FreshIsNull' /\ IndexIsEnd'
  BY <1>1, Steps DEF Alone, OnePublisher, FreshIsNull, IndexIsEnd, IndexPending
<1>6. LinesOfCall'
  <2> SUFFICES ASSUME ~overlapped', NEW d \in Callers,
                      cs'[d].pc \in PublishSteps, cs'[d].id \notin late'
               PROVE  OwnLines(cs[d])'
    BY DEF LinesOfCall
  <2>1. d = c /\ cs[c].pc \in PublishSteps
    BY <1>1, Steps DEF Alone, OnePublisher
  <2>2. cs[c].id \notin late /\ new.lines = cs[c].lines
    BY <1>1, <2>1
  <2>3. OwnLines(cs[c])
    BY <2>1, <2>2 DEF Alone, LinesOfCall
  <2>4. /\ Sent(new) = new.lines /\ Sent(cs[c]) = cs[c].lines /\ new.pc \notin LineSent
    BY <1>1 DEF Sent, LinePending, LineSent
  <2> QED BY <1>1, <2>1, <2>2, <2>3, <2>4 DEF OwnLines, AllOf, Sent, remote
<1>7. Connected' /\ SameTransport' /\ Loop'
  BY <1>1, Steps DEF Connected, SameTransport, Loop, AfterConnect, OnTransport, room, remote, stores
<1>8. PublishUndisturbed'
  <2>1. overlapped \/ cs[c].id \notin threw
    BY Steps DEF KindPending
  <2> QED BY <2>1 DEF Results, PublishUndisturbed, KindsOf, room
<1>9. ProducedLine' /\ ProducesOnConnected' /\ SubscribeVerdict'
  BY DEF Results, ProducedLine, ProducesOnConnected, SubscribeVerdict, subLog, room
<1> QED BY <1>2, <1>3, <1>4, <1>5, <1>6, <1>7, <1>8, <1>9 DEF Alone, Results

LEMMA NoTransportStep ==
    ASSUME Inv, KindPending, NEW c \in Callers, NoApi(c) \/ NoTransport(c)
    PROVE  Inv'
<1>1. cs \in [Callers -> Local] /\ cs[c] \in Local
  BY DEF Inv, Types, LocalsType
<1>2. CASE NoApi(c)
  <2> DEFINE new == AfterHalf(cs[c])
  <2>1. cs' = [cs EXCEPT ![c] = new] /\ cs[c].pc = "offer"
    BY <1>2 DEF NoApi
  <2>2. Moves(c, new)
    BY <1>1, <2>1, HalfType, Moving
  <2>3. /\ new \in Local /\ new.id = cs[c].id /\ new.kind = "video" /\ new.lines = cs[c].lines
        /\ new.pc = IF cs[c].kind = "audio" THEN "offer" ELSE "store"
    BY <1>1, HalfType
  <2>4. /\ late' = late /\ mute' = mute \cup {cs[c].id}
        /\ UNCHANGED <<remote, hasSdp, room, calls, stores, owners, overlapped, stale, threw,
                       connects, produced, subLog>>
    BY <1>2 DEF NoApi
  <2> HIDE DEF new
  <2> QED BY <2>1, <2>2, <2>3, <2>4, HalfSkipped
<1>3. CASE NoTransport(c)
  <2> DEFINE old == [cs[c] EXCEPT !.lines = @ + 1]
             new == AfterHalf(old)
  <2>1. cs' = [cs EXCEPT ![c] = new] /\ cs[c].pc = "offer"
    BY <1>3 DEF NoTransport
  <2>2. cs[c].lines \in 0..1
    <3>1. LineCount(cs[c]) /\ cs[c].lines \in 0..2
      BY <1>1 DEF Inv, LocalsFit, Local
    <3> QED BY <2>1, <3>1 DEF LineCount
  <2>3. old \in Local /\ old.id = cs[c].id /\ old.lines = cs[c].lines + 1 /\ old.kind = cs[c].kind
    BY <1>1, <2>2 DEF Local
  <2> HIDE DEF old
  <2>4. Moves(c, new)
    BY <1>1, <2>1, <2>3, HalfType, Moving
  <2>5. /\ new \in Local /\ new.id = cs[c].id /\ new.kind = "video" /\ new.lines = cs[c].lines + 1
        /\ new.pc = IF cs[c].kind = "audio" THEN "offer" ELSE "store"
    BY <2>3, HalfType
  <2>6. /\ late' = late \cup {cs[c].id} /\ mute' = mute \cup {cs[c].id}
        /\ UNCHANGED <<remote, hasSdp, room, calls, stores, owners, overlapped, stale, threw,
                       connects, produced, subLog>>
    BY <1>3 DEF NoTransport
  <2> HIDE DEF new
  <2> QED BY <2>1, <2>4, <2>5, <2>6, HalfSkipped
<1> QED BY <1>2, <1>3

-----------------------------------------------------------------------------
\* The index is the end of the vector, as no m-line of remote_sdp_ is closed.

LEMMA NoneClosed ==
    ASSUME NEW ms \in Seq(OpenLine)
    PROVE  {k \in DOMAIN ms : RS!IsClosed(ms[k])} = {}
<1> SUFFICES ASSUME NEW k \in DOMAIN ms PROVE ~RS!IsClosed(ms[k])
  OBVIOUS
<1>1. ms[k] \in OpenLine
  OBVIOUS
<1>2. ms[k].closed = FALSE
  BY <1>1 DEF OpenLine
<1> QED BY <1>2, Zenon DEF RS!IsClosed

LEMMA ReadIndexStep ==
    ASSUME Inv, NEW c \in Callers, ReadIndex(c)
    PROVE  Inv'
<1> USE DEF Inv, Types
<1> DEFINE next == AfterIndex(cs[c].kind)
           at   == [idx |-> Len(mediaSections'), reuseMid |-> RS!NoMid]
           new  == [cs[c] EXCEPT !.pc = next, !.msidx = at]
<1>1. /\ cs[c] \in Local /\ cs[c].pc = "create" /\ hasSdp' = TRUE
      /\ UNCHANGED <<room, calls, stores, pubLog, subLog>>
  BY DEF ReadIndex, LocalsType
<1>2. \/ cs[c].fresh /\ NewRemoteSdp(cs[c].tp)
      \/ ~cs[c].fresh /\ hasSdp /\ UNCHANGED <<remote, owners>>
  BY <1>1 DEF ReadIndex, SdpChosen
<1>3. LinesType'
  <2>1. CASE cs[c].fresh /\ NewRemoteSdp(cs[c].tp)
    <3>1. /\ mediaSections' = << >> /\ sdpMedia' = << >> /\ owners' = << >>
          /\ role' = TpRole /\ ice' = cs[c].tp
      BY <2>1 DEF NewRemoteSdp
    <3>2. /\ << >> \in Seq(OpenLine) /\ << >> \in Seq(1..calls)
          /\ Len(owners') = Len(mediaSections')
      BY <3>1
    <3>3. role' \in RS!Roles /\ ice' \in Tps
      BY <1>1, <3>1, TpRoleAssumption DEF RS!Roles, Local
    <3> QED BY <1>1, <3>1, <3>2, <3>3 DEF LinesType
  <2>2. CASE UNCHANGED <<remote, owners>>
    BY <1>1, <2>2 DEF LinesType, remote
  <2> QED BY <1>2, <2>1, <2>2
<1>4. overlapped \/ UNCHANGED <<sdpMedia, owners>>
  <2>1. CASE cs[c].fresh /\ NewRemoteSdp(cs[c].tp) /\ ~overlapped
    <3>1. ~hasSdp
      BY <1>1, <2>1 DEF Alone, FreshIsNull
    <3>2. owners = << >> /\ sdpMedia = << >>
      BY <3>1 DEF LinesType
    <3> QED BY <2>1, <3>2 DEF NewRemoteSdp
  <2> QED BY <1>2, <2>1 DEF remote
<1>5. ice' = cs[c].tp \/ (hasSdp /\ ice' = ice)
  BY <1>2 DEF NewRemoteSdp, remote
<1>6. cs' = [cs EXCEPT ![c] = new]
  <2>1. RS!ClosedAt' = {}
    BY <1>3, NoneClosed DEF LinesType, RS!ClosedAt
  <2>2. RS!GetNextMediaSectionIdx' = at
    BY <2>1 DEF RS!GetNextMediaSectionIdx
  <2> QED BY <1>1, <2>2 DEF ReadIndex, Local
<1>7. next \in IndexPending /\ next \in PublishSteps /\ (cs[c].kind = "audio" => next = "connect")
  BY DEF AfterIndex, IndexPending, PublishSteps
<1>8. new \in Local
  <2>1. Len(mediaSections') \in Nat
    BY <1>3 DEF LinesType
  <2>2. at \in [idx : Nat, reuseMid : {RS!NoMid}]
    BY <2>1
  <2> HIDE DEF next, at
  <2> QED BY <1>1, <1>7, <2>2 DEF Local
<1>9. /\ new.pc = next /\ new.kind = cs[c].kind /\ new.id = cs[c].id /\ new.tp = cs[c].tp
      /\ new.lines = cs[c].lines /\ new.msidx.idx = Len(mediaSections')
  <2> HIDE DEF next
  <2> QED BY <1>1 DEF Local
<1>10. Moves(c, new)
  BY <1>6, <1>8, Moving DEF LocalsType
<1> HIDE DEF new, next, at
<1>11. LocalsType'
  BY <1>1, <1>7, <1>9, <1>10 DEF LocalsType, Moves
<1>12. RoomType' /\ StoresType'
  BY <1>1 DEF RoomType, StoresType, room, stores, pubLog
<1>13. LocalsFit' /\ SdpChosen'
  BY <1>1, <1>7, <1>9, <1>10 DEF LocalsFit, LineCount, SdpChosen, OnTransport, HasIndex,
                                 IndexPending, Moves, room
<1>14. OnePublisher' /\ FreshIsNull'
  BY <1>1, <1>7, <1>9, <1>10, Steps DEF Alone, OnePublisher, FreshIsNull, IndexPending, OnTransport,
                                        Moves, pubLog
<1>15. IndexIsEnd'
  BY <1>1, <1>3, <1>4, <1>7, <1>9, <1>10 DEF Alone, IndexIsEnd, LinesType, Moves, pubLog
<1>16. LinesOfCall'
  <2> SUFFICES ASSUME ~overlapped', NEW d \in Callers,
                      cs'[d].pc \in PublishSteps, cs'[d].id \notin late'
               PROVE  OwnLines(cs[d])'
    BY DEF LinesOfCall
  <2>1. UNCHANGED <<sdpMedia, owners>> /\ ~overlapped /\ late' = late
    BY <1>1, <1>4 DEF pubLog
  <2>2. CASE d # c
    BY <1>10, <2>1, <2>2 DEF Alone, LinesOfCall, OwnLines, AllOf, Sent, Moves
  <2>3. CASE d = c
    <3>1. /\ cs'[d] = new /\ Sent(new) = Sent(cs[c]) /\ new.pc \notin LineSent
          /\ cs[c].pc \in PublishSteps
      BY <1>1, <1>7, <1>9, <1>10, <2>3, Steps DEF Moves, Sent, LinePending, LineSent, IndexPending,
                                                  OnTransport
    <3>2. OwnLines(cs[c])
      BY <1>9, <2>1, <2>3, <3>1 DEF Alone, LinesOfCall
    <3> QED BY <1>9, <2>1, <3>1, <3>2 DEF OwnLines, AllOf, Sent
  <2> QED BY <2>2, <2>3
<1>17. Connected' /\ Loop'
  BY <1>1, <1>7, <1>9, <1>10, Steps DEF Connected, Loop, AfterConnect, OnTransport, Moves, room,
                                        stores, pubLog
<1>18. SameTransport'
  BY <1>1, <1>5, <1>7, <1>9, <1>10 DEF SameTransport, OnTransport, IndexPending, Moves, room, pubLog
<1>19. Results'
  BY <1>1, <1>4 DEF Results, PublishUndisturbed, KindsOf, ProducedLine, ProducesOnConnected,
                    SubscribeVerdict, subLog, pubLog, room
<1> QED BY <1>3, <1>11, <1>12, <1>13, <1>14, <1>15, <1>16, <1>17, <1>18, <1>19 DEF Alone

LEMMA ConnectTransportStep ==
    ASSUME Inv, NEW c \in Callers, ConnectTransport(c)
    PROVE  Inv'
<1> USE DEF Inv, Types
<1> DEFINE new == [cs[c] EXCEPT !.pc = "role"]
<1>1. /\ cs[c] \in Local /\ cs[c].pc = "connect" /\ cs' = [cs EXCEPT ![c] = new]
      /\ connects' = connects \cup {<<cs[c].id, cs[c].tp>>}
      /\ UNCHANGED <<remote, hasSdp, room, calls, stores, owners, overlapped, stale, late, mute,
                     threw, produced, subLog>>
  BY DEF ConnectTransport, Goto, LocalsType
<1>2. new \in Local
  BY <1>1 DEF Local, PublishSteps
<1>3. /\ new.pc = "role" /\ new.kind = cs[c].kind /\ new.id = cs[c].id /\ new.tp = cs[c].tp
      /\ new.lines = cs[c].lines /\ new.msidx = cs[c].msidx
  BY <1>1 DEF Local
<1>4. Moves(c, new)
  BY <1>1, <1>2, Moving DEF LocalsType
<1> HIDE DEF new
<1>5. LocalsType'
  BY <1>1, <1>3, <1>4 DEF LocalsType, Moves
<1>6. LinesType' /\ RoomType' /\ StoresType'
  BY <1>1 DEF LinesType, RoomType, StoresType, room, remote, stores
<1>7. LocalsFit' /\ SdpChosen'
  BY <1>1, <1>3, <1>4 DEF LocalsFit, LineCount, SdpChosen, OnTransport, HasIndex, Moves, room
<1>8. OnePublisher' /\ FreshIsNull' /\ IndexIsEnd'
  BY <1>1, <1>3, <1>4, Steps DEF Alone, OnePublisher, FreshIsNull, IndexIsEnd, IndexPending,
                                 OnTransport, Moves
<1>9. LinesOfCall'
  BY <1>1, <1>3, <1>4, Steps DEF Alone, LinesOfCall, OwnLines, AllOf, Sent, LinePending, LineSent,
                                 OnTransport, Moves, remote
<1>10. Connected'
  BY <1>1, <1>3, <1>4, Steps DEF Connected, AfterConnect, OnTransport, Moves, room
<1>11. SameTransport' /\ Loop'
  BY <1>1, <1>3, <1>4, Steps DEF SameTransport, Loop, OnTransport, Moves, room, remote, stores
<1>12. Results'
  BY <1>1 DEF Results, PublishUndisturbed, KindsOf, ProducedLine, ProducesOnConnected, SubscribeVerdict,
              subLog, room
<1> QED BY <1>5, <1>6, <1>7, <1>8, <1>9, <1>10, <1>11, <1>12 DEF Alone

\* The role in every m-line of the vector: no m-line comes, goes or changes mid.
LEMMA RoleType ==
    ASSUME NEW ms \in Seq(OpenLine), NEW r \in RS!Roles
    PROVE  LET new == [k \in DOMAIN ms |-> RS!SetDtlsRole(ms[k], r)]
           IN  /\ new \in Seq(OpenLine) /\ Len(new) = Len(ms) /\ DOMAIN new = DOMAIN ms
               /\ \A k \in DOMAIN ms : new[k].mid = ms[k].mid
<1> DEFINE new == [k \in DOMAIN ms |-> RS!SetDtlsRole(ms[k], r)]
<1>1. \A x \in OpenLine : RS!SetDtlsRole(x, r) \in OpenLine /\ RS!SetDtlsRole(x, r).mid = x.mid
  <2>1. RS!SetupOf(r) \in RS!Setups /\ "actpass" \in RS!Setups
    BY DEF RS!Roles, RS!Setups, RS!SetupOf
  <2> QED BY <2>1 DEF OpenLine, RS!SetDtlsRole
<1>2. DOMAIN ms = 1..Len(ms) /\ Len(ms) \in Nat /\ \A k \in DOMAIN ms : ms[k] \in OpenLine
  OBVIOUS
<1>3. \A k \in DOMAIN ms : new[k] \in OpenLine /\ new[k].mid = ms[k].mid
  BY <1>1, <1>2
<1>4. new \in [1..Len(ms) -> OpenLine]
  BY <1>2, <1>3
<1>5. new \in Seq(OpenLine) /\ Len(new) = Len(ms)
  BY <1>2, <1>4
<1> QED BY <1>2, <1>3, <1>5

LEMMA UpdateRoleStep ==
    ASSUME Inv, NEW c \in Callers, UpdateRole(c)
    PROVE  Inv'
<1> USE DEF Inv, Types
<1> DEFINE new == [cs[c] EXCEPT !.pc = "send"]
<1>1. /\ cs[c] \in Local /\ cs[c].pc = "role" /\ cs' = [cs EXCEPT ![c] = new]
      /\ UNCHANGED <<hasSdp, room, calls, stores, owners, pubLog, subLog>>
  BY DEF UpdateRole, Goto, LocalsType
<1>2. /\ role' = remoteDtlsRole /\ ice' = ice
      /\ mediaSections' = [k \in DOMAIN mediaSections |->
                              RS!SetDtlsRole(mediaSections[k], remoteDtlsRole)]
      /\ sdpMedia' = mediaSections'
  BY DEF UpdateRole, RS!UpdateDtlsRole
<1>3. remoteDtlsRole \in RS!Roles
  BY DEF remoteDtlsRole, RS!Roles
<1>4. /\ mediaSections' \in Seq(OpenLine) /\ Len(mediaSections') = Len(mediaSections)
      /\ DOMAIN sdpMedia' = DOMAIN sdpMedia
      /\ \A k \in DOMAIN sdpMedia : sdpMedia'[k].mid = sdpMedia[k].mid
  BY <1>2, <1>3, RoleType DEF LinesType
<1>5. new \in Local
  BY <1>1 DEF Local, PublishSteps
<1>6. /\ new.pc = "send" /\ new.kind = cs[c].kind /\ new.id = cs[c].id /\ new.tp = cs[c].tp
      /\ new.lines = cs[c].lines /\ new.msidx = cs[c].msidx
  BY <1>1 DEF Local
<1>7. Moves(c, new)
  BY <1>1, <1>5, Moving DEF LocalsType
<1> HIDE DEF new
<1>8. LocalsType'
  BY <1>1, <1>6, <1>7 DEF LocalsType, Moves
<1>9. LinesType' /\ RoomType' /\ StoresType'
  BY <1>1, <1>2, <1>3, <1>4 DEF LinesType, RoomType, StoresType, room, stores, pubLog
<1>10. LocalsFit' /\ SdpChosen'
  BY <1>1, <1>6, <1>7 DEF LocalsFit, LineCount, SdpChosen, OnTransport, HasIndex, Moves, room
<1>11. OnePublisher' /\ FreshIsNull' /\ IndexIsEnd'
  BY <1>1, <1>6, <1>7, Steps DEF Alone, OnePublisher, FreshIsNull, IndexIsEnd, IndexPending,
                                 OnTransport, Moves, pubLog
<1>12. LinesOfCall'
  <2> SUFFICES ASSUME ~overlapped', NEW d \in Callers,
                      cs'[d].pc \in PublishSteps, cs'[d].id \notin late'
               PROVE  OwnLines(cs[d])'
    BY DEF LinesOfCall
  <2>1. /\ Sent(cs'[d]) = Sent(cs[d]) /\ cs'[d].id = cs[d].id /\ cs[d].pc \in PublishSteps
        /\ cs'[d].msidx = cs[d].msidx /\ cs'[d].lines = cs[d].lines
        /\ cs'[d].pc \in LineSent => cs[d].pc \in LineSent
    BY <1>1, <1>6, <1>7, Steps DEF Moves, Sent, LinePending, LineSent, OnTransport
  <2>2. OwnLines(cs[d])
    BY <1>1, <2>1 DEF Alone, LinesOfCall, pubLog
  <2> QED BY <1>1, <1>4, <2>1, <2>2 DEF OwnLines, AllOf, Sent
<1>13. Connected' /\ SameTransport' /\ Loop'
  BY <1>1, <1>2, <1>6, <1>7, Steps DEF Connected, SameTransport, Loop, AfterConnect, OnTransport,
                                       Moves, room, stores, pubLog
<1>14. Results'
  BY <1>1 DEF Results, PublishUndisturbed, KindsOf, ProducedLine, ProducesOnConnected, SubscribeVerdict,
              subLog, pubLog, room
<1> QED BY <1>8, <1>9, <1>10, <1>11, <1>12, <1>13, <1>14 DEF Alone

-----------------------------------------------------------------------------
\* publish: the m-line is sent, produced on and answered.

\* A publish that ends in an exception.
LEMMA ThrowStep ==
    ASSUME Inv, NEW c \in Callers, cs[c].pc \in PublishSteps, Throw(c),
           \/ overlapped \/ cs[c].id \in late \/ ~AllOf(cs[c].id)
           \/ ~(KindsOf(cs[c].id) \subseteq sendable),
           UNCHANGED <<mediaSections, sdpMedia, role, ice, hasSdp, room, calls, stores, owners,
                       overlapped, stale, late, mute, connects, produced, subLog>>
    PROVE  Inv'
<1> USE DEF Inv, Types
<1>1. cs' = [cs EXCEPT ![c] = Idle] /\ threw' = threw \cup {cs[c].id}
  BY DEF Throw
<1>2. Moves(c, Idle)
  BY <1>1, IdleType, Moving DEF LocalsType
<1>3. cs[c].id \in 1..calls
  BY Steps DEF LocalsType
<1>4. StoresType'
  BY <1>1, <1>3 DEF StoresType, stores
<1>5. PublishUndisturbed'
  BY <1>1 DEF Results, PublishUndisturbed, KindsOf, AllOf, room
<1>6. SubscribeVerdict'
  BY DEF Results, SubscribeVerdict, subLog, room
<1> QED BY <1>2, <1>4, <1>5, <1>6, EndStep DEF stores

LEMMA SendOfferLineStep ==
    ASSUME Inv, KindPending, NEW c \in Callers, SendOfferLine(c)
    PROVE  Inv'
<1> USE DEF Inv, Types
<1>1. /\ cs[c] \in Local /\ cs[c].pc = "send" /\ cs[c].pc \in PublishSteps
      /\ cs[c].id \in 1..calls
      /\ UNCHANGED <<hasSdp, room, calls, stores, overlapped, stale, late, mute, connects, produced,
                     subLog>>
  BY DEF SendOfferLine, LocalsType, PublishSteps
<1>2. /\ cs[c].lines \in 1..2 /\ cs[c].msidx.idx \in Nat /\ cs[c].msidx.reuseMid = RS!NoMid
      /\ Sent(cs[c]) = cs[c].lines - 1
  <2>1. LineCount(cs[c]) /\ cs[c].lines \in 0..2
    BY <1>1 DEF LocalsFit, Local
  <2>2. cs[c].lines \in 1..2
    BY <1>1, <2>1 DEF LineCount, OnTransport
  <2> QED BY <1>1, <2>2 DEF Local, Sent, LinePending
<1>3. overlapped \/ cs[c].id \in late \/ OwnLines(cs[c])
  BY <1>1 DEF Alone, LinesOfCall
<1>4. overlapped \/ cs[c].msidx.idx = Len(owners)
  BY <1>1 DEF Alone, IndexIsEnd, IndexPending
<1>5. CASE cs[c].msidx.idx >= cs[c].lines /\ Throw(c) /\ UNCHANGED <<remote, owners>>
  <2>1. overlapped \/ cs[c].id \in late \/ ~AllOf(cs[c].id)
    BY <1>2, <1>3, <1>4, <1>5 DEF OwnLines
  <2> QED BY <1>1, <1>5, <2>1, ThrowStep DEF remote
<1>7. CASE cs[c].kind \notin sendable /\ Throw(c) /\ UNCHANGED <<remote, owners>>
  <2>1. overlapped \/ cs[c].kind \in KindsOf(cs[c].id)
    BY <1>1 DEF Local, Kinds, KindsOf, KindPending
  <2>2. overlapped \/ ~(KindsOf(cs[c].id) \subseteq sendable)
    BY <1>7, <2>1
  <2> QED BY <1>1, <1>7, <2>2, ThrowStep DEF remote
<1>6. CASE /\ cs[c].msidx.idx < cs[c].lines
           /\ RS!SendLine(MidAt[cs[c].msidx.idx + 1], cs[c].msidx.reuseMid)
           /\ owners' = Append(owners, cs[c].id)
           /\ cs' = [cs EXCEPT ![c].pc = "produce"]
           /\ UNCHANGED threw
  <2> DEFINE new  == [cs[c] EXCEPT !.pc = "produce"]
             line == RS!AnswerMediaSection(MidAt[cs[c].msidx.idx + 1], "media")
             n    == Len(owners)
  <2>1. /\ mediaSections' = Append(mediaSections, line) /\ sdpMedia' = Append(sdpMedia, line)
        /\ role' = role /\ ice' = ice
    BY <1>2, <1>6 DEF RS!SendLine, RS!ReuseOrAdd, RS!AddMediaSection
  <2>2. cs' = [cs EXCEPT ![c] = new] /\ owners' = Append(owners, cs[c].id) /\ threw' = threw
    BY <1>6
  <2>3. cs[c].msidx.idx \in 0..1 /\ MidAt[cs[c].msidx.idx + 1] \in {"0", "1"}
    <3>1. cs[c].msidx.idx = 0 \/ cs[c].msidx.idx = 1
      BY <1>2, <1>6
    <3> QED BY <3>1 DEF MidAt
  <2>4. line \in OpenLine /\ line.mid = MidAt[cs[c].msidx.idx + 1]
    <3>1. RS!SetupOf(role) \in RS!Setups /\ ice \in Tps
      BY DEF LinesType, RS!Roles, RS!Setups, RS!SetupOf
    <3> QED BY <2>3, <3>1 DEF RS!AnswerMediaSection, OpenLine
  <2>5. new \in Local
    BY <1>1 DEF Local, PublishSteps
  <2>6. /\ new.pc = "produce" /\ new.kind = cs[c].kind /\ new.id = cs[c].id /\ new.tp = cs[c].tp
        /\ new.lines = cs[c].lines /\ new.msidx = cs[c].msidx
    BY <1>1 DEF Local
  <2>7. Moves(c, new)
    BY <1>1, <2>2, <2>5, Moving DEF LocalsType
  <2> HIDE DEF new, line
  <2>8. /\ n \in Nat /\ Len(owners') = n + 1 /\ owners'[n + 1] = cs[c].id
        /\ DOMAIN owners' = 1..(n + 1) /\ DOMAIN owners = 1..n
        /\ \A k \in 1..n : owners'[k] = owners[k]
        /\ owners' \in Seq(1..calls)
    BY <1>1, <2>2 DEF LinesType
  <2>9. /\ mediaSections' \in Seq(OpenLine) /\ Len(mediaSections') = n + 1
        /\ sdpMedia' = mediaSections'
        /\ DOMAIN sdpMedia' = 1..(n + 1) /\ DOMAIN sdpMedia = 1..n
        /\ sdpMedia'[n + 1] = line /\ \A k \in 1..n : sdpMedia'[k] = sdpMedia[k]
    BY <2>1, <2>4 DEF LinesType
  <2> HIDE DEF n
  <2>10. LocalsType'
    BY <1>1, <2>6, <2>7 DEF LocalsType, Moves
  <2>11. LinesType'
    <3>1. hasSdp
      BY <1>1 DEF SdpChosen, HasIndex
    <3>2. hasSdp' \in BOOLEAN /\ hasSdp'
      BY <1>1, <3>1 DEF LinesType
    <3> QED BY <1>1, <2>1, <2>8, <2>9, <3>2 DEF LinesType
  <2>12. RoomType' /\ StoresType'
    BY <1>1, <2>2 DEF RoomType, StoresType, room, stores
  <2>13. LocalsFit' /\ SdpChosen'
    BY <1>1, <2>6, <2>7 DEF LocalsFit, LineCount, SdpChosen, OnTransport, HasIndex, Moves, room
  <2>14. OnePublisher' /\ FreshIsNull'
    BY <1>1, <2>6, <2>7, Steps DEF Alone, OnePublisher, FreshIsNull, OnTransport, Moves
  <2>15. IndexIsEnd'
    BY <1>1, <2>6, <2>7, Steps DEF Alone, OnePublisher, IndexIsEnd, IndexPending, OnTransport, Moves,
                                   PublishSteps
  <2>16. LinesOfCall'
    <3> SUFFICES ASSUME ~overlapped', NEW d \in Callers,
                        cs'[d].pc \in PublishSteps, cs'[d].id \notin late'
                 PROVE  OwnLines(cs[d])'
      BY DEF LinesOfCall
    <3>1. d = c /\ ~overlapped
      BY <1>1, <2>7 DEF Alone, OnePublisher, Moves
    <3>2. cs'[d] = new /\ OwnLines(cs[c]) /\ cs[c].msidx.idx = n
      BY <1>1, <1>3, <1>4, <2>6, <2>7, <3>1 DEF Moves, n
    <3>3. \A k \in 1..n : owners[k] = cs[c].id
      <4>1. CASE cs[c].lines = 2
        BY <1>2, <2>8, <3>2, <4>1 DEF OwnLines, AllOf
      <4>2. CASE cs[c].lines = 1
        BY <1>2, <1>6, <3>2, <4>2
      <4> QED BY <1>2, <4>1, <4>2
    <3>4. /\ n = cs[c].lines - 1
          /\ \A k \in 1..n : sdpMedia[k].mid = MidAt[k]
      BY <1>2, <2>8, <2>9, <3>2, <3>3 DEF OwnLines, AllOf, n
    <3>5. \A k \in 1..(n + 1) : owners'[k] = cs[c].id /\ sdpMedia'[k].mid = MidAt[k]
      <4> TAKE k \in 1..(n + 1)
      <4>1. CASE k = n + 1
        BY <2>4, <2>8, <2>9, <3>2, <4>1
      <4>2. CASE k \in 1..n
        BY <2>8, <2>9, <3>3, <3>4, <4>2
      <4> QED BY <2>8, <4>1, <4>2
    <3>6. /\ new.lines = n + 1 /\ new.pc \notin LinePending
          /\ new.msidx.idx + 1 = new.lines
      BY <1>2, <2>6, <2>8, <3>2, <3>4 DEF LinePending
    <3>7. (\A k \in DOMAIN owners' : owners'[k] = new.id) /\ Len(owners') = new.lines
      BY <2>6, <2>8, <3>5, <3>6
    <3>8. \A k \in DOMAIN sdpMedia' : sdpMedia'[k].mid = MidAt[k]
      BY <2>9, <3>5
    <3> QED BY <3>2, <3>6, <3>7, <3>8 DEF OwnLines, AllOf, Sent
  <2>17. Connected' /\ SameTransport' /\ Loop'
    BY <1>1, <2>1, <2>6, <2>7, Steps DEF Connected, SameTransport, Loop, AfterConnect, OnTransport,
                                         Moves, room, stores
  <2>18. PublishUndisturbed'
    BY <1>1, <2>2, <2>8 DEF Results, PublishUndisturbed, KindsOf, room
  <2>19. ProducedLine' /\ ProducesOnConnected' /\ SubscribeVerdict'
    BY <1>1 DEF Results, ProducedLine, ProducesOnConnected, SubscribeVerdict, subLog, room
  <2> QED BY <2>10, <2>11, <2>12, <2>13, <2>14, <2>15, <2>16, <2>17, <2>18, <2>19 DEF Alone, Results
<1> QED BY <1>5, <1>6, <1>7 DEF SendOfferLine

LEMMA ProduceStep ==
    ASSUME Inv, NEW c \in Callers, Produce(c)
    PROVE  Inv'
<1> USE DEF Inv, Types
<1> DEFINE new == [cs[c] EXCEPT !.pc = "answer"]
           r   == [id |-> cs[c].id, tp |-> cs[c].tp, mid |-> MidAt[cs[c].lines],
                   line |-> MidAt[cs[c].msidx.idx + 1]]
<1>1. /\ cs[c] \in Local /\ cs[c].pc = "produce" /\ cs' = [cs EXCEPT ![c] = new]
      /\ cs[c].pc \in PublishSteps
      /\ produced' = produced \cup {r}
      /\ UNCHANGED <<remote, hasSdp, room, calls, stores, owners, overlapped, stale, late, mute,
                     threw, connects, subLog>>
  BY DEF Produce, Goto, LocalsType, PublishSteps
<1>2. new \in Local
  BY <1>1 DEF Local, PublishSteps
<1>3. /\ new.pc = "answer" /\ new.kind = cs[c].kind /\ new.id = cs[c].id /\ new.tp = cs[c].tp
      /\ new.lines = cs[c].lines /\ new.msidx = cs[c].msidx
  BY <1>1 DEF Local
<1>4. Moves(c, new)
  BY <1>1, <1>2, Moving DEF LocalsType
<1> HIDE DEF new
<1>5. LocalsType'
  BY <1>1, <1>3, <1>4 DEF LocalsType, Moves
<1>6. LinesType' /\ RoomType' /\ StoresType'
  BY <1>1 DEF LinesType, RoomType, StoresType, room, remote, stores
<1>7. LocalsFit' /\ SdpChosen'
  BY <1>1, <1>3, <1>4 DEF LocalsFit, LineCount, SdpChosen, OnTransport, HasIndex, Moves, room
<1>8. OnePublisher' /\ FreshIsNull' /\ IndexIsEnd'
  BY <1>1, <1>3, <1>4, Steps DEF Alone, OnePublisher, FreshIsNull, IndexIsEnd, IndexPending,
                                 OnTransport, Moves
<1>9. LinesOfCall'
  BY <1>1, <1>3, <1>4, Steps DEF Alone, LinesOfCall, OwnLines, AllOf, Sent, LinePending, LineSent,
                                 OnTransport, Moves, remote
<1>10. Connected' /\ SameTransport' /\ Loop'
  BY <1>1, <1>3, <1>4, Steps DEF Connected, SameTransport, Loop, AfterConnect, OnTransport, Moves,
                                 room, remote, stores
<1>11. PublishUndisturbed' /\ SubscribeVerdict'
  BY <1>1 DEF Results, PublishUndisturbed, KindsOf, SubscribeVerdict, subLog, room
<1>12. ProducedLine'
  <2>1. overlapped \/ cs[c].id \in late \/ cs[c].msidx.idx + 1 = cs[c].lines
    BY <1>1 DEF Alone, LinesOfCall, OwnLines, LineSent
  <2>2. overlapped \/ r.id \in late \/ r.mid = r.line
    BY <2>1
  <2> QED BY <1>1, <2>2 DEF Results, ProducedLine
<1>13. ProducesOnConnected'
  <2>1. <<cs[c].id, cs[c].tp>> \in connects \/ cs[c].id \in mute \/ joins > 1
    <3>1. cs[c].kind \in {"audio", "video"} /\ cs[c].tp \in 1..joins /\ joins \in Nat
      BY <1>1, CallBoundsAssumption DEF Local, Kinds, LocalsFit, LineCount, OnTransport, RoomType, Tps
    <3>2. CASE cs[c].kind = "audio"
      BY <1>1, <3>2 DEF Connected, AfterConnect
    <3>3. CASE cs[c].kind = "video" /\ joins <= 1
      <4>1. cs[c].tp = 1
        BY <3>1, <3>3
      <4> QED BY <1>1, <3>3, <4>1 DEF Connected
    <3> QED BY <3>1, <3>2, <3>3
  <2>2. <<r.id, r.tp>> \in connects \/ r.id \in mute \/ joins > 1
    BY <2>1
  <2>3. produced' = produced \cup {r} /\ UNCHANGED <<connects, mute, joins>>
    BY <1>1 DEF room
  <2> HIDE DEF r
  <2> QED BY <2>2, <2>3 DEF Results, ProducesOnConnected
<1> QED BY <1>5, <1>6, <1>7, <1>8, <1>9, <1>10, <1>11, <1>12, <1>13 DEF Alone, Results

LEMMA ApplyAnswerStep ==
    ASSUME Inv, NEW c \in Callers, ApplyAnswer(c)
    PROVE  Inv'
<1> USE DEF Inv, Types
<1>1. /\ cs[c] \in Local /\ cs[c].pc = "answer" /\ cs[c].pc \in PublishSteps
      /\ UNCHANGED <<hasSdp, room, calls, stores, owners, overlapped, stale, late, mute, connects,
                     produced, subLog>>
      /\ UNCHANGED <<mediaSections, sdpMedia, role, ice>>
  BY DEF ApplyAnswer, LocalsType, PublishSteps, RS!GetSdp
<1>2. cs[c].lines \in Nat /\ cs[c].lines >= 1
  <2>1. LineCount(cs[c]) /\ cs[c].lines \in 0..2
    BY <1>1 DEF LocalsFit, Local
  <2> QED BY <1>1, <2>1 DEF LineCount, OnTransport
<1>3. /\ Sent(cs[c]) = cs[c].lines
      /\ overlapped \/ cs[c].id \in late \/ OwnLines(cs[c])
  BY <1>1 DEF Alone, LinesOfCall, Sent, LinePending
<1>4. CASE ~Accepts(c) /\ Throw(c)
  <2>1. ASSUME ~overlapped, cs[c].id \notin late, AllOf(cs[c].id) PROVE FALSE
    <3>1. Len(owners) = cs[c].lines /\ \A k \in DOMAIN sdpMedia : sdpMedia[k].mid = MidAt[k]
      BY <1>3, <2>1 DEF OwnLines
    <3>2. sdpMedia \in Seq(OpenLine) /\ Len(sdpMedia) = cs[c].lines
      BY <3>1 DEF LinesType
    <3>3. DOMAIN sdpMedia = 1..cs[c].lines
      BY <3>2
    <3> QED BY <1>4, <3>1, <3>3 DEF Accepts
  <2> QED BY <1>1, <1>4, <2>1, ThrowStep
<1>5. CASE Accepts(c) /\ cs' = [cs EXCEPT ![c] = AfterHalf(@)] /\ UNCHANGED threw
  <2> DEFINE new == AfterHalf(cs[c])
  <2>1. /\ new \in Local /\ new.id = cs[c].id /\ new.lines = cs[c].lines /\ new.kind = "video"
        /\ new.pc = IF cs[c].kind = "audio" THEN "offer" ELSE "store"
    BY <1>1, HalfType
  <2>2. Moves(c, new)
    BY <1>5, <2>1, Moving DEF LocalsType
  <2> HIDE DEF new
  <2>3. /\ cs'[c] = new /\ \A d \in Callers : d # c => cs'[d] = cs[d]
        /\ cs' \in [Callers -> Local]
        /\ new.pc \in {"offer", "store"} /\ new.pc \in PublishSteps
        /\ threw' = threw
    BY <1>5, <2>1, <2>2 DEF Moves, PublishSteps
  <2>4. LocalsType'
    BY <1>1, <2>1, <2>3, Steps DEF LocalsType
  <2>5. LinesType' /\ RoomType' /\ StoresType'
    BY <1>1, <2>3 DEF LinesType, RoomType, StoresType, room, stores
  <2>6. LocalsFit' /\ SdpChosen'
    <3>1. LineCount(cs[c]) /\ cs[c].lines \in 0..2 /\ cs[c].kind \in {"audio", "video"}
      BY <1>1 DEF LocalsFit, Local, Kinds
    <3>2. LineCount(cs[c])'
      BY <1>1, <2>1, <2>3, <3>1 DEF LineCount, OnTransport
    <3> QED BY <1>1, <2>3, <3>2 DEF LocalsFit, LineCount, SdpChosen, OnTransport, HasIndex, room
  <2>7. OnePublisher' /\ FreshIsNull' /\ IndexIsEnd'
    BY <1>1, <2>3, Steps DEF Alone, OnePublisher, FreshIsNull, IndexIsEnd, IndexPending
  <2>8. LinesOfCall'
    <3> SUFFICES ASSUME ~overlapped', NEW d \in Callers,
                        cs'[d].pc \in PublishSteps, cs'[d].id \notin late'
                 PROVE  OwnLines(cs[d])'
      BY DEF LinesOfCall
    <3>1. d = c /\ ~overlapped
      BY <1>1, <2>3 DEF Alone, OnePublisher
    <3>2. OwnLines(cs[c]) /\ Sent(new) = new.lines /\ new.pc \notin LineSent
      BY <1>1, <1>3, <2>1, <2>3, <3>1 DEF Sent, LinePending, LineSent
    <3> QED BY <1>1, <1>3, <2>1, <2>3, <3>1, <3>2 DEF OwnLines, AllOf, Sent
  <2>9. Connected'
    <3>1. cs[c].kind \in {"audio", "video"} /\ cs[c].tp \in 1..joins /\ joins \in Nat
      BY <1>1, CallBoundsAssumption DEF Local, Kinds, LocalsFit, LineCount, OnTransport, RoomType, Tps
    <3>2. cs[c].id \notin mute /\ joins <= 1 => <<cs[c].id, 1>> \in connects
      <4>1. CASE cs[c].kind = "video"
        BY <1>1, <4>1 DEF Connected
      <4>2. CASE cs[c].kind = "audio" /\ joins <= 1
        <5>1. cs[c].tp = 1
          BY <3>1, <4>2
        <5> QED BY <1>1, <4>2, <5>1 DEF Connected, AfterConnect
      <4> QED BY <3>1, <4>1, <4>2
    <3> QED BY <1>1, <2>1, <2>3, <3>2 DEF Connected, room
  <2>10. SameTransport' /\ Loop'
    BY <1>1, <2>3, Steps DEF SameTransport, Loop, OnTransport, room, stores
  <2>11. Results'
    BY <1>1, <2>3 DEF Results, PublishUndisturbed, KindsOf, ProducedLine, ProducesOnConnected,
                      SubscribeVerdict, subLog, room
  <2> QED BY <2>4, <2>5, <2>6, <2>7, <2>8, <2>9, <2>10, <2>11 DEF Alone
<1> QED BY <1>4, <1>5 DEF ApplyAnswer

LEMMA StorePublisherStep ==
    ASSUME Inv, NEW c \in Callers, StorePublisher(c)
    PROVE  Inv'
<1> USE DEF Inv, Types
<1>1. /\ cs' = [cs EXCEPT ![c] = Idle]
      /\ publishPcs' = [publishPcs EXCEPT ![cs[c].stream] = cs[c].id]
      /\ UNCHANGED <<remote, hasSdp, room, calls, consumers, subPcs, owners, pubLog, subLog>>
  BY DEF StorePublisher
<1>2. Moves(c, Idle)
  BY <1>1, IdleType, Moving DEF LocalsType
<1>3. publishPcs' \in [Streams -> 0..MaxCalls]
  <2>1. cs[c].id \in 0..MaxCalls /\ publishPcs \in [Streams -> 0..MaxCalls]
    BY DEF LocalsType, Local, StoresType
  <2> QED BY <1>1, <2>1
<1>4. StoresType'
  BY <1>1, <1>3 DEF StoresType, pubLog
<1>5. PublishUndisturbed' /\ SubscribeVerdict'
  BY <1>1 DEF Results, PublishUndisturbed, KindsOf, SubscribeVerdict, pubLog, subLog, room
<1> QED BY <1>1, <1>2, <1>4, <1>5, EndStep DEF remote, pubLog

-----------------------------------------------------------------------------
\* subscribe.

LEMMA SubscribeStep ==
    ASSUME Inv, NEW c \in Callers, NEW p \in Peers, Subscribe(c, p)
    PROVE  Inv'
<1> DEFINE new == [Idle EXCEPT !.pc = "next", !.id = calls', !.peer = p, !.known = consumers[p]]
<1>1. /\ cs[c].pc = "idle" /\ calls < MaxCalls /\ calls' = calls + 1
      /\ cs' = [cs EXCEPT ![c] = new]
      /\ UNCHANGED <<remote, hasSdp, room, stores, owners, pubLog, subLog>>
  BY DEF Subscribe
<1>2. /\ calls' \in 1..MaxCalls /\ calls' \in 1..calls' /\ consumers[p] \in SUBSET Kinds
      /\ cs \in [Callers -> Local]
  BY <1>1, CallBoundsAssumption DEF Inv, Types, LocalsType, StoresType
<1>3. new \in Local
  <2>1. "next" \in SubscribeSteps /\ calls' \in 0..MaxCalls
    BY <1>2 DEF SubscribeSteps
  <2> QED BY <1>2, <2>1, IdleType DEF Local
<1>4. /\ new.pc = "next" /\ new.id = calls' /\ new.peer = p /\ new.known = consumers[p]
      /\ new.seen = {}
  BY DEF Idle
<1>5. Moves(c, new)
  BY <1>1, <1>2, <1>3, Moving
<1> HIDE DEF new
<1>6. Loop'
  BY <1>1, <1>4, <1>5 DEF Inv, Loop, Moves, stores
<1>7. /\ new.pc \in SubscribeSteps /\ cs[c].pc \notin PublishSteps /\ new.id \in 1..calls'
      /\ calls' \in {calls, calls + 1} /\ calls' <= MaxCalls
  BY <1>1, <1>2, <1>4 DEF SubscribeSteps, PublishSteps
<1> QED BY <1>1, <1>3, <1>5, <1>6, <1>7, SubStep

\* The consumers the loop can still reach hold every one it must negotiate.
LEMMA AheadHolds ==
    ASSUME Inv, NEW c \in Callers, cs[c].pc = "next"
    PROVE  /\ cs[c].seen = {} => cs[c].known \subseteq Ahead(c)
           /\ Ahead(c) = {} => cs[c].known \subseteq cs[c].seen
<1>1. /\ cs[c].peer \in Peers /\ cs[c].known \subseteq consumers[cs[c].peer]
      /\ cs[c].seen # {} /\ "audio" \in cs[c].known => "audio" \in cs[c].seen
      /\ cs[c].known \subseteq {"audio", "video"}
  BY DEF Inv, Types, LocalsType, Local, Loop, SubscribeSteps, Kinds
<1>2. cs[c].seen = {} => cs[c].known \subseteq Ahead(c)
  BY <1>1 DEF Ahead
<1>3. ASSUME Ahead(c) = {}, cs[c].seen # {}, NEW k \in cs[c].known PROVE k \in cs[c].seen
  <2>1. CASE k = "audio"
    BY <1>1, <1>3, <2>1
  <2>2. CASE k = "video"
    BY <1>1, <1>3, <2>2 DEF Ahead
  <2> QED BY <1>1, <1>3, <2>1, <2>2
<1> QED BY <1>2, <1>3

LEMMA SubscribeNextStep ==
    ASSUME Inv, NEW c \in Callers, SubscribeNext(c)
    PROVE  Inv'
<1> DEFINE k == IF "audio" \in Ahead(c) THEN "audio" ELSE "video"
<1>1. /\ cs[c].pc = "next" /\ Ahead(c) # {} /\ cs \in [Callers -> Local] /\ cs[c] \in Local
      /\ UNCHANGED <<remote, hasSdp, room, calls, stores, owners, pubLog, subDone>>
      /\ cs[c].id \in 1..calls /\ calls \in 0..MaxCalls
  BY DEF SubscribeNext, Inv, Types, LocalsType
<1>2. k \in Kinds
  BY DEF Kinds
<1>3. CASE /\ cs' = [cs EXCEPT ![c].seen = @ \cup {k},
                               ![c].pc = IF cs[c].seen = {} THEN "subConnect" ELSE "next"]
           /\ UNCHANGED subThrew
  <2> DEFINE next == IF cs[c].seen = {} THEN "subConnect" ELSE "next"
             new  == [cs[c] EXCEPT !.seen = @ \cup {k}, !.pc = next]
  <2>1. next \in SubscribeSteps /\ next \notin PublishSteps
    BY DEF SubscribeSteps, PublishSteps
  <2>2. new \in Local /\ cs' = [cs EXCEPT ![c] = new]
    <3>1. cs' = [cs EXCEPT ![c] = new]
      <4> HIDE DEF k, next
      <4> QED BY <1>1, <1>3 DEF k, next
    <3>2. new \in Local
      <4> HIDE DEF k, next
      <4> QED BY <1>1, <1>2, <2>1 DEF Local
    <3> QED BY <3>1, <3>2
  <2>3. Moves(c, new)
    BY <1>1, <2>2, Moving
  <2>4. /\ new.pc = next /\ new.seen = cs[c].seen \cup {k} /\ new.known = cs[c].known
        /\ new.peer = cs[c].peer /\ new.id = cs[c].id
    <3> HIDE DEF k, next
    <3> QED BY <1>1 DEF Local
  <2> HIDE DEF new, next
  <2>5. "audio" \in cs[c].known => "audio" \in new.seen
    <3>1. CASE cs[c].seen = {}
      BY <1>1, <2>4, <3>1, AheadHolds
    <3>2. CASE cs[c].seen # {}
      BY <1>1, <2>4, <3>2 DEF Inv, Loop, SubscribeSteps
    <3> QED BY <3>1, <3>2
  <2> HIDE DEF k
  <2>6. Loop'
    BY <1>1, <2>3, <2>4, <2>5 DEF Inv, Loop, Moves, stores, SubscribeSteps
  <2>7. /\ new.pc \in SubscribeSteps /\ cs[c].pc \notin PublishSteps /\ new.id \in 1..calls'
        /\ calls' \in {calls, calls + 1} /\ calls' <= MaxCalls
    BY <1>1, <2>1, <2>4, CallBoundsAssumption DEF PublishSteps
  <2> QED BY <1>1, <1>3, <2>2, <2>3, <2>6, <2>7, SubStep DEF subLog
<1>4. CASE /\ ~givesMids
           /\ cs' = [cs EXCEPT ![c] = Idle]
           /\ subThrew' = subThrew \cup {cs[c].known}
  <2>1. Moves(c, Idle)
    BY <1>1, <1>4, IdleType, Moving
  <2>2. StoresType' /\ PublishUndisturbed'
    BY <1>1 DEF Inv, Types, StoresType, Results, PublishUndisturbed, KindsOf, stores, pubLog, room
  <2>3. SubscribeVerdict'
    BY <1>1, <1>4 DEF Inv, Results, SubscribeVerdict, room
  <2> QED BY <1>1, <2>1, <2>2, <2>3, EndStep DEF remote, stores, pubLog
<1> QED BY <1>3, <1>4 DEF SubscribeNext

LEMMA SubscribeConnectStep ==
    ASSUME Inv, NEW c \in Callers, SubscribeConnect(c)
    PROVE  Inv'
<1> DEFINE new == [cs[c] EXCEPT !.pc = "next"]
<1>1. /\ cs[c].pc = "subConnect" /\ cs \in [Callers -> Local] /\ cs[c] \in Local
      /\ cs' = [cs EXCEPT ![c] = new]
      /\ UNCHANGED <<remote, hasSdp, room, calls, stores, owners, pubLog, subLog>>
      /\ cs[c].id \in 1..calls /\ calls \in 0..MaxCalls
  BY DEF SubscribeConnect, Goto, Inv, Types, LocalsType
<1>2. new \in Local
  BY <1>1 DEF Local, SubscribeSteps
<1>3. Moves(c, new)
  BY <1>1, <1>2, Moving
<1>4. /\ new.pc = "next" /\ new.seen = cs[c].seen /\ new.known = cs[c].known
      /\ new.peer = cs[c].peer /\ new.id = cs[c].id
  BY <1>1 DEF Local
<1> HIDE DEF new
<1>5. Loop'
  BY <1>1, <1>3, <1>4 DEF Inv, Loop, Moves, stores, SubscribeSteps
<1>6. /\ new.pc \in SubscribeSteps /\ cs[c].pc \notin PublishSteps /\ new.id \in 1..calls'
      /\ calls' \in {calls, calls + 1} /\ calls' <= MaxCalls
  BY <1>1, <1>4, CallBoundsAssumption DEF PublishSteps, SubscribeSteps
<1> QED BY <1>1, <1>2, <1>3, <1>5, <1>6, SubStep

LEMMA SubscribeEndStep ==
    ASSUME Inv, NEW c \in Callers, SubscribeEnd(c)
    PROVE  Inv'
<1>1. /\ cs[c].pc = "next" /\ Ahead(c) = {} /\ cs' = [cs EXCEPT ![c] = Idle]
      /\ cs \in [Callers -> Local]
      /\ UNCHANGED <<remote, hasSdp, room, calls, publishPcs, consumers, owners, pubLog>>
  BY DEF SubscribeEnd, Inv, Types, LocalsType
<1>2. Moves(c, Idle)
  BY <1>1, IdleType, Moving
<1>3. cs[c].known \subseteq cs[c].seen /\ cs[c].peer \in Peers
  BY <1>1, AheadHolds DEF Inv, Loop, SubscribeSteps
<1>4. PublishUndisturbed'
  BY <1>1 DEF Inv, Results, PublishUndisturbed, KindsOf, pubLog, room
<1>5. CASE /\ "video" \in cs[c].seen
           /\ subPcs' = subPcs \cup {cs[c].peer}
           /\ subDone' = subDone \cup {<<cs[c].known, cs[c].seen>>}
           /\ UNCHANGED subThrew
  <2>1. SubscribeVerdict'
    BY <1>1, <1>3, <1>5 DEF Inv, Results, SubscribeVerdict, room
  <2>2. StoresType'
    BY <1>1, <1>3, <1>5 DEF Inv, Types, StoresType, pubLog
  <2> QED BY <1>1, <1>2, <1>4, <2>1, <2>2, EndStep DEF remote, pubLog
<1>6. CASE /\ "video" \notin cs[c].seen
           /\ subThrew' = subThrew \cup {cs[c].known}
           /\ UNCHANGED <<subPcs, subDone>>
  <2>1. SubscribeVerdict'
    BY <1>1, <1>3, <1>6 DEF Inv, Results, SubscribeVerdict, room
  <2>2. StoresType'
    BY <1>1, <1>6 DEF Inv, Types, StoresType, pubLog
  <2> QED BY <1>1, <1>2, <1>4, <2>1, <2>2, EndStep DEF remote, pubLog
<1> QED BY <1>5, <1>6 DEF SubscribeEnd

\* A caller whose response never comes.
LEMMA StrandStep ==
    ASSUME Inv, NEW c \in Callers, Strand(c)
    PROVE  Inv'
<1>1. /\ cs' = [cs EXCEPT ![c] = Stranded] /\ cs \in [Callers -> Local]
      /\ UNCHANGED <<remote, hasSdp, room, calls, stores, owners, pubLog, subLog>>
  BY DEF Strand, Inv, Types, LocalsType
<1>2. Moves(c, Stranded)
  BY <1>1, IdleType, Moving
<1>3. StoresType'
  BY <1>1 DEF Inv, Types, StoresType, stores, pubLog
<1>4. PublishUndisturbed' /\ SubscribeVerdict'
  BY <1>1 DEF Inv, Results, PublishUndisturbed, KindsOf, SubscribeVerdict, room, pubLog, subLog
<1> QED BY <1>1, <1>2, <1>3, <1>4, EndStep DEF remote, stores, pubLog

\* Until two publish calls overlap, one that is still running has not thrown, and
\* has an audio half left only if it asked for one.
LEMMA KindPendingKept ==
    ASSUME Inv, KindPending, [Next]_vars
    PROVE  KindPending'
<1>0. /\ cs \in [Callers -> Local] /\ calls \in Nat
      /\ threw \subseteq 1..calls /\ mute \subseteq 1..calls
      /\ (overlapped \/ \A c, d \in Callers :
             cs[c].pc \in PublishSteps /\ cs[d].pc \in PublishSteps => c = d)
  BY CallBoundsAssumption DEF Inv, Types, LocalsType, StoresType, Alone, OnePublisher
<1>1. CASE UNCHANGED <<overlapped, threw, mute, cs>>
  BY <1>1 DEF KindPending
<1>2. ASSUME UNCHANGED <<overlapped, threw, mute>>, NEW c \in Callers, NEW new,
             cs' = [cs EXCEPT ![c] = new],
             new.pc \in PublishSteps => /\ cs[c].pc \in PublishSteps /\ new.id = cs[c].id
                                       /\ new.kind \in {cs[c].kind, "video"}
      PROVE  KindPending'
  <2>1. \A d \in Callers : cs'[d] = IF d = c THEN new ELSE cs[d]
    BY <1>0, <1>2
  <2> QED BY <1>2, <2>1 DEF KindPending
<1>3. ASSUME NEW c \in Callers, Throw(c), cs[c].pc \in PublishSteps, UNCHANGED <<overlapped, mute>>
      PROVE  KindPending'
  <2>1. \A d \in Callers : cs'[d] = IF d = c THEN Idle ELSE cs[d]
    BY <1>0, <1>3 DEF Throw
  <2>2. overlapped \/ \A d \in Callers : cs'[d].pc \notin PublishSteps
    BY <1>0, <1>3, <2>1, IdleType, Steps
  <2> QED BY <1>3, <2>2 DEF KindPending
<1>4. ASSUME NEW c \in Callers, NEW s \in Streams, NEW a \in BOOLEAN, Publish(c, s, a)
      PROVE  KindPending'
  <2> SUFFICES ASSUME ~overlapped', NEW d \in Callers, cs'[d].pc \in PublishSteps
               PROVE  /\ cs'[d].id \notin threw'
                      /\ cs'[d].kind = "audio" => cs'[d].id \notin mute'
    BY DEF KindPending
  <2>1. d = c
    BY <1>0, <1>4 DEF Publish
  <2>2. /\ cs'[c].id = calls + 1 /\ (cs'[c].kind = "audio" <=> a)
        /\ threw' = threw /\ mute' = IF a THEN mute ELSE mute \cup {calls + 1}
    BY <1>0, <1>4 DEF Publish, Idle
  <2>3. calls + 1 \notin 1..calls
    BY <1>0
  <2> QED BY <1>0, <2>1, <2>2, <2>3
<1>5. ASSUME NEW c \in Callers, NoApi(c) \/ NoTransport(c) PROVE KindPending'
  <2> SUFFICES ASSUME ~overlapped', NEW d \in Callers, cs'[d].pc \in PublishSteps
               PROVE  /\ cs'[d].id \notin threw'
                      /\ cs'[d].kind = "audio" => cs'[d].id \notin mute'
    BY DEF KindPending
  <2>1. /\ cs[c].pc \in PublishSteps /\ UNCHANGED <<overlapped, threw>>
        /\ \E l \in Local : l.id = cs[c].id /\ cs' = [cs EXCEPT ![c] = AfterHalf(l)]
    <3>1. CASE NoApi(c)
      BY <1>0, <3>1, Steps DEF NoApi
    <3>2. CASE NoTransport(c)
      <4>1. cs[c].pc = "offer" /\ cs[c].lines \in 0..1
        <5>1. LineCount(cs[c]) /\ cs[c].lines \in 0..2 /\ cs[c].pc = "offer"
          BY <1>0, <3>2 DEF Inv, LocalsFit, Local, NoTransport
        <5> QED BY <5>1 DEF LineCount
      <4>2. [cs[c] EXCEPT !.lines = @ + 1] \in Local /\ [cs[c] EXCEPT !.lines = @ + 1].id = cs[c].id
        BY <1>0, <4>1 DEF Local
      <4> QED BY <3>2, <4>1, <4>2, Steps DEF NoTransport
    <3> QED BY <1>5, <3>1, <3>2
  <2>2. PICK l \in Local : l.id = cs[c].id /\ cs' = [cs EXCEPT ![c] = AfterHalf(l)]
    BY <2>1
  <2>3. d = c
    BY <1>0, <2>1, <2>2
  <2>4. cs'[c].id = cs[c].id /\ cs'[c].kind = "video"
    BY <1>0, <2>2, HalfType
  <2> QED BY <2>1, <2>3, <2>4 DEF KindPending
<1>6. ASSUME NEW c \in Callers, ApplyAnswer(c) PROVE KindPending'
  <2>1. cs[c].pc \in PublishSteps /\ UNCHANGED <<overlapped, mute>> /\ cs[c] \in Local
    BY <1>0, <1>6 DEF ApplyAnswer, PublishSteps
  <2>2. CASE Throw(c)
    BY <1>3, <2>1, <2>2
  <2>3. CASE cs' = [cs EXCEPT ![c] = AfterHalf(@)] /\ UNCHANGED threw
    BY <1>2, <2>1, <2>3, HalfType
  <2> QED BY <1>6, <2>2, <2>3 DEF ApplyAnswer
<1>7. ASSUME NEW c \in Callers, SendOfferLine(c) PROVE KindPending'
  <2>1. cs[c].pc \in PublishSteps /\ UNCHANGED <<overlapped, mute>> /\ cs[c] \in Local
    BY <1>0, <1>7 DEF SendOfferLine, PublishSteps
  <2>2. CASE Throw(c)
    BY <1>3, <2>1, <2>2
  <2>3. CASE cs' = [cs EXCEPT ![c].pc = "produce"] /\ UNCHANGED threw
    BY <1>2, <2>1, <2>3 DEF Local
  <2> QED BY <1>7, <2>2, <2>3 DEF SendOfferLine
<1>8. ASSUME NEW c \in Callers, CreateOffer(c) \/ ReadIndex(c) \/ ConnectTransport(c)
                               \/ UpdateRole(c) \/ Produce(c)
      PROVE  KindPending'
  <2>1. /\ cs[c].pc \in PublishSteps /\ UNCHANGED <<overlapped, threw, mute>>
        /\ \E new : /\ cs' = [cs EXCEPT ![c] = new]
                    /\ new.id = cs[c].id /\ new.kind = cs[c].kind
    <3>1. cs[c] \in Local
      BY <1>0
    <3>2. CASE CreateOffer(c)
      <4> DEFINE new == [cs[c] EXCEPT !.pc = "create", !.lines = @ + 1, !.tp = sendTp,
                                      !.fresh = ~hasSdp]
      <4>1. cs' = [cs EXCEPT ![c] = new] /\ cs[c].pc = "offer" /\ UNCHANGED pubLog
        BY <1>0, <3>2 DEF CreateOffer
      <4>2. new.id = cs[c].id /\ new.kind = cs[c].kind
        BY <3>1 DEF Local
      <4> QED BY <4>1, <4>2, Steps DEF pubLog
    <3>3. CASE ReadIndex(c)
      <4> DEFINE new == [cs[c] EXCEPT !.pc = AfterIndex(cs[c].kind),
                                      !.msidx = RS!GetNextMediaSectionIdx']
      <4>1. cs' = [cs EXCEPT ![c] = new] /\ cs[c].pc = "create" /\ UNCHANGED pubLog
        BY <1>0, <3>3 DEF ReadIndex
      <4>2. new.id = cs[c].id /\ new.kind = cs[c].kind
        BY <3>1 DEF Local
      <4> QED BY <4>1, <4>2 DEF pubLog, PublishSteps
    <3>4. ASSUME NEW from \in {"connect", "role", "produce"}, NEW to, Goto(c, from, to),
                 UNCHANGED <<overlapped, threw, mute>>
          PROVE  /\ cs[c].pc \in PublishSteps /\ UNCHANGED <<overlapped, threw, mute>>
                 /\ \E new : /\ cs' = [cs EXCEPT ![c] = new]
                             /\ new.id = cs[c].id /\ new.kind = cs[c].kind
      <4> DEFINE new == [cs[c] EXCEPT !.pc = to]
      <4>1. cs' = [cs EXCEPT ![c] = new] /\ cs[c].pc = from
        BY <1>0, <3>4 DEF Goto
      <4>2. new.id = cs[c].id /\ new.kind = cs[c].kind
        BY <3>1 DEF Local
      <4> QED BY <3>4, <4>1, <4>2 DEF PublishSteps
    <3>5. CASE ConnectTransport(c) \/ UpdateRole(c) \/ Produce(c)
      <4>1. UNCHANGED <<overlapped, threw, mute>>
        BY <3>5 DEF ConnectTransport, UpdateRole, Produce, pubLog
      <4>2. \/ Goto(c, "connect", "role") \/ Goto(c, "role", "send")
            \/ Goto(c, "produce", "answer")
        BY <3>5 DEF ConnectTransport, UpdateRole, Produce
      <4> QED BY <3>4, <4>1, <4>2
    <3> QED BY <1>8, <3>2, <3>3, <3>5
  <2> QED BY <1>2, <2>1
<1>9. ASSUME NEW c \in Callers, StorePublisher(c) \/ SubscribeEnd(c) \/ SubscribeNext(c)
                               \/ SubscribeConnect(c) \/ Strand(c)
      PROVE  KindPending'
  <2>1. /\ UNCHANGED <<overlapped, threw, mute>>
        /\ \E new : cs' = [cs EXCEPT ![c] = new] /\ new.pc \notin PublishSteps
    <3>1. CASE StorePublisher(c) \/ SubscribeEnd(c) \/ Strand(c)
      BY <3>1, IdleType, Steps DEF StorePublisher, SubscribeEnd, Strand, pubLog
    <3>2. CASE SubscribeNext(c)
      <4> DEFINE new(k) == [cs[c] EXCEPT !.seen = @ \cup {k},
                                         !.pc = IF cs[c].seen = {} THEN "subConnect" ELSE "next"]
      <4>1. \A k : new(k).pc \notin PublishSteps
        BY <1>0 DEF Local, PublishSteps
      <4>2. /\ UNCHANGED <<overlapped, threw, mute>>
            /\ (\E k : cs' = [cs EXCEPT ![c] = new(k)]) \/ cs' = [cs EXCEPT ![c] = Idle]
        <5>1. SubscribeNext(c)
          BY <3>2
        <5> DEFINE k == IF "audio" \in Ahead(c) THEN "audio" ELSE "video"
        <5>2. \/ cs' = [cs EXCEPT ![c].seen = @ \cup {k},
                                  ![c].pc = IF cs[c].seen = {} THEN "subConnect" ELSE "next"]
              \/ cs' = [cs EXCEPT ![c] = Idle]
          BY ONLY <5>1 DEF SubscribeNext
        <5>3. UNCHANGED <<overlapped, threw, mute>>
          BY <5>1 DEF SubscribeNext, pubLog
        <5> HIDE DEF k
        <5>4. CASE cs' = [cs EXCEPT ![c].seen = @ \cup {k},
                                    ![c].pc = IF cs[c].seen = {} THEN "subConnect" ELSE "next"]
          <6>1. cs' = [cs EXCEPT ![c] = new(k)]
            BY <1>0, <5>4
          <6> QED BY <5>3, <6>1
        <5> QED BY <5>2, <5>3, <5>4
      <4> QED BY <4>1, <4>2, IdleType, Steps
    <3>3. CASE SubscribeConnect(c)
      <4> DEFINE new == [cs[c] EXCEPT !.pc = "next"]
      <4>1. new.pc \notin PublishSteps
        BY <1>0 DEF Local, PublishSteps
      <4>2. UNCHANGED <<overlapped, threw, mute>> /\ cs' = [cs EXCEPT ![c] = new]
        BY <1>0, <3>3 DEF SubscribeConnect, Goto, pubLog
      <4> QED BY <4>1, <4>2
    <3> QED BY <1>9, <3>1, <3>2, <3>3
  <2> QED BY <1>2, <2>1
<1>10. ASSUME NEW c \in Callers, NEW p \in Peers, Subscribe(c, p) PROVE KindPending'
  <2>1. /\ UNCHANGED <<overlapped, threw, mute>>
        /\ \E new : cs' = [cs EXCEPT ![c] = new] /\ new.pc \notin PublishSteps
    <3> DEFINE new == [Idle EXCEPT !.pc = "next", !.id = calls', !.peer = p,
                                   !.known = consumers[p]]
    <3>1. new.pc \notin PublishSteps
      BY DEF Idle, PublishSteps
    <3>2. UNCHANGED <<overlapped, threw, mute>> /\ cs' = [cs EXCEPT ![c] = new]
      BY <1>10 DEF Subscribe, pubLog
    <3> QED BY <3>1, <3>2
  <2> QED BY <1>2, <2>1
<1>11. CASE \/ JoinStart \/ JoinTransports \/ UNCHANGED vars
            \/ \E s \in Streams : Unpublish(s)
            \/ \E p \in Peers : Unsubscribe(p) \/ \E k \in Kinds : NewConsumer(p, k)
  BY <1>1, <1>11 DEF JoinStart, JoinTransports, Unpublish, Unsubscribe, NewConsumer, vars, pubLog
<1> QED BY <1>4, <1>5, <1>6, <1>7, <1>8, <1>9, <1>10, <1>11 DEF Next, Step

-----------------------------------------------------------------------------
\* The invariant holds in every behaviour.

LEMMA NextInv == Inv /\ KindPending /\ [Next]_vars => Inv'
<1> SUFFICES ASSUME Inv, KindPending, [Next]_vars PROVE Inv'
  OBVIOUS
<1>1. CASE JoinStart
  BY <1>1, RoomSteps
<1>2. CASE JoinTransports
  BY <1>2, JoinTransportsStep
<1>3. ASSUME NEW c \in Callers, Step(c) PROVE Inv'
  BY <1>3, NoTransportStep, CreateOfferStep, ReadIndexStep, ConnectTransportStep, UpdateRoleStep,
     SendOfferLineStep, ProduceStep, ApplyAnswerStep, StorePublisherStep, SubscribeNextStep,
     SubscribeConnectStep, SubscribeEndStep DEF Step
<1>8. ASSUME NEW c \in Callers, Strand(c) PROVE Inv'
  BY <1>8, StrandStep
<1>4. ASSUME NEW c \in Callers, NEW s \in Streams, NEW a \in BOOLEAN, Publish(c, s, a) PROVE Inv'
  BY <1>4, PublishStep
<1>5. ASSUME NEW c \in Callers, NEW p \in Peers, Subscribe(c, p) PROVE Inv'
  BY <1>5, SubscribeStep
<1>6. CASE \/ \E s \in Streams : Unpublish(s)
           \/ \E p \in Peers : Unsubscribe(p) \/ \E k \in Kinds : NewConsumer(p, k)
  BY <1>6, RoomSteps
<1>7. CASE UNCHANGED vars
  <2>1. UNCHANGED <<remote, hasSdp, room, cs, calls, stores, owners, pubLog, subLog>>
    BY <1>7 DEF vars
  <2>2. RoomType' /\ StoresType'
    BY <2>1 DEF Inv, Types, RoomType, StoresType, room, stores, pubLog
  <2> QED BY <2>1, <2>2, FrameStep DEF room, stores
<1> QED BY <1>1, <1>2, <1>3, <1>4, <1>5, <1>6, <1>7, <1>8 DEF Next

LEMMA Invariance == Spec => []Inv
<1>1. Init => KindPending
  BY IdleType, Steps DEF Init, KindPending
<1>2. Inv /\ KindPending /\ [Next]_vars => KindPending'
  BY KindPendingKept
<1> QED BY <1>1, <1>2, InitInv, NextInv, PTL DEF Spec

\* TypeOK: the counters, sets and locals keep their ranges and remote_sdp_ has
\* one owner for each m-line, whatever the threads and the server do.
THEOREM TypeCorrect == Spec => []TypeOK
<1>1. Inv => TypeOK
  <2> SUFFICES ASSUME Inv PROVE TypeOK
    OBVIOUS
  <2> USE DEF Inv, Types
  <2>1. /\ hasSdp \in BOOLEAN /\ api \in BOOLEAN /\ sendable \subseteq Kinds
        /\ joins \in Tps /\ sendTp \in 0..joins /\ ice \in Tps /\ role \in RS!Roles
    BY DEF LinesType, RoomType
  <2>2. sendTp \in Tps
    BY <2>1, CallBoundsAssumption DEF Tps
  <2>3. \A c \in Callers : /\ cs[c].pc \in {"idle", "stranded"} \cup PublishSteps \cup SubscribeSteps
                           /\ cs[c].id \in 0..MaxCalls /\ cs[c].lines \in 0..2
                           /\ cs[c].tp \in Tps /\ cs[c].seen \subseteq Kinds
    BY DEF LocalsType, Local
  <2>4. calls \in Nat /\ 1..calls \subseteq CallIds
    BY CallBoundsAssumption DEF LocalsType, CallIds
  <2>5. /\ Len(mediaSections) = Len(owners)
        /\ \A k \in DOMAIN owners : owners[k] \in CallIds
    BY <2>4 DEF LinesType
  <2>6. /\ publishPcs \in [Streams -> 0..MaxCalls] /\ subPcs \subseteq Peers
        /\ consumers \in [Peers -> SUBSET Kinds]
        /\ threw \subseteq CallIds /\ late \subseteq CallIds /\ mute \subseteq CallIds
    BY <2>4 DEF StoresType
  <2> QED BY <2>1, <2>2, <2>3, <2>5, <2>6 DEF TypeOK
<1> QED BY <1>1, Invariance, PTL

\* PublishUndisturbed: a publish ends in an exception only when another call
\* overlapped it or left m-lines in the shared remote_sdp_, its audio half found no
\* transport, or a kind it sends has no common codec: with no lock held, a lone
\* publish of a joined room ends well whenever its kinds can be sent.
THEOREM UndisturbedPublishReturns == Spec => []PublishUndisturbed
BY Invariance, PTL DEF Inv, Results

\* ProducedLine: the mid a produce request carries is that of the m-line answered
\* for it, although the index of the m-line comes from remote_sdp_ and the mid
\* from the peer connection.
THEOREM ProducedMidAnswered == Spec => []ProducedLine
BY Invariance, PTL DEF Inv, Results

\* ProducesOnConnected: publish with audio produces only on a transport it has
\* connected, unless a second join changed the transport in between.
THEOREM ProducesAfterConnect == Spec => []ProducesOnConnected
BY Invariance, PTL DEF Inv, Results

\* AnswerIsForTransport: ApplyAnswer describes the transport that is produced on
\* as long as no join came after remote_sdp_ was chosen, whatever calls overlap.
THEOREM AnswerDescribesTransport == Spec => []AnswerIsForTransport
<1>1. Inv => AnswerIsForTransport
  <2> SUFFICES ASSUME Inv, ~stale, NEW c \in Callers, cs[c].pc = "answer" PROVE cs[c].tp = ice
    BY DEF AnswerIsForTransport
  <2>1. hasSdp
    BY DEF Inv, SdpChosen, HasIndex
  <2> QED BY <2>1 DEF Inv, SameTransport, OnTransport
<1> QED BY <1>1, Invariance, PTL

\* SubscribeVerdict: subscribe negotiates every consumer known at its start, and
\* throws only without a video consumer or without mids from the server.
THEOREM SubscribeNegotiatesAll == Spec => []SubscribeVerdict
BY Invariance, PTL DEF Inv, Results

-----------------------------------------------------------------------------
(***************************************************************************)
(* remote_sdp_ as the module RemoteSdp sees it.                            *)
(***************************************************************************)

\* The m-lines have the mids of the offers, in order, until calls overlap.
MidsInOrder == overlapped \/ \A k \in DOMAIN mediaSections : mediaSections[k].mid = MidAt[k]

\* The copies agree, and the map too until calls overlap.
CopiesAgree ==
    /\ bundleMids = RS!OpenMids(RS!Lines(mediaSections))
    /\ \A k \in DOMAIN mediaSections : /\ mediaSections[k].ice = ice
                                       /\ mediaSections[k].setup = RS!SetupOf(role)
    /\ overlapped \/ \A k \in DOMAIN mediaSections : midToIndex[mediaSections[k].mid] = k - 1
    /\ DOMAIN midToIndex = Mids

\* A description that is left alone.
LEMMA DescriptionFrame ==
    ASSUME UNCHANGED remote, overlapped => overlapped'
    PROVE  (MidsInOrder => MidsInOrder') /\ (CopiesAgree => CopiesAgree')
<1>1. /\ mediaSections' = mediaSections /\ midToIndex' = midToIndex /\ sdpMedia' = sdpMedia
      /\ bundleMids' = bundleMids /\ role' = role /\ ice' = ice
  BY DEF remote
<1>2. MidsInOrder => MidsInOrder'
  BY <1>1 DEF MidsInOrder
<1>3. CopiesAgree => CopiesAgree'
  BY <1>1 DEF CopiesAgree
<1> QED BY <1>2, <1>3

\* The mids of m-lines are among those of the module.
LEMMA MidsOfLines == MidAt[1] = "0" /\ MidAt[2] = "1" /\ DOMAIN MidAt = {1, 2}
                     /\ Mids = {"0", "1", "datachannel"}
<1>1. DOMAIN MidAt = {1, 2} /\ MidAt[1] = "0" /\ MidAt[2] = "1"
  BY DEF MidAt
<1> HIDE DEF MidAt
<1>2. Mids = {"0", "1", "datachannel"}
  BY <1>1 DEF Mids
<1> QED BY <1>1, <1>2

\* An m-line that is sent: Append to the vector, the document and the map.
LEMMA SentLine ==
    ASSUME Inv, NEW c \in Callers, SendOfferLine(c),
           cs[c].kind \in sendable, cs[c].msidx.idx < cs[c].lines
    PROVE  LET n   == cs[c].msidx.idx + 1
               new == RS!AnswerMediaSection(MidAt[n], "media")
           IN  /\ n \in {1, 2} /\ MidAt[n] \in Mids
               /\ RS!SendLine(MidAt[n], RS!NoMid)
               /\ mediaSections' = Append(mediaSections, new)
               /\ midToIndex' = [midToIndex EXCEPT ![MidAt[n]] = Len(mediaSections)]
               /\ bundleMids' = RS!OpenMids(RS!Lines(mediaSections'))
               /\ role' = role /\ ice' = ice /\ overlapped' = overlapped
               /\ new.mid = MidAt[n] /\ new.ice = ice /\ new.setup = RS!SetupOf(role)
               /\ ~overlapped => n = Len(mediaSections) + 1
               /\ Len(mediaSections) \in Nat /\ DOMAIN mediaSections = 1..Len(mediaSections)
<1> DEFINE n   == cs[c].msidx.idx + 1
           new == RS!AnswerMediaSection(MidAt[n], "media")
<1>1. cs[c] \in Local
  BY DEF Inv, Types, LocalsType
<1>2. /\ cs[c].msidx.idx \in Nat /\ cs[c].msidx.reuseMid = RS!NoMid /\ cs[c].lines \in 0..2
  BY <1>1 DEF Local
<1>3. n \in {1, 2}
  BY <1>2
<1>4. MidAt[n] \in Mids
  BY <1>3, MidsOfLines
<1>5. RS!SendLine(MidAt[n], RS!NoMid) /\ cs[c].pc = "send" /\ overlapped' = overlapped
  BY <1>2 DEF SendOfferLine
<1>6. new.mid = MidAt[n] /\ new.ice = ice /\ new.setup = RS!SetupOf(role)
  BY DEF RS!AnswerMediaSection
<1> HIDE DEF n, new
<1>7. /\ mediaSections' = Append(mediaSections, new)
      /\ midToIndex' = [midToIndex EXCEPT ![MidAt[n]] = Len(mediaSections)]
      /\ bundleMids' = RS!OpenMids(RS!Lines(mediaSections'))
      /\ role' = role /\ ice' = ice
  BY <1>5, <1>6 DEF RS!SendLine, RS!ReuseOrAdd, RS!AddMediaSection, RS!RegenerateBundleMids, new
<1>8. mediaSections \in Seq(OpenLine) /\ Len(owners) = Len(mediaSections)
  BY DEF Inv, Types, LinesType
<1>9. ~overlapped => n = Len(mediaSections) + 1
  BY <1>2, <1>5, <1>8 DEF Inv, Alone, IndexIsEnd, IndexPending, n
<1>10. Len(mediaSections) \in Nat /\ DOMAIN mediaSections = 1..Len(mediaSections)
  BY <1>8
<1> QED BY <1>3, <1>4, <1>5, <1>6, <1>7, <1>9, <1>10 DEF n, new

\* Sending an m-line keeps the copies in step, and is an operation of RemoteSdp
\* with its preconditions until calls overlap.
LEMMA SendOfferLineUse ==
    ASSUME Inv, MidsInOrder, CopiesAgree, NEW c \in Callers, SendOfferLine(c)
    PROVE  MidsInOrder' /\ CopiesAgree' /\ (UNCHANGED remote \/ DescriptionStep)
<1>1. CASE ~(cs[c].kind \in sendable /\ cs[c].msidx.idx < cs[c].lines)
  <2>1. UNCHANGED <<remote, overlapped>>
    BY <1>1 DEF SendOfferLine
  <2> QED BY <2>1, DescriptionFrame
<1>2. CASE cs[c].kind \in sendable /\ cs[c].msidx.idx < cs[c].lines
  <2> DEFINE n   == cs[c].msidx.idx + 1
             new == RS!AnswerMediaSection(MidAt[n], "media")
             len == Len(mediaSections)
  <2>1. /\ n \in {1, 2} /\ MidAt[n] \in Mids
        /\ RS!SendLine(MidAt[n], RS!NoMid)
        /\ mediaSections' = Append(mediaSections, new)
        /\ midToIndex' = [midToIndex EXCEPT ![MidAt[n]] = len]
        /\ bundleMids' = RS!OpenMids(RS!Lines(mediaSections'))
        /\ role' = role /\ ice' = ice /\ overlapped' = overlapped
        /\ new.mid = MidAt[n] /\ new.ice = ice /\ new.setup = RS!SetupOf(role)
        /\ ~overlapped => n = len + 1
        /\ len \in Nat /\ DOMAIN mediaSections = 1..len
    BY <1>2, SentLine
  <2>2. mediaSections \in Seq(OpenLine)
    BY DEF Inv, Types, LinesType
  <2> HIDE DEF n, new, len
  <2>3. /\ DOMAIN mediaSections' = 1..(len + 1) /\ mediaSections'[len + 1] = new
        /\ \A k \in 1..len : mediaSections'[k] = mediaSections[k]
    BY <2>1, <2>2 DEF len
  <2>4. ~overlapped => \A k \in 1..len : mediaSections[k].mid = MidAt[k] /\ MidAt[k] # MidAt[n]
    <3> SUFFICES ASSUME ~overlapped, NEW k \in 1..len
                 PROVE  mediaSections[k].mid = MidAt[k] /\ MidAt[k] # MidAt[n]
      OBVIOUS
    <3>1. mediaSections[k].mid = MidAt[k]
      BY <2>1 DEF MidsInOrder
    <3>2. k = 1 /\ n = 2
      BY <2>1
    <3> QED BY <3>1, <3>2, MidsOfLines
  <2>5. MidsInOrder'
    <3> SUFFICES ASSUME ~overlapped, NEW k \in 1..(len + 1) PROVE mediaSections'[k].mid = MidAt[k]
      BY <2>1, <2>3 DEF MidsInOrder
    <3>1. CASE k = len + 1
      BY <2>1, <2>3, <3>1
    <3>2. CASE k \in 1..len
      BY <2>3, <2>4, <3>2
    <3> QED BY <2>1, <3>1, <3>2
  <2>6. CopiesAgree'
    <3>1. \A k \in 1..(len + 1) : /\ mediaSections'[k].ice = ice
                                  /\ mediaSections'[k].setup = RS!SetupOf(role)
      <4> SUFFICES ASSUME NEW k \in 1..(len + 1)
                   PROVE  mediaSections'[k].ice = ice /\ mediaSections'[k].setup = RS!SetupOf(role)
        OBVIOUS
      <4>1. CASE k = len + 1
        BY <2>1, <2>3, <4>1
      <4>2. CASE k \in 1..len
        BY <2>1, <2>3, <4>2 DEF CopiesAgree
      <4> QED BY <2>1, <4>1, <4>2
    <3>2. DOMAIN midToIndex' = Mids /\ midToIndex'[MidAt[n]] = len
          /\ \A m \in Mids : m # MidAt[n] => midToIndex'[m] = midToIndex[m]
      BY <2>1 DEF CopiesAgree
    <3>3. ~overlapped => \A k \in 1..(len + 1) : midToIndex'[mediaSections'[k].mid] = k - 1
      <4> SUFFICES ASSUME ~overlapped, NEW k \in 1..(len + 1)
                   PROVE  midToIndex'[mediaSections'[k].mid] = k - 1
        OBVIOUS
      <4>1. CASE k = len + 1
        BY <2>1, <2>3, <3>2, <4>1
      <4>2. CASE k \in 1..len
        <5>1. midToIndex[mediaSections[k].mid] = k - 1
          BY <2>1, <4>2 DEF CopiesAgree
        <5>2. mediaSections[k].mid = MidAt[k] /\ MidAt[k] # MidAt[n]
          BY <2>4, <4>2
        <5>3. MidAt[k] \in Mids
          <6>1. k \in {1, 2}
            BY <2>1, <4>2
          <6> QED BY <6>1, MidsOfLines
        <5> QED BY <2>3, <3>2, <4>2, <5>1, <5>2, <5>3
      <4> QED BY <2>1, <4>1, <4>2
    <3> QED BY <2>1, <2>3, <3>1, <3>2, <3>3 DEF CopiesAgree
  <2>7. DescriptionStep
    <3>1. CASE overlapped
      BY <2>1, <3>1 DEF DescriptionStep
    <3>2. CASE ~overlapped
      <4>1. RS!ClosedAt = {}
        BY <2>2, NoneClosed DEF RS!ClosedAt
      <4>2. RS!GetNextMediaSectionIdx.reuseMid = RS!NoMid
        BY <4>1 DEF RS!GetNextMediaSectionIdx
      <4>3. MidAt[n] \notin RS!LiveMids
        BY <2>1, <2>4, <3>2 DEF RS!LiveMids
      <4>4. RS!Send(MidAt[n])
        BY <2>1, <4>2, <4>3 DEF RS!Send, RS!FreshFor
      <4> QED BY <2>1, <4>4 DEF DescriptionStep, RS!Next
    <3> QED BY <3>1, <3>2
  <2> QED BY <2>5, <2>6, <2>7
<1> QED BY <1>1, <1>2

\* The BUNDLE line of a description without m-lines.
LEMMA NoLinesNoMids == RS!Lines(<< >>) = << >> /\ RS!OpenMids(<< >>) = << >>
<1>1. RS!Lines(<< >>) = << >>
  BY DEF RS!Lines
<1> DEFINE Def(n, g) == IF n = 0 THEN << >>
                        ELSE IF << >>[n].closed THEN g[n - 1] ELSE Append(g[n - 1], << >>[n].mid)
           mids == CHOOSE g : g = [n \in 0..0 |-> Def(n, g)]
<1>2. [n \in 0..0 |-> << >>] = [n \in 0..0 |-> Def(n, [m \in 0..0 |-> << >>])]
  OBVIOUS
<1>3. \E g : g = [n \in 0..0 |-> Def(n, g)]
  BY <1>2
<1>4. mids = [n \in 0..0 |-> Def(n, mids)]
  BY <1>3
<1>5. mids[0] = << >>
  BY <1>4
<1>6. RS!OpenMids(<< >>) = mids[0]
  BY DEF RS!OpenMids
<1> QED BY <1>1, <1>5, <1>6

\* remote_sdp_ is kept or made anew.
LEMMA ReadIndexUse ==
    ASSUME Inv, MidsInOrder, CopiesAgree, NEW c \in Callers, ReadIndex(c)
    PROVE  MidsInOrder' /\ CopiesAgree' /\ (UNCHANGED remote \/ DescriptionStep)
<1>1. overlapped' = overlapped /\ (UNCHANGED remote \/ NewRemoteSdp(cs[c].tp))
  BY DEF ReadIndex, pubLog
<1>2. CASE UNCHANGED remote
  BY <1>1, <1>2, DescriptionFrame
<1>3. CASE NewRemoteSdp(cs[c].tp)
  <2>1. /\ mediaSections' = << >> /\ bundleMids' = << >>
        /\ midToIndex' = [m \in Mids |-> RS!NoIndex]
    BY <1>3 DEF NewRemoteSdp
  <2>2. DOMAIN mediaSections' = {} /\ DOMAIN midToIndex' = Mids
    BY <2>1
  <2>3. bundleMids' = RS!OpenMids(RS!Lines(mediaSections'))
    BY <2>1, NoLinesNoMids
  <2>4. MidsInOrder' /\ CopiesAgree'
    BY <2>2, <2>3 DEF MidsInOrder, CopiesAgree
  <2>5. cs[c].tp \in Tps
    <3>1. cs[c] \in Local
      BY DEF Inv, Types, LocalsType
    <3> QED BY <3>1 DEF Local
  <2> QED BY <1>3, <2>4, <2>5 DEF DescriptionStep
<1> QED BY <1>1, <1>2, <1>3

\* The role reaches every m-line; nothing else changes.
LEMMA UpdateRoleUse ==
    ASSUME Inv, MidsInOrder, CopiesAgree, NEW c \in Callers, UpdateRole(c)
    PROVE  MidsInOrder' /\ CopiesAgree' /\ DescriptionStep
<1> DEFINE r   == remoteDtlsRole
           new == [k \in DOMAIN mediaSections |-> RS!SetDtlsRole(mediaSections[k], r)]
<1>1. RS!UpdateDtlsRole(r) /\ overlapped' = overlapped
  BY DEF UpdateRole, pubLog
<1>2. r \in RS!Roles
  BY DEF remoteDtlsRole, RS!Roles
<1>3. /\ mediaSections' = new /\ role' = r /\ ice' = ice /\ bundleMids' = bundleMids
      /\ midToIndex' = midToIndex
  BY <1>1 DEF RS!UpdateDtlsRole
<1>4. mediaSections \in Seq(OpenLine)
  BY DEF Inv, Types, LinesType
<1>5. DOMAIN new = DOMAIN mediaSections
  OBVIOUS
<1>6. ASSUME NEW k \in DOMAIN mediaSections
      PROVE  /\ new[k].mid = mediaSections[k].mid /\ new[k].closed = mediaSections[k].closed
             /\ new[k].ice = mediaSections[k].ice /\ new[k].setup = RS!SetupOf(r)
  <2> DEFINE s == mediaSections[k]
  <2>1. s \in OpenLine
    BY <1>4
  <2>2. new[k] = [s EXCEPT !.setup = RS!SetupOf(r)]
    BY DEF RS!SetDtlsRole
  <2> HIDE DEF s, new, r
  <2>3. /\ new[k].mid = s.mid /\ new[k].closed = s.closed /\ new[k].ice = s.ice
        /\ new[k].setup = RS!SetupOf(r)
    BY <2>1, <2>2 DEF OpenLine
  <2> QED BY <2>3 DEF s
<1> HIDE DEF new, r
<1>7. RS!Lines(mediaSections') = RS!Lines(mediaSections)
  BY <1>3, <1>5, <1>6 DEF RS!Lines
<1>8. MidsInOrder'
  BY <1>1, <1>3, <1>5, <1>6 DEF MidsInOrder
<1>9. CopiesAgree'
  <2>1. bundleMids' = RS!OpenMids(RS!Lines(mediaSections'))
    BY <1>3, <1>7 DEF CopiesAgree
  <2>2. \A k \in DOMAIN mediaSections' : /\ mediaSections'[k].ice = ice'
                                         /\ mediaSections'[k].setup = RS!SetupOf(role')
    BY <1>3, <1>5, <1>6 DEF CopiesAgree
  <2>3. overlapped \/ \A k \in DOMAIN mediaSections' : midToIndex'[mediaSections'[k].mid] = k - 1
    BY <1>3, <1>5, <1>6 DEF CopiesAgree
  <2>4. RS!SetupOf(role)' = RS!SetupOf(role')
    BY DEF RS!SetupOf
  <2> QED BY <1>1, <1>3, <2>1, <2>2, <2>3, <2>4 DEF CopiesAgree
<1>10. DescriptionStep
  BY <1>1, <1>2 DEF DescriptionStep, RS!Next
<1> QED BY <1>8, <1>9, <1>10

\* The steps that leave remote_sdp_ alone, and those that do not.
LEMMA DescriptionKept ==
    ASSUME Inv, MidsInOrder, CopiesAgree, [Next]_vars
    PROVE  MidsInOrder' /\ CopiesAgree' /\ (UNCHANGED remote \/ DescriptionStep)
<1>1. overlapped \in BOOLEAN
  BY DEF Inv, Types, StoresType
<1>2. CASE UNCHANGED <<remote, overlapped>>
  BY <1>2, DescriptionFrame
<1>3. ASSUME NEW c \in Callers, ReadIndex(c) \/ UpdateRole(c) \/ SendOfferLine(c)
      PROVE  MidsInOrder' /\ CopiesAgree' /\ (UNCHANGED remote \/ DescriptionStep)
  BY <1>3, ReadIndexUse, UpdateRoleUse, SendOfferLineUse
<1>4. ASSUME NEW c \in Callers, ApplyAnswer(c)
      PROVE  MidsInOrder' /\ CopiesAgree' /\ (UNCHANGED remote \/ DescriptionStep)
  <2>1. RS!GetSdp /\ overlapped' = overlapped
    BY <1>4 DEF ApplyAnswer
  <2>2. /\ mediaSections' = mediaSections /\ midToIndex' = midToIndex
        /\ bundleMids' = bundleMids /\ role' = role /\ ice' = ice
    BY <2>1 DEF RS!GetSdp
  <2>3. MidsInOrder' /\ CopiesAgree'
    BY <2>1, <2>2 DEF MidsInOrder, CopiesAgree
  <2> QED BY <2>1, <2>3 DEF DescriptionStep, RS!Next
<1>5. ASSUME NEW c \in Callers, NEW s \in Streams, NEW a \in BOOLEAN, Publish(c, s, a)
      PROVE  MidsInOrder' /\ CopiesAgree' /\ (UNCHANGED remote \/ DescriptionStep)
  <2>1. UNCHANGED remote /\ (overlapped => overlapped')
    BY <1>5 DEF Publish
  <2> QED BY <2>1, DescriptionFrame
<1>6. ASSUME NEW c \in Callers, Step(c)
      PROVE  \/ ReadIndex(c) \/ UpdateRole(c) \/ SendOfferLine(c) \/ ApplyAnswer(c)
             \/ UNCHANGED <<remote, overlapped>>
  BY <1>6 DEF Step, NoApi, NoTransport, CreateOffer, ConnectTransport, Produce, StorePublisher,
              SubscribeNext, SubscribeConnect, SubscribeEnd, pubLog
<1>7. CASE \/ JoinStart \/ JoinTransports
           \/ \E c \in Callers : Strand(c) \/ \E p \in Peers : Subscribe(c, p)
           \/ \E s \in Streams : Unpublish(s)
           \/ \E p \in Peers : Unsubscribe(p) \/ \E k \in Kinds : NewConsumer(p, k)
  <2>1. UNCHANGED <<remote, overlapped>>
    BY <1>7 DEF JoinStart, JoinTransports, Strand, Subscribe, Unpublish, Unsubscribe,
                NewConsumer, pubLog
  <2> QED BY <1>2, <2>1
<1>8. CASE UNCHANGED vars
  BY <1>2, <1>8 DEF vars, pubLog
<1> QED BY <1>2, <1>3, <1>4, <1>5, <1>6, <1>7, <1>8 DEF Next

LEMMA DescriptionInvariance == Spec => [](MidsInOrder /\ CopiesAgree)
<1>1. Init => MidsInOrder /\ CopiesAgree
  <2> SUFFICES ASSUME Init PROVE MidsInOrder /\ CopiesAgree
    OBVIOUS
  <2>1. /\ mediaSections = << >> /\ bundleMids = << >>
        /\ midToIndex = [m \in Mids |-> RS!NoIndex]
    BY DEF Init
  <2>2. DOMAIN mediaSections = {} /\ DOMAIN midToIndex = Mids
    BY <2>1
  <2>3. bundleMids = RS!OpenMids(RS!Lines(mediaSections))
    BY <2>1, NoLinesNoMids
  <2> QED BY <2>2, <2>3 DEF MidsInOrder, CopiesAgree
<1>2. Inv /\ MidsInOrder /\ CopiesAgree /\ [Next]_vars => (MidsInOrder /\ CopiesAgree)'
  BY DescriptionKept
<1> QED BY <1>1, <1>2, Invariance, PTL DEF Spec

\* DescriptionUsedWell: however the publish calls of any number of threads are
\* interleaved, each of them makes remote_sdp_ anew, leaves it alone or calls an
\* operation of RemoteSdp with its preconditions, Send after an overlap excepted.
THEOREM DescriptionOperations == Spec => DescriptionUsedWell
<1>1. Inv /\ MidsInOrder /\ CopiesAgree /\ [Next]_vars => [DescriptionStep]_remote
  BY DescriptionKept
<1> QED BY <1>1, Invariance, DescriptionInvariance, PTL DEF Spec, DescriptionUsedWell

\* The invariants of RemoteSdp, of the description the calls share.
DescriptionAgrees ==
    /\ RS!DocumentMirrors /\ RS!BundleIsOpenLines /\ RS!OneTransport
    /\ overlapped \/ RS!IndexFindsSection

\* The four copies of the m-lines that RemoteSdp keeps by hand agree in the shared
\* remote_sdp_ too, and all m-lines describe one transport, whatever calls overlap;
\* midToIndex finds every m-line until two overlapping calls send one mid twice.
THEOREM DescriptionConsistent == Spec => []DescriptionAgrees
<1>1. Inv /\ CopiesAgree => DescriptionAgrees
  <2> SUFFICES ASSUME Inv, CopiesAgree PROVE DescriptionAgrees
    OBVIOUS
  <2>1. sdpMedia = mediaSections
    BY DEF Inv, Types, LinesType
  <2>2. RS!DocumentMirrors
    BY <2>1 DEF RS!DocumentMirrors
  <2>3. RS!BundleIsOpenLines
    BY <2>1 DEF CopiesAgree, RS!BundleIsOpenLines
  <2>4. RS!OneTransport
    BY <2>1 DEF CopiesAgree, RS!OneTransport
  <2>5. overlapped \/ RS!IndexFindsSection
    BY DEF CopiesAgree, RS!IndexFindsSection
  <2> QED BY <2>2, <2>3, <2>4, <2>5 DEF DescriptionAgrees
<1> QED BY <1>1, Invariance, DescriptionInvariance, PTL
=============================================================================
