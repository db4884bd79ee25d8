---------------------------- MODULE MediaControl ----------------------------
(***************************************************************************)
(* Publishing and subscribing: mssdk/peerconnection/media_control.cpp,     *)
(* composed with the module RemoteSdp.                                     *)
(*                                                                         *)
(* Application threads (Callers) call publish, unpublish, subscribe and    *)
(* unsubscribe; the io thread calls on_new_consumer.  Every publish has a  *)
(* peer connection of its own, but all of them share remote_sdp_, and no   *)
(* lock is held from the reading of an m-line index to its use: mutex_     *)
(* protects publish_pcs_, sub_pcs_ and the insertion of consumers.  A call *)
(* is split where it blocks on a request to the server or on libwebrtc.    *)
(*                                                                         *)
(* A peer connection is abstracted to its number of transceivers: libwebrtc*)
(* numbers their mids from "0" in the order of the m-lines of the offer.   *)
(***************************************************************************)
EXTENDS Integers, Sequences, FiniteSets

CONSTANTS Callers,   \* application threads
          Streams,   \* PublishStreamType
          Peers,     \* uids of other peers
          TpRole,    \* dtlsParameters["role"] of the server's transports
          MaxCalls,  \* bound: publish and subscribe calls
          MaxJoins   \* bound: joins that create transports

ASSUME TpRoleAssumption     == TpRole \in {"auto", "client", "server"}
ASSUME CallBoundsAssumption == MaxCalls \in Nat /\ MaxJoins \in Nat

Kinds    == {"audio", "video"}    \* in the order of std::map<string, ...>
MidAt    == <<"0", "1">>          \* mid of the n-th m-line of an offer
Mids     == {MidAt[n] : n \in DOMAIN MidAt} \cup {"datachannel"}
NoTp     == 0
Tps      == 0..MaxJoins
CallIds  == 1..MaxCalls
NoIdx    == [idx |-> 0, reuseMid |-> ""]

VARIABLES
    \* remote_sdp_ (module RemoteSdp), built from the transport "ice"
    mediaSections, midToIndex, firstMid, sdpMedia, bundleMids, role, ice, version, usedMids,
    lateClose,   \* of RemoteSdp: stays FALSE, nothing here closes an m-line
    hasSdp,      \* remote_sdp_ is not null
    api,         \* ms_api_ is not null
    joins,       \* joins that created transports
    sendTp,      \* what get_send_transport_param returns
    givesMids,   \* the server puts a mid in the rtpParameters of a consumer
    sendable,    \* the kinds with a codec common to libwebrtc and the router
    cs,          \* per caller: the locals of the call in progress
    calls,       \* calls made
    publishPcs,  \* publish_pcs_: per stream, the call that stored it, 0 if none
    consumers,   \* consumer_list_: per peer, the kinds announced
    subPcs,      \* sub_pcs_: peers subscribed to
    owners,      \* ghost: per m-line of remote_sdp_, the call that sent it
    stale,       \* ghost: a join created transports after the one of remote_sdp_
                 \* was chosen
    overlapped,  \* ghost: two publish calls were in progress together
    late,        \* ghost: calls whose audio half found no transport, with its
                 \* transceiver already added
    mute,        \* ghost: calls without a complete audio half
    threw,       \* ghost: publish calls that ended in an exception
    connects,    \* ghost: <<call, transport>> of connect requests
    produced,    \* ghost: produce requests
    subDone,     \* ghost: <<kinds known at the start, kinds negotiated>> of subscribes
    subThrew     \* ghost: kinds known at the start of subscribes that threw

remote == <<mediaSections, midToIndex, firstMid, sdpMedia, bundleMids, role, ice,
            version, usedMids, lateClose>>
room   == <<api, joins, sendTp, givesMids, sendable>>
stores == <<publishPcs, consumers, subPcs>>
pubLog == <<overlapped, stale, late, mute, threw, connects, produced>>
subLog == <<subDone, subThrew>>
vars   == <<remote, hasSdp, room, cs, calls, stores, owners, pubLog, subLog>>

RS == INSTANCE RemoteSdp WITH side <- "send", IceParams <- Tps,
                              MaxSections <- 2 * MaxCalls, MaxVersion <- 2 * MaxCalls

PublishSteps   == {"offer", "create", "connect", "role", "send", "produce", "answer", "store"}
SubscribeSteps == {"next", "subConnect"}

Idle == [pc |-> "idle", id |-> 0, kind |-> "audio", stream |-> "none", peer |-> "none",
         lines |-> 0, tp |-> NoTp, fresh |-> FALSE, msidx |-> NoIdx,
         seen |-> {}, known |-> {}]

\* A caller that waits for ever uses its locals no more.
Stranded == [Idle EXCEPT !.pc = "stranded"]

Init == /\ mediaSections = << >> /\ sdpMedia = << >> /\ bundleMids = << >>
        /\ midToIndex = [m \in Mids |-> RS!NoIndex] /\ firstMid = RS!NoMid
        /\ ice = NoTp /\ version = 0 /\ usedMids = {} /\ lateClose = FALSE
        /\ role = "auto" /\ hasSdp = FALSE
        /\ api = FALSE /\ joins = 0 /\ sendTp = NoTp
        /\ givesMids \in BOOLEAN /\ sendable \in SUBSET Kinds
        /\ cs = [c \in Callers |-> Idle] /\ calls = 0
        /\ publishPcs = [s \in Streams |-> 0]
        /\ consumers = [p \in Peers |-> {}] /\ subPcs = {}
        /\ owners = << >> /\ overlapped = FALSE /\ stale = FALSE
        /\ late = {} /\ mute = {} /\ threw = {} /\ connects = {} /\ produced = {}
        /\ subDone = {} /\ subThrew = {}

\* Caller c is at step "from" and goes on to "to".
Goto(c, from, to) == cs[c].pc = from /\ cs' = [cs EXCEPT ![c].pc = to]

-----------------------------------------------------------------------------
\* The room, as MediaControl sees it (module MediaSoupAPI).

\* join has created ms_api_; its transports come later, or never.
JoinStart ==
    /\ ~api /\ api' = TRUE
    /\ UNCHANGED <<remote, hasSdp, joins, sendTp, givesMids, sendable, cs, calls,
                   stores, owners, pubLog, subLog>>

\* A join created its transports: the new sending one comes before or after an
\* older one in the key order of transport_list_.
JoinTransports ==
    /\ api /\ joins < MaxJoins
    /\ joins' = joins + 1
    /\ \/ sendTp' = joins'
       \/ sendTp # NoTp /\ UNCHANGED sendTp
    /\ stale' = (stale \/ hasSdp \/ \E c \in Callers : cs[c].pc = "create")
    /\ UNCHANGED <<remote, hasSdp, api, givesMids, sendable, cs, calls, stores,
                   owners, overlapped, late, mute, threw, connects, produced, subLog>>

-----------------------------------------------------------------------------
\* publish: enable_audio, enable_video, and the entry in publish_pcs_.

Publish(c, s, audio) ==
    /\ cs[c].pc = "idle" /\ calls < MaxCalls
    /\ calls' = calls + 1
    /\ cs' = [cs EXCEPT ![c] = [Idle EXCEPT !.pc = "offer", !.id = calls', !.stream = s,
                                            !.kind = IF audio THEN "audio" ELSE "video"]]
    /\ overlapped' = (overlapped \/ \E d \in Callers : cs[d].pc \in PublishSteps)
    /\ mute' = IF audio THEN mute ELSE mute \cup {calls'}
    /\ UNCHANGED <<remote, hasSdp, room, stores, owners, stale, late, threw, connects, produced,
                   subLog>>

\* The step after one of the two halves: the result of enable_audio is ignored.
AfterHalf(local) ==
    IF local.kind = "audio" THEN [local EXCEPT !.kind = "video", !.pc = "offer"]
                            ELSE [local EXCEPT !.pc = "store"]

\* lbcheck_ptr(ms_api_): -1 before anything was added to the peer connection.
NoApi(c) ==
    /\ cs[c].pc = "offer" /\ ~api
    /\ cs' = [cs EXCEPT ![c] = AfterHalf(@)]
    /\ mute' = mute \cup {cs[c].id}
    /\ UNCHANGED <<remote, hasSdp, room, calls, stores, owners, overlapped, stale, late, threw,
                   connects, produced, subLog>>

\* Mutant: a second transceiver is added when there is no transport.
NoTransportTwice(c) ==
    /\ cs[c].pc = "offer" /\ api /\ sendTp = NoTp
    /\ cs' = [cs EXCEPT ![c] = AfterHalf([cs[c] EXCEPT !.lines = @ + 2])]
    /\ mute' = mute \cup {cs[c].id}
    /\ late' = late \cup {cs[c].id}
    /\ UNCHANGED <<remote, hasSdp, room, calls, stores, owners, overlapped, stale, threw, connects,
                   produced, subLog>>

\* lbcheck_ptr(tp): -1 with the transceiver already added.
NoTransport(c) ==
    /\ cs[c].pc = "offer" /\ api /\ sendTp = NoTp
    /\ cs' = [cs EXCEPT ![c] = AfterHalf([cs[c] EXCEPT !.lines = @ + 1])]
    /\ mute' = mute \cup {cs[c].id}
    /\ late' = late \cup {cs[c].id}
    /\ UNCHANGED <<remote, hasSdp, room, calls, stores, owners, overlapped, stale, threw, connects,
                   produced, subLog>>

\* AddTransceiver, the transport, CreateOffer, and the test of remote_sdp_.
CreateOffer(c) ==
    /\ cs[c].pc = "offer" /\ sendTp # NoTp
    /\ cs' = [cs EXCEPT ![c].pc = "create", ![c].lines = @ + 1, ![c].tp = sendTp,
                        ![c].fresh = ~hasSdp]
    /\ UNCHANGED <<remote, hasSdp, room, calls, stores, owners, pubLog, subLog>>

\* remote_sdp_.reset(new RemoteSdp(...)) from the parameters of transport t.
NewRemoteSdp(t) ==
    /\ mediaSections' = << >> /\ sdpMedia' = << >> /\ bundleMids' = << >>
    /\ midToIndex' = [m \in Mids |-> RS!NoIndex] /\ firstMid' = RS!NoMid
    /\ role' = TpRole /\ ice' = t /\ version' = 0 /\ usedMids' = {}
    /\ lateClose' = FALSE
    /\ owners' = << >>

\* Mutant: the transport is not connected.
AfterIndexNoConnect(kind) == "role"

\* Only enable_audio connects the transport.
AfterIndex(kind) == IF kind = "audio" THEN "connect" ELSE "role"

\* Mutant: remote_sdp_ is built from the first transport in the list.
ReadIndexFirstTp(c) ==
    /\ cs[c].pc = "create"
    /\ hasSdp' = TRUE
    /\ \/ cs[c].fresh /\ NewRemoteSdp(1)
       \/ ~cs[c].fresh /\ UNCHANGED <<remote, owners>>
    /\ cs' = [cs EXCEPT ![c].pc = AfterIndex(cs[c].kind),
                        ![c].msidx = RS!GetNextMediaSectionIdx']
    /\ UNCHANGED <<room, calls, stores, pubLog, subLog>>

\* remote_sdp_, if it was seen to be null, and GetNextMediaSectionIdx.
ReadIndex(c) ==
    /\ cs[c].pc = "create"
    /\ hasSdp' = TRUE
    /\ \/ cs[c].fresh /\ NewRemoteSdp(cs[c].tp)
       \/ ~cs[c].fresh /\ UNCHANGED <<remote, owners>>
    /\ cs' = [cs EXCEPT ![c].pc = AfterIndex(cs[c].kind),
                        ![c].msidx = RS!GetNextMediaSectionIdx']
    /\ UNCHANGED <<room, calls, stores, pubLog, subLog>>

\* connect_webrtc_transport, answered; a rejection counts as success too (module
\* MediaSoupAPI).
ConnectTransport(c) ==
    /\ Goto(c, "connect", "role")
    /\ connects' = connects \cup {<<cs[c].id, cs[c].tp>>}
    /\ UNCHANGED <<remote, hasSdp, room, calls, stores, owners, overlapped, stale, late, mute,
                   threw, produced, subLog>>

remoteDtlsRole == IF TpRole = "server" THEN "server" ELSE "client"

\* UpdateDtlsRole, before SetLocalDescription(offer).
UpdateRole(c) ==
    /\ Goto(c, "role", "send")
    /\ RS!UpdateDtlsRole(remoteDtlsRole)
    /\ UNCHANGED <<hasSdp, room, calls, stores, owners, pubLog, subLog>>

\* The exception leaves publish; the peer connection is destroyed.
Throw(c) == /\ cs' = [cs EXCEPT ![c] = Idle]
            /\ threw' = threw \cup {cs[c].id}

\* Mutant: media[0] for the m-line.
SendOfferLineFirst(c) ==
    /\ cs[c].pc = "send"
    /\ RS!SendLine(MidAt[1], cs[c].msidx.reuseMid)
    /\ owners' = Append(owners, cs[c].id)
    /\ cs' = [cs EXCEPT ![c].pc = "produce", ![c].msidx.idx = 0]
    /\ UNCHANGED <<hasSdp, room, calls, stores, pubLog, subLog>>

(***************************************************************************)
(* The sending parameters, localSdpObject["media"][msidx.idx], and          *)
(* remote_sdp_->Send.  For a kind without a common codec, codecs[0] is     *)
(* null, and reading its mimeType (video) or making the MediaSection of it *)
(* (audio) throws.  Past the end of the offer, operator[] gives a null     *)
(* object, and reading it throws.                                          *)
(***************************************************************************)
SendOfferLine(c) ==
    /\ cs[c].pc = "send"
    /\ \/ /\ cs[c].kind \in sendable /\ cs[c].msidx.idx < cs[c].lines
          /\ RS!SendLine(MidAt[cs[c].msidx.idx + 1], cs[c].msidx.reuseMid)
          /\ owners' = Append(owners, cs[c].id)
          /\ cs' = [cs EXCEPT ![c].pc = "produce"]
          /\ UNCHANGED threw
       \/ /\ cs[c].kind \notin sendable \/ cs[c].msidx.idx >= cs[c].lines
          /\ Throw(c)
          /\ UNCHANGED <<remote, owners>>
    /\ UNCHANGED <<hasSdp, room, calls, stores, overlapped, stale, late, mute, connects, produced,
                   subLog>>

\* produce, whose result is ignored.  "mid" is transceiver->mid(), which goes
\* to the server, "line" the mid of the m-line that was answered.
Produce(c) ==
    /\ Goto(c, "produce", "answer")
    /\ produced' = produced \cup {[id |-> cs[c].id, tp |-> cs[c].tp,
                                   mid  |-> MidAt[cs[c].lines],
                                   line |-> MidAt[cs[c].msidx.idx + 1]]}
    /\ UNCHANGED <<remote, hasSdp, room, calls, stores, owners, overlapped, stale, late, mute,
                   threw, connects, subLog>>

\* libwebrtc accepts an answer with the m-lines of the offer.
Accepts(c) ==
    [k \in DOMAIN sdpMedia |-> sdpMedia[k].mid] = [k \in 1..cs[c].lines |-> MidAt[k]]

\* GetSdp and SetRemoteDescription(answer).
ApplyAnswer(c) ==
    /\ cs[c].pc = "answer"
    /\ RS!GetSdp
    /\ \/ Accepts(c) /\ cs' = [cs EXCEPT ![c] = AfterHalf(@)] /\ UNCHANGED threw
       \/ ~Accepts(c) /\ Throw(c)
    /\ UNCHANGED <<hasSdp, room, calls, stores, owners, overlapped, stale, late, mute, connects,
                   produced, subLog>>

\* Under mutex_: the new peer connection replaces an older one.
StorePublisher(c) ==
    /\ cs[c].pc = "store"
    /\ publishPcs' = [publishPcs EXCEPT ![cs[c].stream] = cs[c].id]
    /\ cs' = [cs EXCEPT ![c] = Idle]
    /\ UNCHANGED <<remote, hasSdp, room, calls, consumers, subPcs, owners, pubLog, subLog>>

\* unpublish closes the peer connection; remote_sdp_ keeps its m-lines.
Unpublish(s) ==
    /\ publishPcs[s] # 0
    /\ publishPcs' = [publishPcs EXCEPT ![s] = 0]
    /\ UNCHANGED <<remote, hasSdp, room, cs, calls, consumers, subPcs, owners, pubLog, subLog>>

-----------------------------------------------------------------------------
\* subscribe.  The RemoteSdp it builds is local; one m-line per kind.

\* on_new_consumer, on the io thread, under mutex_.  consumer_list_ has one entry
\* per kind: a second consumer of a kind takes the place of the first.
NewConsumer(p, k) ==
    /\ joins > 0
    /\ consumers' = [consumers EXCEPT ![p] = @ \cup {k}]
    /\ UNCHANGED <<remote, hasSdp, room, cs, calls, publishPcs, subPcs, owners, pubLog, subLog>>

\* subscribe up to the loop: consumer_list_ is read without mutex_, and the loop
\* runs over a reference to the live map.
Subscribe(c, p) ==
    /\ cs[c].pc = "idle" /\ calls < MaxCalls
    /\ consumers[p] # {} /\ joins > 0
    /\ calls' = calls + 1
    /\ cs' = [cs EXCEPT ![c] = [Idle EXCEPT !.pc = "next", !.id = calls', !.peer = p,
                                            !.known = consumers[p]]]
    /\ UNCHANGED <<remote, hasSdp, room, stores, owners, pubLog, subLog>>

\* Mutant: the loop ends after the first consumer.
AheadOne(c) == {k \in consumers[cs[c].peer] : cs[c].seen = {}}

\* The entries the iterator can still reach: "audio" comes before "video".
Ahead(c) == {k \in consumers[cs[c].peer] \ cs[c].seen : cs[c].seen = {} \/ k = "video"}

(***************************************************************************)
(* One round of the loop up to connect: Receive, SetRemoteDescription and  *)
(* CreateAnswer.  Without a mid from the server every m-line gets "0"      *)
(* (mid_def_val is never incremented), and libwebrtc refuses the second.   *)
(***************************************************************************)
SubscribeNext(c) ==
    /\ cs[c].pc = "next" /\ Ahead(c) # {}
    /\ LET k == IF "audio" \in Ahead(c) THEN "audio" ELSE "video"
       IN  \/ /\ givesMids \/ cs[c].seen = {}
              /\ cs' = [cs EXCEPT ![c].seen = @ \cup {k},
                                  ![c].pc = IF cs[c].seen = {} THEN "subConnect" ELSE "next"]
              /\ UNCHANGED subThrew
           \/ /\ ~givesMids /\ cs[c].seen # {}
              /\ cs' = [cs EXCEPT ![c] = Idle]
              /\ subThrew' = subThrew \cup {cs[c].known}
    /\ UNCHANGED <<remote, hasSdp, room, calls, stores, owners, pubLog, subDone>>

\* connect_webrtc_transport in the first round, and SetLocalDescription.
SubscribeConnect(c) ==
    /\ Goto(c, "subConnect", "next")
    /\ UNCHANGED <<remote, hasSdp, room, calls, stores, owners, pubLog, subLog>>

\* Mutant: the loop is left only once there is a video transceiver.
SubscribeEndWaits(c) ==
    /\ cs[c].pc = "next" /\ Ahead(c) = {}
    /\ "video" \in cs[c].seen
    /\ subPcs' = subPcs \cup {cs[c].peer}
    /\ cs' = [cs EXCEPT ![c] = Idle]
    /\ UNCHANGED <<remote, hasSdp, room, calls, publishPcs, consumers, owners, pubLog, subLog>>

\* After the loop: no video transceiver throws, else sub_pcs_[uid] = pc.
SubscribeEnd(c) ==
    /\ cs[c].pc = "next" /\ Ahead(c) = {}
    /\ \/ /\ "video" \in cs[c].seen
          /\ subPcs' = subPcs \cup {cs[c].peer}
          /\ subDone' = subDone \cup {<<cs[c].known, cs[c].seen>>}
          /\ UNCHANGED subThrew
       \/ /\ "video" \notin cs[c].seen
          /\ subThrew' = subThrew \cup {cs[c].known}
          /\ UNCHANGED <<subPcs, subDone>>
    /\ cs' = [cs EXCEPT ![c] = Idle]
    /\ UNCHANGED <<remote, hasSdp, room, calls, publishPcs, consumers, owners, pubLog>>

Unsubscribe(p) ==
    /\ p \in subPcs
    /\ subPcs' = subPcs \ {p}
    /\ UNCHANGED <<remote, hasSdp, room, cs, calls, publishPcs, consumers, owners, pubLog,
                   subLog>>

-----------------------------------------------------------------------------

\* The caller waits for ever in future.get(): the connection is gone, or MSSignal
\* has missed the response (module MSSignal).
Strand(c) ==
    /\ cs[c].pc \in {"connect", "produce", "subConnect"}
    /\ cs' = [cs EXCEPT ![c] = Stranded]
    /\ UNCHANGED <<remote, hasSdp, room, calls, stores, owners, pubLog, subLog>>

-----------------------------------------------------------------------------

Step(c) == \/ NoApi(c) \/ NoTransport(c) \/ CreateOffer(c) \/ ReadIndex(c)
           \/ ConnectTransport(c) \/ UpdateRole(c) \/ SendOfferLine(c) \/ Produce(c)
           \/ ApplyAnswer(c) \/ StorePublisher(c)
           \/ SubscribeNext(c) \/ SubscribeConnect(c) \/ SubscribeEnd(c)

Next == \/ JoinStart \/ JoinTransports
        \/ \E c \in Callers : \/ Step(c) \/ Strand(c)
                              \/ \E s \in Streams, a \in BOOLEAN : Publish(c, s, a)
                              \/ \E p \in Peers : Subscribe(c, p)
        \/ \E s \in Streams : Unpublish(s)
        \/ \E p \in Peers : Unsubscribe(p) \/ \E k \in Kinds : NewConsumer(p, k)

\* Application threads run, and a request is answered unless its caller is stranded.
Fairness == \A c \in Callers : WF_vars(Step(c))

Spec == Init /\ [][Next]_vars /\ Fairness

-----------------------------------------------------------------------------

TypeOK == /\ hasSdp \in BOOLEAN /\ api \in BOOLEAN /\ sendable \subseteq Kinds
          /\ joins \in Tps /\ sendTp \in Tps /\ ice \in Tps
          /\ role \in RS!Roles
          /\ \A c \in Callers : /\ cs[c].pc \in {"idle", "stranded"} \cup PublishSteps
                                              \cup SubscribeSteps
                                /\ cs[c].id \in 0..MaxCalls /\ cs[c].lines \in 0..2
                                /\ cs[c].tp \in Tps /\ cs[c].seen \subseteq Kinds
          /\ publishPcs \in [Streams -> 0..MaxCalls] /\ subPcs \subseteq Peers
          /\ consumers \in [Peers -> SUBSET Kinds]
          /\ Len(mediaSections) = Len(owners)
          /\ \A k \in DOMAIN owners : owners[k] \in CallIds
          /\ threw \subseteq CallIds /\ late \subseteq CallIds /\ mute \subseteq CallIds

\* What publish call n sends.
KindsOf(n) == IF n \in mute THEN {"video"} ELSE Kinds

(***************************************************************************)
(* publish throws only when disturbed: another call has put m-lines into   *)
(* the shared remote_sdp_ (an earlier publish, even if it was unpublished  *)
(* since), or the transport appeared between its audio and video halves;   *)
(* or when a kind it publishes has no codec in common with the router.     *)
(* So the first publish of a joined room never does, with or without       *)
(* audio, if its kinds have one.                                           *)
(***************************************************************************)
PublishUndisturbed ==
    \A n \in threw :
        \/ overlapped \/ n \in late
        \/ \E k \in DOMAIN owners : owners[k] # n
        \/ ~(KindsOf(n) \subseteq sendable)

(***************************************************************************)
(* A produce request carries the mid of the m-line that was answered for   *)
(* it: the index of the shared remote_sdp_ and the position of the         *)
(* transceiver in its own peer connection agree, unless calls overlapped   *)
(* or the transceiver of a skipped audio half is in the way.               *)
(***************************************************************************)
ProducedLine ==
    \A r \in produced : overlapped \/ r.id \in late \/ r.mid = r.line

(***************************************************************************)
(* A publish produces only on a transport it has connected before.  The    *)
(* exceptions: without its audio half nothing connects the transport, and  *)
(* a second join may change the transport between the two halves.          *)
(***************************************************************************)
ProducesOnConnected ==
    \A r \in produced : <<r.id, r.tp>> \in connects \/ r.id \in mute \/ joins > 1

(***************************************************************************)
(* The answer applied to a peer connection describes the transport that is *)
(* produced on, unless a later join created another after the transport of *)
(* remote_sdp_ was chosen (it is never rebuilt).  Overlapping publish calls*)
(* do not spoil it, though each may replace the other's remote_sdp_.       *)
(***************************************************************************)
AnswerIsForTransport ==
    \A c \in Callers : cs[c].pc = "answer" => cs[c].tp = ice \/ stale

(***************************************************************************)
(* subscribe negotiates every kind of consumer known when it began,        *)
(* although the loop runs over the live map; it throws only for a peer     *)
(* that had no video consumer then, or if the server gives no mids.        *)
(***************************************************************************)
SubscribeVerdict ==
    /\ \A r \in subDone : r[1] \subseteq r[2]
    /\ \A known \in subThrew : "video" \notin known \/ ~givesMids

(***************************************************************************)
(* Every publish and subscribe ends, in a stored peer connection or an     *)
(* exception, unless its caller is stranded in a request: no other caller, *)
(* stranded or not, and no description it leaves behind keeps it.          *)
(***************************************************************************)
CallsReturn == \A c \in Callers : cs[c].pc # "idle" ~> cs[c].pc \in {"idle", "stranded"}

\* What a step may do to remote_sdp_, beyond leaving it alone.
DescriptionStep ==
    \/ \E t \in Tps : NewRemoteSdp(t)
    \/ RS!Next
    \/ overlapped /\ \E mid \in Mids : RS!SendLine(mid, RS!NoMid)

(***************************************************************************)
(* The calls share remote_sdp_ as RemoteSdp asks of its callers: whatever  *)
(* blocks between reading an index and using it, the description is made   *)
(* anew or changed by an operation of the module RemoteSdp with its        *)
(* preconditions, a closed m-line being recycled first and no mid given    *)
(* twice.  Only Send is ever called without them, and only once two        *)
(* publish calls overlapped.                                               *)
(***************************************************************************)
DescriptionUsedWell == [][DescriptionStep]_remote
=============================================================================
