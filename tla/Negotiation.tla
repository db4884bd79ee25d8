----------------------------- MODULE Negotiation ----------------------------
(***************************************************************************)
(* The codecs of a room: MediaSoupAPI::load_capabilities, join and         *)
(* produce (mssdk/mssignal/msapi.cpp), getExtendedRtpCapabilities          *)
(* (jsonvalidate.cpp) with one action per round of each of its loops, and  *)
(* the part of MediaControl::publish that builds the produce requests and  *)
(* the answering m-lines (media_control.cpp).                              *)
(*                                                                         *)
(* libwebrtc's offer and the server's router capabilities are chosen in    *)
(* Init; what is done with them after that is determined.  How publish     *)
(* shares remote_sdp_ and waits for the server is in MediaControl.         *)
(***************************************************************************)
EXTENDS Ortc

CONSTANT Inputs     \* pairs of native capabilities and router capabilities

\* libwebrtc offers an RTX codec in the m-line of the codec it repairs.
RtxInItsLine(d) ==
    \A i, j \in DOMAIN d.codecs :
        IsRtx(d.codecs[i]) /\ CompleteCodec(d.codecs[i]).par.apt = d.codecs[j].pt
            => d.codecs[i].kind = d.codecs[j].kind

\* An RTX codec names the codec it repairs: reading the apt of one that does not
\* (localCodec["parameters"]["apt"], on a const json) is undefined.
RtxNamesCodec(d) ==
    \A j \in DOMAIN d.codecs :
        IsRtx(d.codecs[j]) => "par" \in DOMAIN d.codecs[j] /\ d.codecs[j].par.apt # NoPt

ASSUME InputsAssumption ==
    \A input \in Inputs :
        /\ IsDocument(input[1]) /\ RtxInItsLine(input[1]) /\ RtxNamesCodec(input[1])
        /\ IsDocument(input[2]) /\ RtxNamesCodec(input[2])

Pcs == {"load", "codecs", "rtx", "exts", "loaded", "joined", "parameters", "answer",
        "produce", "done", "threw"}

VARIABLES
    pc,         \* the step to do next
    native,     \* extractRtpCapabilities of libwebrtc's offer
    router,     \* the router's capabilities, as the server sent them
    local, remote,  \* the documents getExtendedRtpCapabilities works on
    k,          \* index of its loop
    codecs, exts,   \* extended capabilities
    pairs,      \* ghost: the local and remote index each of codecs is made of
    recv,       \* recv_rtp_capabilities_
    joined,     \* codecs of the join request
    canProduce, \* can_produce_
    withAudio,  \* benable_audio of the publish
    half,       \* the kind being enabled
    send, sendRemote,   \* send_rtp_param, send_remote_rtp_param
    built,      \* per kind: send_rtp_param of the produce request, << >> before
    produced,   \* per kind: codecs of the produce request as sent, << >> before
    answers     \* per kind: the m-line sent to RemoteSdp

docs  == <<native, router>>
pub   == <<withAudio, half, send, sendRemote, built, produced, answers>>
vars  == <<pc, docs, local, remote, k, codecs, exts, pairs, recv, joined, canProduce, pub>>

NoCaps == [codecs |-> << >>, exts |-> << >>]
x      == [codecs |-> codecs, exts |-> exts]

Init == /\ \E input \in Inputs : native = input[1] /\ router = input[2]
        /\ pc = "load"
        /\ local = NoCaps /\ remote = NoCaps /\ k = 1
        /\ codecs = << >> /\ exts = << >> /\ pairs = << >>
        /\ recv = NoCaps /\ joined = << >>
        /\ canProduce = [kind \in Kinds |-> FALSE]
        /\ withAudio = FALSE /\ half = "audio" /\ send = NoCaps /\ sendRemote = NoCaps
        /\ built = [kind \in Kinds |-> << >>] /\ produced = [kind \in Kinds |-> << >>]
        /\ answers = [kind \in Kinds |-> NoCaps]

-----------------------------------------------------------------------------
\* get_router_rtp_capabilities, load_capabilities.

\* The router's capabilities as the typed response hands them on.
Received == [router EXCEPT !.codecs = Through(RouterFields, @)]

\* Both documents are validated; an exception ends the join.
Load ==
    /\ pc = "load"
    /\ IF ValidCapabilities(Received) /\ ValidCapabilities(native)
       THEN /\ pc' = "codecs"
            /\ local' = CompleteCapabilities(native)
            /\ remote' = CompleteCapabilities(Received)
       ELSE pc' = "threw" /\ UNCHANGED <<local, remote>>
    /\ UNCHANGED <<docs, k, codecs, exts, pairs, recv, joined, canProduce, pub>>

\* Local codecs that match remote codec n.
Matches(n) == {j \in DOMAIN local.codecs : MatchCodecs(local.codecs[j], remote.codecs[n])}

\* Mutant: only the local codec gets the level of the answer.
MatchCodecOneSided ==
    /\ pc = "codecs" /\ k <= Len(remote.codecs)
    /\ IF IsRtx(remote.codecs[k]) \/ Matches(k) = {}
       THEN UNCHANGED <<local, codecs, pairs>>
       ELSE LET j == FirstOf(Matches(k))
                level == AnswerLevel(local.codecs[j], remote.codecs[k])
            IN  /\ local' = [local EXCEPT !.codecs[j] = WithLevel(@, level)]
                /\ codecs' = Append(codecs, ExtendedCodec(local'.codecs[j], remote.codecs[k]))
                /\ pairs' = Append(pairs, <<j, k>>)
    /\ k' = k + 1
    /\ UNCHANGED <<pc, docs, remote, exts, recv, joined, canProduce, pub>>

\* One round over the remote codecs: the first local match, both then changed.
MatchCodec ==
    /\ pc = "codecs" /\ k <= Len(remote.codecs)
    /\ IF IsRtx(remote.codecs[k]) \/ Matches(k) = {}
       THEN UNCHANGED <<local, remote, codecs, pairs>>
       ELSE LET j == FirstOf(Matches(k))
                level == AnswerLevel(local.codecs[j], remote.codecs[k])
                a == WithLevel(local.codecs[j], level)
                b == WithLevel(remote.codecs[k], level)
            IN  /\ local' = [local EXCEPT !.codecs[j] = a]
                /\ remote' = [remote EXCEPT !.codecs[k] = b]
                /\ codecs' = Append(codecs, ExtendedCodec(a, b))
                /\ pairs' = Append(pairs, <<j, k>>)
    /\ k' = k + 1
    /\ UNCHANGED <<pc, docs, exts, recv, joined, canProduce, pub>>

RtxOf(cs, pt) == {j \in DOMAIN cs : IsRtx(cs[j]) /\ cs[j].par.apt = pt}

\* One round over the extended codecs: RTX when both sides have one.
MatchRtx ==
    /\ pc = "rtx" /\ k <= Len(codecs)
    /\ LET l == RtxOf(local.codecs, codecs[k].localPt)
           r == RtxOf(remote.codecs, codecs[k].remotePt)
       IN  codecs' = IF l = {} \/ r = {} THEN codecs
                     ELSE [codecs EXCEPT ![k].localRtx = local.codecs[FirstOf(l)].pt,
                                         ![k].remoteRtx = remote.codecs[FirstOf(r)].pt]
    /\ k' = k + 1
    /\ UNCHANGED <<pc, docs, local, remote, exts, pairs, recv, joined, canProduce, pub>>

\* One round over the remote header extensions.
MatchExt ==
    /\ pc = "exts" /\ k <= Len(remote.exts)
    /\ LET r == remote.exts[k]
           found == {j \in DOMAIN local.exts : MatchHeaderExtensions(local.exts[j], r)}
       IN  exts' = IF found = {} THEN exts
                   ELSE Append(exts, [kind |-> r.kind, uri |-> r.uri,
                                      sendId |-> local.exts[FirstOf(found)].id, recvId |-> r.id,
                                      direction |-> Flipped(r.direction)])
    /\ k' = k + 1
    /\ UNCHANGED <<pc, docs, local, remote, codecs, pairs, recv, joined, canProduce, pub>>

\* The end of a loop.
NextLoop(from, size, to) == pc = from /\ k > size /\ pc' = to /\ k' = 1

LoopEnd ==
    /\ \/ NextLoop("codecs", Len(remote.codecs), "rtx")
       \/ NextLoop("rtx", Len(codecs), "exts")
       \/ NextLoop("exts", Len(remote.exts), "loaded")
    /\ UNCHANGED <<docs, local, remote, codecs, exts, pairs, recv, joined, canProduce, pub>>

\* The rest of load_capabilities, and join: what getRecvRtpCapabilities makes
\* is complete, so validating it changes nothing.
Join ==
    /\ pc = "loaded"
    /\ recv' = getRecvRtpCapabilities(x)
    /\ canProduce' = [kind \in Kinds |-> canSend(kind, x)]
    /\ joined' = Through(JoinFields, recv'.codecs)
    /\ pc' = "joined"
    /\ UNCHANGED <<docs, local, remote, k, codecs, exts, pairs, pub>>

-----------------------------------------------------------------------------
\* publish: enable_audio when asked for, then enable_video.

Publish ==
    /\ pc = "joined"
    /\ withAudio' \in BOOLEAN
    /\ half' = IF withAudio' THEN "audio" ELSE "video"
    /\ pc' = "parameters"
    /\ UNCHANGED <<docs, local, remote, k, codecs, exts, pairs, recv, joined, canProduce,
                   send, sendRemote, built, produced, answers>>

\* Both parameter documents, reduced to one codec; enable_video then looks at
\* the mime type of its codec, which throws on a null.
Parameters ==
    /\ pc = "parameters"
    /\ LET s == getSendingRtpParameters(half, x)
           r == getSendingRemoteRtpParameters(half, x)
       IN  /\ send' = [s EXCEPT !.codecs = reduceCodecs(@)]
           /\ sendRemote' = [r EXCEPT !.codecs = reduceCodecs(@)]
    /\ pc' = IF half = "video" /\ send'.codecs[1] = NullCodec THEN "threw" ELSE "answer"
    /\ UNCHANGED <<docs, local, remote, k, codecs, exts, pairs, recv, joined, canProduce,
                   withAudio, half, built, produced, answers>>

\* libwebrtc: the header extensions of an m-line of the offer.
Offered(kind) == {native.exts[j].uri : j \in {i \in DOMAIN native.exts : native.exts[i].kind = kind}}

\* remote_sdp_->Send.  The codec name of a null codec is read from a key that
\* does not exist: an exception or a crash, before the m-line is added.
Answer ==
    /\ pc = "answer"
    /\ IF sendRemote.codecs[1] = NullCodec
       THEN pc' = "threw" /\ UNCHANGED <<send, answers>>
       ELSE LET line == AnswerLine(sendRemote, Offered(half))
            IN  /\ answers' = [answers EXCEPT ![half] = line]
                /\ send' = OfferOptions(send, line)
                /\ pc' = "produce"
    /\ UNCHANGED <<docs, local, remote, k, codecs, exts, pairs, recv, joined, canProduce,
                   withAudio, half, sendRemote, built, produced>>

\* What the produce request tells the server of the codecs.
SentCodecs == Through(ProduceFields, send.codecs)

\* validateRtpParameters, which throws on parameters that are not valid, and
\* produce; then the other half or the end.
Produce ==
    /\ pc = "produce"
    /\ IF ~ValidParameters(send)
       THEN pc' = "threw" /\ UNCHANGED <<built, produced, half>>
       ELSE /\ built' = [built EXCEPT ![half] = send.codecs]
            /\ produced' = [produced EXCEPT ![half] = SentCodecs]
            /\ IF half = "audio" THEN half' = "video" /\ pc' = "parameters"
               ELSE pc' = "done" /\ UNCHANGED half
    /\ UNCHANGED <<docs, local, remote, k, codecs, exts, pairs, recv, joined, canProduce,
                   withAudio, send, sendRemote, answers>>

Next == \/ Load \/ MatchCodec \/ MatchRtx \/ MatchExt \/ LoopEnd \/ Join
        \/ Publish \/ Parameters \/ Answer \/ Produce

Spec == Init /\ [][Next]_vars

-----------------------------------------------------------------------------
\* Types: the step, the loop index within its loop, and every pair an index of
\* each document (getExtendedRtpCapabilities' iterators stay inside the arrays).
TypeOK ==
    /\ pc \in Pcs /\ half \in Kinds /\ withAudio \in BOOLEAN
    /\ canProduce \in [Kinds -> BOOLEAN]
    /\ k \in 1 .. Max({Len(remote.codecs), Len(codecs), Len(remote.exts)}) + 1
    /\ Len(pairs) = Len(codecs)
    /\ \A n \in DOMAIN pairs : /\ pairs[n][1] \in DOMAIN native.codecs
                               /\ pairs[n][2] \in DOMAIN router.codecs
    /\ \A j \in DOMAIN recv.codecs : recv.codecs[j].pt # NoPt
    /\ \A kind \in Kinds : Len(built[kind]) \in 0 .. 2 /\ Len(answers[kind].codecs) \in 0 .. 2

\* What two codecs have to share, in the words of the documents: the profile of
\* an H264 codec has to be known.
Format(c) == <<c.kind, c.name, c.rate, c.channels,
               IF c.name = "h264" THEN <<c.par.mode, c.par.profile>>
               ELSE IF c.name = "vp9" THEN <<c.par.vp9>> ELSE << >> >>

Known(c) == c.name = "h264" => c.par.profile # NoProfile

\* The codecs as announced, before any loop wrote into them.  The router's
\* profile-id is not among them: the response's field map has no such field, so
\* a VP9 codec of any profile is taken for one of profile 0.
NativeCodec(j) == CompleteCodec(native.codecs[j])
RouterCodec(n) == [CompleteCodec(router.codecs[n]) EXCEPT !.par.vp9 = 0]

Compatible(n) == {j \in DOMAIN native.codecs :
                     /\ Format(NativeCodec(j)) = Format(RouterCodec(n))
                     /\ Known(NativeCodec(j))}

\* Entry n of the extended codecs has one H264 level for both sides, which the
\* native side can encode and, unless both allow asymmetry, the router announced.
OneLevel(n) ==
    LET a == NativeCodec(pairs[n][1])
        b == RouterCodec(pairs[n][2])
    IN  a.name = "h264" =>
            /\ codecs[n].localPar.level = codecs[n].remotePar.level
            /\ codecs[n].localPar.level <= a.par.level
            /\ \/ codecs[n].localPar.level <= b.par.level
               \/ a.par.asym = 1 /\ b.par.asym = 1

\* The matching loop writes the level it agreed on into the very documents the
\* next rounds compare, and may meet a native codec again.  Whatever it wrote,
\* the extended codecs are the router's media codecs that have a compatible
\* native codec in the documents as announced, each once, in the router's order,
\* with the first such native codec and a level both sides can use
\* (getExtendedRtpCapabilities, matchCodecs with modify).
MatchedAsAnnounced ==
    pc \notin {"load", "codecs", "threw"} =>
        /\ \A n \in 1 .. Len(pairs) - 1 : pairs[n][2] < pairs[n + 1][2]
        /\ {pairs[n][2] : n \in DOMAIN pairs} =
               {n \in DOMAIN router.codecs : ~IsRtx(router.codecs[n]) /\ Compatible(n) # {}}
        /\ \A n \in DOMAIN pairs :
               /\ pairs[n][1] = FirstOf(Compatible(pairs[n][2]))
               /\ codecs[n].localPt = native.codecs[pairs[n][1]].pt
               /\ codecs[n].remotePt = router.codecs[pairs[n][2]].pt
               /\ OneLevel(n)

\* The parts of what a produced kind needs; line is its m-line, own the built codecs.

\* Same codecs under the same payload types, all of them offered by libwebrtc.
SameCodecs(kind, line, own) ==
    /\ Len(line.codecs) = Len(own)
    /\ \A j \in DOMAIN own :
           /\ line.codecs[j].name = own[j].name /\ line.codecs[j].pt = own[j].pt
           /\ \E n \in DOMAIN native.codecs :
                  LET c == NativeCodec(n)
                  IN  /\ c.kind = kind /\ c.name = own[j].name /\ c.pt = own[j].pt
                      /\ IsRtx(c) => c.par.apt = own[j].par.apt

RtxFollows(cs) == \A j \in DOMAIN cs : IsRtx(cs[j]) => j > 1 /\ cs[j].par.apt = cs[j - 1].pt

\* The m-line asks for one bandwidth estimation at most, by an extension it has.
OneEstimator(line) ==
    LET uris   == {line.exts[j].uri : j \in DOMAIN line.exts}
        fbs(j) == {line.codecs[j].fb[i] : i \in DOMAIN line.codecs[j].fb}
    IN  \A j \in DOMAIN line.codecs :
            /\ ~ {"transport-cc", "goog-remb"} \subseteq fbs(j)
            /\ "transport-cc" \in fbs(j) => TransportCc \in uris
            /\ "goog-remb" \in fbs(j) => AbsSendTime \in uris

Decisive(c) == <<c.par.mode, c.par.profile, c.par.level, c.par.vp9>>

\* The parameters the server is told to receive and the m-line libwebrtc is told
\* the server answered come from two functions, of which only one stops at the
\* first codec.  For every kind that was produced they name the same codecs, that
\* libwebrtc offered, with the same H264 and VP9 settings, RTX follows the codec
\* it repairs in both, and the request sent still describes the codec built,
\* except for H264, whose settings its field map drops.  A wanted kind
\* is produced if can_produce_ says so, and only a kind that cannot be stops
\* publish (MediaControl::enable_audio and enable_video, AnswerMediaSection).
PublishAgrees ==
    /\ \A kind \in Kinds :
           LET own  == built[kind]
               line == answers[kind]
               sent == produced[kind]
           IN  own # << >> =>
                   /\ canProduce[kind]
                   /\ SameCodecs(kind, line, own)
                   /\ RtxFollows(line.codecs) /\ RtxFollows(sent)
                   /\ OneEstimator(line)
                   /\ Decisive(line.codecs[1]) = Decisive(own[1])
                   /\ own[1].name # "h264" => Decisive(sent[1]) = Decisive(own[1])
    /\ pc = "done" => /\ built["video"] # << >>
                      /\ withAudio => built["audio"] # << >>
    /\ pc = "threw" => \/ ~ValidCapabilities(Received) \/ ~ValidCapabilities(native)
                       \/ ~canProduce["video"]
                       \/ withAudio /\ ~canProduce["audio"]

\* getRecvRtpCapabilities adds an RTX codec ("// Add RTX codec.") for a codec
\* whose RTX both sides have, and names that codec in its apt: an RTX codec of
\* the join request names a codec of that request (JoinRequest::Parameters).
JoinCarriesRtx ==
    \A j \in DOMAIN joined :
        IsRtx(joined[j]) => \E i \in DOMAIN joined : /\ ~IsRtx(joined[i])
                                                     /\ joined[i].pt = joined[j].par.apt
=============================================================================
