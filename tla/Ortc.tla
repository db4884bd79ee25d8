-------------------------------- MODULE Ortc --------------------------------
(***************************************************************************)
(* The documents that describe codecs, and the functions over them:        *)
(* mssdk/sdputil/jsonvalidate.cpp, the codec part of MediaSection.cpp and  *)
(* the field maps of mssdk/mssignal/signaling_models.h.                    *)
(*                                                                         *)
(* A codec is one record in all documents (capabilities and parameters);   *)
(* "name" is the mime type after the slash, in lower case, and pt the      *)
(* payload type.  A parameter the getters have a default for is absent     *)
(* when it has that default.  A profile-level-id is split into profile and *)
(* level, and a feedback is its type and parameter together.  A header     *)
(* extension is its kind, uri, id and direction.                           *)
(***************************************************************************)
EXTENDS Integers, Sequences, FiniteSetsExt, SequencesExt

CONSTANT Texts      \* the values of a JSON string

\* The texts this code writes itself.
ASSUME TextsAssumption ==
    {"none", "rtx", "stereo", "sprop-stereo", "usedtx", "x-google-start-bitrate"} \subseteq Texts

Kinds      == {"audio", "video"}
Directions == {"sendrecv", "sendonly", "recvonly", "inactive"}
NoPt       == -1
NoChannels == 0
NoProfile  == "none"

NoPar == [apt |-> NoPt, mode |-> 0, profile |-> NoProfile, level |-> 0, asym |-> 0,
          vp9 |-> 0, opts |-> {}]

\* The element find_if finds in s, as an index, when Found is not empty.
FirstOf(Found) == Min(Found)

\* The elements of s that are in T, in their order: a loop that keeps some.
Keep(s, T) ==
    LET kept[n \in 0 .. Len(s)] ==
            IF n = 0 THEN << >>
            ELSE IF s[n] \in T THEN Append(kept[n - 1], s[n]) ELSE kept[n - 1]
    IN  kept[Len(s)]

\* A JSON array.
IsArray(s) == s \in Seq(Range(s))

Pars == [apt : Nat \cup {NoPt}, mode : Nat, profile : Texts, level : Nat, asym : Nat,
         vp9 : Nat, opts : SUBSET Texts]

\* A codec as it is announced, with or without its optional fields.  The settings
\* of H264 and of VP9 are on such codecs only.
IsCodec(c) ==
    /\ {"kind", "name", "pt"} \subseteq DOMAIN c
    /\ c.kind \in Texts /\ c.name \in Texts /\ c.pt \in Nat
    /\ "rate" \in DOMAIN c => c.rate \in Nat
    /\ "channels" \in DOMAIN c => c.channels \in Nat
    /\ "fb" \in DOMAIN c => c.fb \in Seq(Texts)
    /\ "par" \in DOMAIN c =>
          /\ c.par \in Pars
          /\ c.name # "h264" => c.par.mode = 0 /\ c.par.profile = NoProfile /\ c.par.level = 0
          /\ c.name # "vp9" => c.par.vp9 = 0

IsExt(e) ==
    /\ {"kind", "uri", "id"} \subseteq DOMAIN e
    /\ e.kind \in Texts /\ e.uri \in Texts /\ e.id \in Nat
    /\ "direction" \in DOMAIN e => e.direction \in Directions

IsDocument(d) ==
    /\ {"codecs", "exts"} \subseteq DOMAIN d
    /\ IsArray(d.codecs) /\ \A j \in DOMAIN d.codecs : IsCodec(d.codecs[j])
    /\ IsArray(d.exts) /\ \A j \in DOMAIN d.exts : IsExt(d.exts[j])

-----------------------------------------------------------------------------
\* Validation: a field that is missing gets its default.

Given(doc, field, default) == IF field \in DOMAIN doc THEN doc[field] ELSE default

\* validateRtpCodecCapability: what it throws on.
ValidCodec(c) == c.kind \in Kinds /\ "rate" \in DOMAIN c

\* ... and what they write: channels 1 for audio, none for video, empty parameters.
CompleteCodec(c) ==
    [kind |-> c.kind, name |-> c.name, pt |-> c.pt, rate |-> c.rate,
     channels |-> IF c.kind = "audio" THEN Given(c, "channels", 1) ELSE NoChannels,
     par |-> Given(c, "par", NoPar), fb |-> Given(c, "fb", << >>)]

ValidExt(e) == e.kind \in Kinds

CompleteExt(e) == [kind |-> e.kind, uri |-> e.uri, id |-> e.id,
                   direction |-> Given(e, "direction", "sendrecv")]

\* validateRtpParameters, with validateRtpCodecParameters the same as for a capability.
ValidParameters(params) == \A j \in DOMAIN params.codecs : ValidCodec(params.codecs[j])

\* validateRtpCapabilities.
ValidCapabilities(caps) == /\ \A j \in DOMAIN caps.codecs : ValidCodec(caps.codecs[j])
                           /\ \A j \in DOMAIN caps.exts : ValidExt(caps.exts[j])

CompleteCapabilities(caps) ==
    [codecs |-> [j \in DOMAIN caps.codecs |-> CompleteCodec(caps.codecs[j])],
     exts   |-> [j \in DOMAIN caps.exts |-> CompleteExt(caps.exts[j])]]

-----------------------------------------------------------------------------
\* The field maps: parameters a typed message keeps, of those it is built from.

RouterFields  == {"apt", "asym", "mode", "profile", "level", "x-google-start-bitrate"}
JoinFields    == {"asym", "mode", "profile", "level", "vp9", "x-google-start-bitrate",
                  "minptime", "useinbandfec"}
ProduceFields == {"apt", "sprop-stereo", "usedtx", "minptime", "useinbandfec"}

Kept(fields, par) ==
    [key \in DOMAIN NoPar |->
        IF key = "opts" THEN par.opts \cap fields
        ELSE IF key \in fields THEN par[key] ELSE NoPar[key]]

\* fromJsonString of a document into a message with these fields, and back.
Through(fields, codecs) ==
    [j \in DOMAIN codecs |->
        IF "par" \in DOMAIN codecs[j]
        THEN [codecs[j] EXCEPT !.par = Kept(fields, @)] ELSE codecs[j]]

-----------------------------------------------------------------------------
\* Matching.

IsRtx(c) == c.name = "rtx"

\* libwebrtc: H264IsSameProfile, false when one side has no profile-level-id.
SameProfile(a, b) == a.par.profile # NoProfile /\ a.par.profile = b.par.profile

\* libwebrtc: H264GenerateProfileLevelIdForAnswer, with a on the local side.
AnswerLevel(a, b) ==
    IF (a.par.asym = 1 /\ b.par.asym = 1) \/ a.par.level <= b.par.level
    THEN a.par.level ELSE b.par.level

\* Mutant: the packetization mode is not compared.
MatchCodecsAnyMode(a, b) ==
    /\ a.kind = b.kind /\ a.name = b.name
    /\ a.rate = b.rate
    /\ a.channels = b.channels
    /\ a.name = "h264" => SameProfile(a, b)
    /\ a.name = "vp9" => a.par.vp9 = b.par.vp9

\* matchCodecs with strict, up to its modifications.
MatchCodecs(a, b) ==
    /\ a.kind = b.kind /\ a.name = b.name
    /\ a.rate = b.rate
    /\ a.channels = b.channels
    /\ a.name = "h264" => a.par.mode = b.par.mode /\ SameProfile(a, b)
    /\ a.name = "vp9" => a.par.vp9 = b.par.vp9

\* What matchCodecs with modify writes into each of two matching codecs.
WithLevel(c, level) == IF c.name = "h264" THEN [c EXCEPT !.par.level = level] ELSE c

MatchHeaderExtensions(a, b) == a.kind = b.kind /\ a.uri = b.uri

reduceRtcpFeedback(a, b) == Keep(a.fb, Range(b.fb))

Flipped(direction) ==
    CASE direction = "recvonly" -> "sendonly"
      [] direction = "sendonly" -> "recvonly"
      [] OTHER -> direction

\* An entry of extendedRtpCapabilities["codecs"].
ExtendedCodec(a, b) ==
    [kind |-> a.kind, name |-> a.name, rate |-> a.rate, channels |-> a.channels,
     localPt |-> a.pt, localRtx |-> NoPt, remotePt |-> b.pt, remoteRtx |-> NoPt,
     localPar |-> a.par, remotePar |-> b.par, fb |-> reduceRtcpFeedback(a, b)]

-----------------------------------------------------------------------------
\* Documents made from the extended capabilities x.

MediaCodec(e, pt, par) ==
    [kind |-> e.kind, name |-> e.name, pt |-> pt, rate |-> e.rate,
     channels |-> e.channels, par |-> par, fb |-> e.fb]

RtxCodec(e, pt, apt) ==
    [kind |-> e.kind, name |-> "rtx", pt |-> pt, rate |-> e.rate,
     channels |-> NoChannels, par |-> [NoPar EXCEPT !.apt = apt], fb |-> << >>]

\* Mutant: an RTX is added whether or not there is one.
WithRtxAlways(e, pt, rtx, par) == << MediaCodec(e, pt, par), RtxCodec(e, rtx, pt) >>

\* A codec and, when both sides have it, its RTX.
WithRtx(e, pt, rtx, par) ==
    IF rtx = NoPt THEN << MediaCodec(e, pt, par) >>
    ELSE << MediaCodec(e, pt, par), RtxCodec(e, rtx, pt) >>

getRecvRtpCapabilities(x) ==
    [codecs |-> FlattenSeq([j \in DOMAIN x.codecs |->
                    LET e == x.codecs[j]
                    IN  WithRtx(e, e.remotePt, e.remoteRtx, e.localPar)]),
     exts   |-> Keep(x.exts, {e \in Range(x.exts) : e.direction \in {"sendrecv", "recvonly"}})]

OfKind(kind, x) == Keep(x.codecs, {e \in Range(x.codecs) : e.kind = kind})

SendingExts(kind, x) ==
    Keep(x.exts, {e \in Range(x.exts) : /\ e.kind = kind
                                        /\ e.direction \in {"sendrecv", "sendonly"}})

\* The loop ends with the first codec of the kind.
getSendingRtpParameters(kind, x) ==
    LET cs == OfKind(kind, x)
    IN  [codecs |-> IF cs = << >> THEN << >>
                    ELSE WithRtx(cs[1], cs[1].localPt, cs[1].localRtx, cs[1].localPar),
         exts   |-> SendingExts(kind, x)]

TransportCc == "transport-wide-cc-extensions-01"
AbsSendTime == "abs-send-time"

\* Mutant: without an extension, the feedback for REMB stays.
ErasedFeedbackKeepsRemb(exts) ==
    LET uris == {exts[j].uri : j \in DOMAIN exts}
    IN  IF TransportCc \in uris THEN {"goog-remb"} ELSE {"transport-cc"}

\* Transport-CC if available, REMB otherwise: the feedback that is erased.
ErasedFeedback(exts) ==
    LET uris == {exts[j].uri : j \in DOMAIN exts}
    IN  IF TransportCc \in uris THEN {"goog-remb"}
        ELSE IF AbsSendTime \in uris THEN {"transport-cc"}
        ELSE {"transport-cc", "goog-remb"}

getSendingRemoteRtpParameters(kind, x) ==
    LET cs     == OfKind(kind, x)
        erased == ErasedFeedback(SendingExts(kind, x))
        all    == FlattenSeq([j \in DOMAIN cs |->
                      WithRtx(cs[j], cs[j].localPt, cs[j].localRtx, cs[j].remotePar)])
    IN  [codecs |-> [j \in DOMAIN all |->
                        [all[j] EXCEPT !.fb = Keep(@, Range(@) \ erased)]],
         exts   |-> SendingExts(kind, x)]

\* codecs[0] of an empty array is a null, which is then stored.
NullCodec == [kind |-> "video", name |-> "null", pt |-> NoPt, rate |-> 0,
              channels |-> NoChannels, par |-> NoPar, fb |-> << >>]

\* reduceCodecs without a capability codec, as all its callers call it.
reduceCodecs(codecs) ==
    IF codecs = << >> THEN << NullCodec >>
    ELSE IF Len(codecs) > 1 /\ IsRtx(codecs[2]) THEN SubSeq(codecs, 1, 2)
    ELSE << codecs[1] >>

canSend(kind, x) == OfKind(kind, x) # << >>

-----------------------------------------------------------------------------
\* The codecs of an answering m-line (AnswerMediaSection), with the options
\* opusStereo, opusDtx and videoGoogleStartBitrate of MediaControl.

AnswerOptions(c) ==
    IF c.name = "opus" THEN {"stereo", "usedtx"}
    ELSE IF c.name \in {"vp8", "vp9", "h264", "h265"} THEN {"x-google-start-bitrate"}
    ELSE {}

\* Header extensions the offer does not have are not added.
AnswerLine(remoteParams, offered) ==
    [codecs |-> [j \in DOMAIN remoteParams.codecs |->
                    LET c == remoteParams.codecs[j]
                    IN  [c EXCEPT !.par.opts = @ \cup AnswerOptions(c)]],
     exts   |-> Keep(remoteParams.exts, {e \in Range(remoteParams.exts) : e.uri \in offered})]

\* What the constructor writes into the parameters of the offering side.
OfferOptions(params, line) ==
    [params EXCEPT !.codecs = [j \in DOMAIN params.codecs |->
        LET c == params.codecs[j]
        IN  IF \E i \in DOMAIN line.codecs : line.codecs[i].name = "opus" /\ line.codecs[i].pt = c.pt
            THEN [c EXCEPT !.par.opts = @ \cup {"sprop-stereo", "usedtx"}] ELSE c]]
=============================================================================
