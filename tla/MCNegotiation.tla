--------------------------- MODULE MCNegotiation ---------------------------
(***************************************************************************)
(* Documents for Negotiation.  The names are those of real codecs; the     *)
(* native side numbers its payload types as libwebrtc does (96 ...), the   *)
(* router from 100, so that a number means different codecs on two sides.  *)
(***************************************************************************)
EXTENDS Negotiation

MCTexts == STRING

Fbs == <<"nack", "transport-cc", "goog-remb">>

Audio(pt) == [kind |-> "audio", name |-> "opus", pt |-> pt, rate |-> 48, channels |-> 2,
              par |-> [NoPar EXCEPT !.opts = {"minptime", "useinbandfec"}],
              fb |-> <<"transport-cc">>]

Video(name, pt, par) ==
    [kind |-> "video", name |-> name, pt |-> pt, rate |-> 90, par |-> par, fb |-> Fbs]

H264(mode, profile, level, asym) ==
    [NoPar EXCEPT !.mode = mode, !.profile = profile, !.level = level, !.asym = asym]

Vp9(id) == [NoPar EXCEPT !.vp9 = id]

Rtx(c) == [kind |-> c.kind, name |-> "rtx", pt |-> c.pt + 1, rate |-> c.rate,
           par |-> [NoPar EXCEPT !.apt = c.pt]]

\* The codecs of a document, each video codec followed by its RTX when rtx.
Document(media, rtx) ==
    FlattenSeq([j \in DOMAIN media |->
        IF rtx /\ media[j].kind = "video" THEN <<media[j], Rtx(media[j])>> ELSE <<media[j]>>])

NativePool == <<Audio(90), Video("vp8", 96, NoPar), Video("vp9", 98, Vp9(0)),
                Video("vp9", 100, Vp9(2)), Video("h264", 102, H264(1, "cb", 31, 1)),
                Video("h264", 104, H264(0, "cb", 31, 1))>>

RouterPool == {Audio(100), Video("vp8", 101, NoPar), Video("vp9", 103, Vp9(2)),
               Video("h264", 105, H264(1, "cb", 30, 0)),
               Video("h264", 107, H264(1, "cb", 42, 1)),
               Video("h264", 109, H264(1, "high", 31, 1))}

\* Native media: a part of the pool in order of payload type (extractRtpCapabilities
\* keeps a std::map); router media: an order of at most n of its pool.
NativeMedia  == {SelectSeq(NativePool, LAMBDA c : c \in part) : part \in SUBSET Range(NativePool)}
Orders(n)    == UNION {{s \in [1 .. m -> RouterPool] : IsInjective(s)} : m \in 0 .. n}

Ext(uri, id, kind) == [kind |-> kind, uri |-> uri, id |-> id]
Exts(kind) == <<Ext(TransportCc, 3, kind), Ext(AbsSendTime, 2, kind)>>
Caps(cs, es) == [codecs |-> cs, exts |-> es]

BothExts == Exts("audio") \o Exts("video")

\* 1. Codecs against codecs: all native parts against two router codecs, the
\*    whole native pool against three, with RTX on both, one or no side.
CodecInputs ==
    {<<Caps(Document(nm, TRUE), BothExts), Caps(Document(rm, TRUE), BothExts)>> :
        nm \in NativeMedia, rm \in Orders(2)}
    \cup
    {<<Caps(Document(NativePool, nr), BothExts), Caps(Document(rm, rr), BothExts)>> :
        rm \in Orders(3), nr, rr \in BOOLEAN}

\* 2. Extensions against extensions, in every direction or none given.
Directed(e, d) == IF d = "none" THEN << >>
                  ELSE IF d = "default" THEN <<e>> ELSE <<e @@ [direction |-> d]>>
ExtInputs ==
    LET native2 == <<Audio(90), Video("vp8", 96, NoPar)>>
        router2 == <<Audio(100), Video("vp8", 101, NoPar)>>
        dirs    == Directions \cup {"default", "none"}
    IN  {<<Caps(native2, SelectSeq(BothExts, LAMBDA e : e.uri \in uris)),
           Caps(router2, Directed(Exts("video")[1], d1) \o Directed(Exts("video")[2], d2)
                         \o Directed(Exts("audio")[1], d1))>> :
             uris \in SUBSET {TransportCc, AbsSendTime}, d1, d2 \in dirs}

\* 3. Documents with a field left out, or one too many.
Without(c, field) == [key \in DOMAIN c \ {field} |-> c[key]]
Variants(c) == {c} \cup {Without(c, field) : field \in {"rate", "channels", "par", "fb"}}
               \cup {c @@ [channels |-> 1], [c EXCEPT !.kind = "text"]}
FieldInputs ==
    {<<Caps(<<a, v>>, BothExts), Caps(<<b, w>>, BothExts)>> :
        a \in Variants(Audio(90)), v \in Variants(Video("vp8", 96, NoPar)),
        b \in {Audio(100), Without(Audio(100), "channels")},
        w \in Variants(Video("vp8", 101, NoPar))}

MCInputs == CodecInputs \cup ExtInputs \cup FieldInputs
=============================================================================
