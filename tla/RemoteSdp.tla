----------------------------- MODULE RemoteSdp ------------------------------
(***************************************************************************)
(* The remote session description the SDK builds for its peer connections: *)
(* mssdk/sdputil/RemoteSdp.cpp and the m-line lifecycle of                 *)
(* mssdk/sdputil/MediaSection.cpp.                                         *)
(*                                                                         *)
(* The same facts are kept four times and every operation updates the      *)
(* copies by hand: the vector mediaSections, the map midToIndex, the JSON  *)
(* document sdpObject["media"], and the BUNDLE line sdpObject["groups"].   *)
(* An m-line is abstracted to its mid, whether its port is 0, direction,   *)
(* setup and ICE parameters; codecs, candidates and ssrcs are left out.    *)
(***************************************************************************)
EXTENDS Integers, Sequences, FiniteSets

CONSTANTS Mids,         \* values of the mid attribute
          IceParams,    \* iceParameters the server can give
          MaxSections,  \* bound: number of m-lines
          MaxVersion    \* bound: number of GetSdp calls

NoMid   == ""           \* the empty std::string
NoIndex == -1           \* key absent from midToIndex
DataChannelMid == "datachannel"

ASSUME MidsAssumption     == NoMid \notin Mids /\ DataChannelMid \in Mids
ASSUME BoundsAssumption   == MaxSections \in Nat /\ MaxVersion \in Nat

Roles  == {"client", "server", "auto"}
Setups == {"active", "passive", "actpass"}
Kinds  == {"media", "application"}

\* A MediaSection and its mediaObject.
Section == [mid : Mids, closed : BOOLEAN,
            direction : {"recvonly", "sendonly", "inactive", "none"},
            setup : Setups, ice : IceParams]

VARIABLES
    side,           \* "send": answers to our offers; "recv": offers to us
    mediaSections,  \* std::vector<MediaSection*>
    midToIndex,     \* std::map<std::string, size_t>
    firstMid,
    sdpMedia,       \* sdpObject["media"]
    bundleMids,     \* sdpObject["groups"][0]["mids"]
    role,           \* dtlsParameters["role"]
    ice,            \* iceParameters
    version,        \* sdpObject["origin"]["sessionVersion"]
    usedMids,       \* ghost: every mid ever given to an m-line
    lateClose       \* ghost: a mid was closed after its m-line was recycled

vars == <<side, mediaSections, midToIndex, firstMid, sdpMedia, bundleMids,
          role, ice, version, usedMids, lateClose>>

Init == /\ side \in {"send", "recv"}
        /\ mediaSections = << >>
        /\ midToIndex = [m \in Mids |-> NoIndex]
        /\ firstMid = NoMid
        /\ sdpMedia = << >>
        /\ bundleMids = << >>
        /\ role \in Roles
        /\ ice \in IceParams
        /\ version = 0
        /\ usedMids = {} /\ lateClose = FALSE

-----------------------------------------------------------------------------
\* MediaSection, AnswerMediaSection and OfferMediaSection.

IsClosed(s) == s.closed

SetIceParameters(s, i) == [s EXCEPT !.ice = i]

Disable(s) == [s EXCEPT !.direction = "inactive"]

Close(s) == [s EXCEPT !.direction = "inactive", !.closed = TRUE]

\* Mutant: the role written into a=setup without conversion.
SetupOfVerbatim(r) == r

SetupOf(r) == CASE r = "client" -> "active"
                [] r = "server" -> "passive"
                [] r = "auto"   -> "actpass"

AnswerMediaSection(mid, kind) ==
    [mid |-> mid, closed |-> FALSE,
     direction |-> IF kind = "media" THEN "recvonly" ELSE "none",
     setup |-> SetupOf(role), ice |-> ice]

OfferMediaSection(mid, kind) ==
    [mid |-> mid, closed |-> FALSE,
     direction |-> IF kind = "media" THEN "sendonly" ELSE "none",
     setup |-> "actpass", ice |-> ice]

SetDtlsRole(s, r) ==
    [s EXCEPT !.setup = IF side = "send" THEN SetupOf(r) ELSE "actpass"]

-----------------------------------------------------------------------------
\* Helpers of RemoteSdp.

\* What RegenerateBundleMids reads of the m-lines.
Lines(s) == [k \in DOMAIN s |-> [mid |-> s[k].mid, closed |-> s[k].closed]]

\* RegenerateBundleMids: the mids of the m-lines that are not closed, in order.
OpenMids(lines) ==
    LET mids[n \in 0..Len(lines)] ==
            IF n = 0 THEN << >>
            ELSE IF lines[n].closed THEN mids[n - 1] ELSE Append(mids[n - 1], lines[n].mid)
    IN  mids[Len(lines)]

RegenerateBundleMids == bundleMids' = OpenMids(Lines(mediaSections'))

ClosedAt == {k \in DOMAIN mediaSections : IsClosed(mediaSections[k])}

\* GetNextMediaSectionIdx: the first closed m-line and its mid, or the next index.
GetNextMediaSectionIdx ==
    IF ClosedAt = {}
    THEN [idx |-> Len(mediaSections), reuseMid |-> NoMid]
    ELSE LET k == CHOOSE k \in ClosedAt : \A j \in ClosedAt : k <= j
         IN  [idx |-> k - 1, reuseMid |-> mediaSections[k].mid]

\* midToIndex[mid]: operator[] of std::map inserts 0 for an absent key.
IndexOf(mid) == IF midToIndex[mid] = NoIndex THEN 0 ELSE midToIndex[mid]
Touch(mid)   == [midToIndex EXCEPT ![mid] = IndexOf(mid)]

LiveMids == {mediaSections[k].mid : k \in DOMAIN mediaSections}

AddMediaSection(new) ==
    /\ Len(mediaSections) < MaxSections
    /\ firstMid' = IF firstMid = NoMid THEN new.mid ELSE firstMid
    /\ mediaSections' = Append(mediaSections, new)
    /\ midToIndex' = [midToIndex EXCEPT ![new.mid] = Len(mediaSections)]
    /\ sdpMedia' = Append(sdpMedia, new)
    /\ RegenerateBundleMids

\* Mutant: the new mid is not entered in the map.
ReplaceMediaSectionNoIndex(new, reuseMid) ==
    LET idx == IndexOf(reuseMid)
        old == mediaSections[idx + 1]
    IN  /\ mediaSections' = [mediaSections EXCEPT ![idx + 1] = new]
        /\ midToIndex' = [Touch(reuseMid) EXCEPT ![old.mid] = NoIndex]
        /\ sdpMedia' = [sdpMedia EXCEPT ![idx + 1] = new]
        /\ RegenerateBundleMids
        /\ UNCHANGED firstMid

\* Mutant: the last m-line is replaced, whichever is recycled.
ReplaceMediaSectionLast(new, reuseMid) ==
    LET idx == Len(mediaSections) - 1
        old == mediaSections[idx + 1]
    IN  /\ mediaSections' = [mediaSections EXCEPT ![idx + 1] = new]
        /\ midToIndex' = [Touch(reuseMid) EXCEPT ![old.mid] = NoIndex, ![new.mid] = idx]
        /\ sdpMedia' = [sdpMedia EXCEPT ![idx + 1] = new]
        /\ RegenerateBundleMids
        /\ UNCHANGED firstMid

\* ReplaceMediaSection: both callers pass the mid of a closed m-line.
ReplaceMediaSection(new, reuseMid) ==
    LET idx == IndexOf(reuseMid)
        old == mediaSections[idx + 1]
    IN  /\ mediaSections' = [mediaSections EXCEPT ![idx + 1] = new]
        /\ midToIndex' = [Touch(reuseMid) EXCEPT ![old.mid] = NoIndex, ![new.mid] = idx]
        /\ sdpMedia' = [sdpMedia EXCEPT ![idx + 1] = new]
        /\ RegenerateBundleMids
        /\ UNCHANGED firstMid

\* The branch Send and Receive share: recycle a closed m-line or add one.
ReuseOrAdd(new, reuseMid) ==
    \/ reuseMid # NoMid /\ ReplaceMediaSection(new, reuseMid)
    \/ reuseMid = NoMid /\ AddMediaSection(new)

\* The mids WebRTC or the server gives a new m-line: not those of another one.
FreshFor(mid, reuseMid) == mid \notin LiveMids \/ mid = reuseMid

-----------------------------------------------------------------------------
\* The operations.

\* The whole of RemoteSdp::Send, for an m-line of the offer with this mid.
SendLine(mid, reuseMid) ==
    /\ ReuseOrAdd(AnswerMediaSection(mid, "media"), reuseMid)
    /\ usedMids' = usedMids \cup {mid}
    /\ UNCHANGED <<side, role, ice, version, lateClose>>

\* Send as a caller uses it: the reuseMid of GetNextMediaSectionIdx and a new mid.
Send(mid) ==
    LET reuseMid == GetNextMediaSectionIdx.reuseMid
    IN  /\ side = "send"
        /\ FreshFor(mid, reuseMid)
        /\ SendLine(mid, reuseMid)

SendSctpAssociation(mid) ==
    /\ side = "send"
    /\ mid \notin LiveMids
    /\ AddMediaSection(AnswerMediaSection(mid, "application"))
    /\ usedMids' = usedMids \cup {mid}
    /\ UNCHANGED <<side, role, ice, version, lateClose>>

RecvSctpAssociation ==
    /\ side = "recv"
    /\ DataChannelMid \notin LiveMids
    /\ AddMediaSection(OfferMediaSection(DataChannelMid, "application"))
    /\ usedMids' = usedMids \cup {DataChannelMid}
    /\ UNCHANGED <<side, role, ice, version, lateClose>>

\* find_if(IsClosed) is the search of GetNextMediaSectionIdx again.
Receive(mid) ==
    LET reuseMid == GetNextMediaSectionIdx.reuseMid
    IN  /\ side = "recv"
        /\ FreshFor(mid, reuseMid)
        /\ ReuseOrAdd(OfferMediaSection(mid, "media"), reuseMid)
        /\ usedMids' = usedMids \cup {mid}
        /\ UNCHANGED <<side, role, ice, version, lateClose>>

UpdateIceParameters(i) ==
    /\ ice' = i
    /\ mediaSections' = [k \in DOMAIN mediaSections |-> SetIceParameters(mediaSections[k], i)]
    /\ sdpMedia' = mediaSections'
    /\ UNCHANGED <<side, midToIndex, firstMid, bundleMids, role, version, usedMids, lateClose>>

\* Mutant: the role is applied to the m-lines but not stored for later ones.
UpdateDtlsRoleNotStored(r) ==
    /\ mediaSections' = [k \in DOMAIN mediaSections |-> SetDtlsRole(mediaSections[k], r)]
    /\ sdpMedia' = mediaSections'
    /\ UNCHANGED <<side, midToIndex, firstMid, bundleMids, role, ice, version, usedMids, lateClose>>

UpdateDtlsRole(r) ==
    /\ role' = r
    /\ mediaSections' = [k \in DOMAIN mediaSections |-> SetDtlsRole(mediaSections[k], r)]
    /\ sdpMedia' = mediaSections'
    /\ UNCHANGED <<side, midToIndex, firstMid, bundleMids, ice, version, usedMids, lateClose>>

\* The mids an application may close: any it ever saw, also a second time, when
\* the m-line has been recycled.
Closable(mid) == mid \in usedMids

RecordClose(mid) == lateClose' = (lateClose \/ mid \notin LiveMids)

\* DisableMediaSection leaves sdpObject as it was.
DisableMediaSection(mid) ==
    /\ Closable(mid)
    /\ midToIndex' = Touch(mid)
    /\ mediaSections' = [mediaSections EXCEPT ![IndexOf(mid) + 1] = Disable(@)]
    /\ UNCHANGED <<side, firstMid, sdpMedia, bundleMids, role, ice, version, usedMids, lateClose>>

\* Mutant: no exception for the first m-line.
CloseMediaSectionAlways(mid) ==
    /\ Closable(mid) /\ RecordClose(mid)
    /\ midToIndex' = Touch(mid)
    /\ LET k == IndexOf(mid) + 1
       IN  /\ mediaSections' = [mediaSections EXCEPT ![k] = Close(@)]
           /\ sdpMedia' = [sdpMedia EXCEPT ![k] = Close(mediaSections[k])]
    /\ RegenerateBundleMids
    /\ UNCHANGED <<side, firstMid, role, ice, version, usedMids>>

\* Mutant: the BUNDLE line is not regenerated.
CloseMediaSectionNoBundle(mid) ==
    /\ Closable(mid) /\ RecordClose(mid)
    /\ midToIndex' = Touch(mid)
    /\ LET k   == IndexOf(mid) + 1
           new == IF mid = firstMid THEN Disable(mediaSections[k]) ELSE Close(mediaSections[k])
       IN  /\ mediaSections' = [mediaSections EXCEPT ![k] = new]
           /\ sdpMedia' = [sdpMedia EXCEPT ![k] = new]
    /\ UNCHANGED <<side, firstMid, bundleMids, role, ice, version, usedMids>>

CloseMediaSection(mid) ==
    /\ Closable(mid) /\ RecordClose(mid)
    /\ midToIndex' = Touch(mid)
    /\ LET k   == IndexOf(mid) + 1
           new == IF mid = firstMid THEN Disable(mediaSections[k]) ELSE Close(mediaSections[k])
       IN  /\ mediaSections' = [mediaSections EXCEPT ![k] = new]
           /\ sdpMedia' = [sdpMedia EXCEPT ![k] = new]
    /\ RegenerateBundleMids
    /\ UNCHANGED <<side, firstMid, role, ice, version, usedMids>>

GetSdp ==
    /\ version < MaxVersion
    /\ version' = version + 1
    /\ UNCHANGED <<side, mediaSections, midToIndex, firstMid, sdpMedia, bundleMids,
                   role, ice, usedMids, lateClose>>

-----------------------------------------------------------------------------

Next == \/ \E m \in Mids : \/ Send(m) \/ SendSctpAssociation(m) \/ Receive(m)
                           \/ DisableMediaSection(m) \/ CloseMediaSection(m)
        \/ RecvSctpAssociation
        \/ \E i \in IceParams : UpdateIceParameters(i)
        \/ \E r \in Roles : UpdateDtlsRole(r)
        \/ GetSdp

Spec == Init /\ [][Next]_vars

-----------------------------------------------------------------------------

TypeOK == /\ side \in {"send", "recv"}
          /\ mediaSections \in Seq(Section) /\ sdpMedia \in Seq(Section)
          /\ midToIndex \in [Mids -> Nat \cup {NoIndex}]
          /\ firstMid \in Mids \cup {NoMid}
          /\ role \in Roles /\ ice \in IceParams
          /\ version \in 0..MaxVersion
          /\ usedMids \subseteq Mids /\ lateClose \in BOOLEAN

(***************************************************************************)
(* midToIndex finds every m-line: the index stored for the mid of an       *)
(* m-line is its position in the vector, across additions, recycling and   *)
(* late closes, so no operation on a mid in use touches another m-line.    *)
(***************************************************************************)
IndexFindsSection ==
    \A k \in DOMAIN mediaSections : midToIndex[mediaSections[k].mid] = k - 1

\* The m-lines of the document are those of the vector, in the same order, with
\* the same port, setup and ICE parameters.  Only the direction may lag, and only
\* behind DisableMediaSection.
DocumentMirrors ==
    /\ Len(sdpMedia) = Len(mediaSections)
    /\ \A k \in DOMAIN mediaSections :
          \/ sdpMedia[k] = mediaSections[k]
          \/ Disable(sdpMedia[k]) = mediaSections[k]

\* The BUNDLE group lists the mids of the m-lines whose port is not 0, in order.
BundleIsOpenLines == bundleMids = OpenMids(Lines(sdpMedia))

(***************************************************************************)
(* The document handed to the peer connection agrees with the vector, and  *)
(* its BUNDLE line with its m-lines, though every operation updates each   *)
(* of the three by hand.                                                   *)
(***************************************************************************)
DocumentAgrees == DocumentMirrors /\ BundleIsOpenLines

(***************************************************************************)
(* One transport: every m-line, whenever it was created, recycled or       *)
(* closed, carries the current ICE parameters and the a=setup of the       *)
(* current DTLS role; an offer always says actpass.                        *)
(***************************************************************************)
OneTransport ==
    \A k \in DOMAIN sdpMedia :
        /\ sdpMedia[k].ice = ice
        /\ sdpMedia[k].setup = IF side = "send" THEN SetupOf(role) ELSE "actpass"

(***************************************************************************)
(* The first m-line, which carries the bundled transport, is not closed    *)
(* (CloseMediaSection only disables it), unless some mid was closed again  *)
(* after its m-line had been recycled: midToIndex[mid] is then 0.          *)
(***************************************************************************)
FirstSectionOpen == mediaSections # << >> /\ ~lateClose => ~IsClosed(mediaSections[1])

(***************************************************************************)
(* The first m-line is never closed, as the comment in CloseMediaSection   *)
(* intends ("let's avoid it").                                             *)
(***************************************************************************)
FirstSectionNeverClosed == mediaSections # << >> => ~IsClosed(mediaSections[1])

\* What a step may do to the positions and mids of the m-lines.
PositionsStep ==
    /\ Len(mediaSections') >= Len(mediaSections)
    /\ \A k \in DOMAIN mediaSections :
          mediaSections'[k].mid # mediaSections[k].mid
              => IsClosed(mediaSections[k]) /\ k = GetNextMediaSectionIdx.idx + 1

(***************************************************************************)
(* m-lines keep their position and their mid: a step never removes one,    *)
(* and gives one another mid only when it was closed and was the one       *)
(* GetNextMediaSectionIdx announces.                                       *)
(***************************************************************************)
PositionsStable == [][PositionsStep]_vars
=============================================================================
