-------------------------- MODULE RemoteSdp_proofs --------------------------
(***************************************************************************)
(* The copies RemoteSdp keeps of its m-lines agree, for any set of mids    *)
(* and any number of m-lines, and the first m-line stays open.             *)
(***************************************************************************)
EXTENDS RemoteSdp, WellFoundedInduction, TLAPS

SetupNow == IF side = "send" THEN SetupOf(role) ELSE "actpass"

\* Every entry of the map is an index of the vector, also the zeros operator[]
\* leaves behind for a mid that was recycled.
IndexInRange == \A m \in Mids : midToIndex[m] \in 0..(Len(mediaSections) - 1) \cup {NoIndex}

\* A mid was used only if there is an m-line to stand for it.
UsedHasLine == usedMids # {} => mediaSections # << >>

SectionsTransport == \A k \in DOMAIN mediaSections :
                        mediaSections[k].ice = ice /\ mediaSections[k].setup = SetupNow

BundleKept == bundleMids = OpenMids(Lines(mediaSections))

\* Before any late close firstMid is the mid of the first m-line for good.
FirstKept == IF mediaSections = << >> THEN firstMid = NoMid
             ELSE ~lateClose => firstMid = mediaSections[1].mid /\ ~IsClosed(mediaSections[1])

SdpInv == /\ TypeOK
          /\ IndexFindsSection
          /\ IndexInRange
          /\ UsedHasLine
          /\ DocumentMirrors
          /\ BundleKept
          /\ SectionsTransport
          /\ OneTransport
          /\ FirstKept

-----------------------------------------------------------------------------
\* Operators.

LEMMA SetupType == \A r \in Roles : SetupOf(r) \in Setups
BY DEF Roles, Setups, SetupOf

LEMMA SetupNowType == TypeOK => SetupNow \in Setups
BY SetupType DEF TypeOK, SetupNow, Setups

\* What the edits of one m-line keep.
LEMMA EditType ==
    ASSUME NEW x \in Section
    PROVE  /\ Disable(x) \in Section /\ Close(x) \in Section
           /\ Disable(x).mid = x.mid /\ Close(x).mid = x.mid
           /\ Disable(x).closed = x.closed
           /\ Disable(x).ice = x.ice /\ Close(x).ice = x.ice
           /\ Disable(x).setup = x.setup /\ Close(x).setup = x.setup
           /\ Disable(Disable(x)) = Disable(x)
BY DEF Disable, Close, Section

LEMMA NewSectionType ==
    ASSUME TypeOK, NEW mid \in Mids, NEW kind
    PROVE  /\ AnswerMediaSection(mid, kind) \in Section
           /\ OfferMediaSection(mid, kind) \in Section
           /\ AnswerMediaSection(mid, kind).mid = mid
           /\ OfferMediaSection(mid, kind).mid = mid
           /\ ~AnswerMediaSection(mid, kind).closed
           /\ ~OfferMediaSection(mid, kind).closed
           /\ AnswerMediaSection(mid, kind).ice = ice
           /\ OfferMediaSection(mid, kind).ice = ice
           /\ AnswerMediaSection(mid, kind).setup = SetupOf(role)
           /\ OfferMediaSection(mid, kind).setup = "actpass"
BY SetupType DEF AnswerMediaSection, OfferMediaSection, Section, TypeOK, Setups

\* A non-empty set of positions has a least one.
LEMMA LeastPosition ==
    ASSUME NEW S \in SUBSET Nat, S # {}
    PROVE  \E k \in S : \A j \in S : k <= j
<1>1. \E x \in S : \A y \in S : ~(<<y, x>> \in OpToRel(<, Nat))
  BY WFMin, NatLessThanWellFounded
<1>2. PICK x \in S : \A y \in S : ~(<<y, x>> \in OpToRel(<, Nat))
  BY <1>1
<1>3. \A y \in S : y < x => <<y, x>> \in OpToRel(<, Nat)
  BY DEF OpToRel
<1>4. \A y \in S : ~(y < x)
  BY <1>2, <1>3, Zenon
<1>5. x \in Nat /\ \A y \in S : y \in Nat
  OBVIOUS
<1>6. \A y \in S : x <= y
  BY <1>4, <1>5
<1> QED BY <1>6

\* The elements of the vector.
LEMMA SectionAt ==
    ASSUME TypeOK, NEW k \in DOMAIN mediaSections
    PROVE  mediaSections[k] \in Section /\ mediaSections[k].mid \in Mids
<1>1. mediaSections[k] \in Section
  BY DEF TypeOK
<1> QED BY <1>1 DEF Section

\* GetNextMediaSectionIdx announces a closed m-line or the end of the vector.
LEMMA NextIdx ==
    ASSUME TypeOK
    PROVE  \/ /\ ClosedAt = {}
              /\ GetNextMediaSectionIdx.reuseMid = NoMid
           \/ \E k \in DOMAIN mediaSections :
                 /\ IsClosed(mediaSections[k])
                 /\ GetNextMediaSectionIdx.reuseMid = mediaSections[k].mid
                 /\ GetNextMediaSectionIdx.idx = k - 1
<1>1. CASE ClosedAt = {}
  BY <1>1 DEF GetNextMediaSectionIdx
<1>2. CASE ClosedAt # {}
  <2>1. ClosedAt \in SUBSET Nat
    BY DEF ClosedAt, TypeOK
  <2>2. \E k \in ClosedAt : \A j \in ClosedAt : k <= j
    BY <1>2, <2>1, LeastPosition
  <2> DEFINE f == CHOOSE k \in ClosedAt : \A j \in ClosedAt : k <= j
  <2>3. f \in ClosedAt
    BY <2>2
  <2>4. GetNextMediaSectionIdx.reuseMid = mediaSections[f].mid /\ GetNextMediaSectionIdx.idx = f - 1
    BY <1>2 DEF GetNextMediaSectionIdx
  <2> HIDE DEF f
  <2> QED BY <2>3, <2>4 DEF ClosedAt
<1> QED BY <1>1, <1>2

\* A mid of an m-line is found at its position, and nowhere else.
LEMMA Lookup ==
    ASSUME TypeOK, IndexFindsSection, NEW k \in DOMAIN mediaSections
    PROVE  /\ IndexOf(mediaSections[k].mid) = k - 1
           /\ mediaSections[k] \in Section /\ mediaSections[k].mid \in Mids
           /\ k \in 1..Len(mediaSections)
           /\ \A j \in DOMAIN mediaSections : mediaSections[j].mid = mediaSections[k].mid => j = k
<1>1. /\ mediaSections[k] \in Section /\ mediaSections[k].mid \in Mids
      /\ DOMAIN mediaSections = 1..Len(mediaSections)
  BY SectionAt DEF TypeOK
<1>2. IndexOf(mediaSections[k].mid) = k - 1
  BY <1>1 DEF IndexFindsSection, IndexOf, NoIndex
<1>3. \A j \in DOMAIN mediaSections : mediaSections[j].mid = mediaSections[k].mid => j = k
  BY <1>1 DEF IndexFindsSection
<1> QED BY <1>1, <1>2, <1>3

-----------------------------------------------------------------------------
\* The two ways an m-line enters the description.

Fits(new) == /\ new \in Section /\ ~new.closed
             /\ new.ice = ice /\ new.setup = SetupNow

LEMMA AddStep ==
    ASSUME SdpInv, NEW new, Fits(new), new.mid \notin LiveMids,
           AddMediaSection(new), usedMids' = usedMids \cup {new.mid},
           UNCHANGED <<side, role, ice, version, lateClose>>
    PROVE  SdpInv'
<1> USE DEF SdpInv
<1> DEFINE n == Len(mediaSections)
<1>0. /\ n \in Nat /\ DOMAIN mediaSections = 1..n /\ new.mid \in Mids
      /\ new \in Section
      /\ Len(sdpMedia) = n /\ DOMAIN sdpMedia = 1..n
  BY DEF TypeOK, Fits, Section, DocumentMirrors
<1>1. /\ mediaSections' = Append(mediaSections, new) /\ mediaSections' \in Seq(Section)
      /\ Len(mediaSections') = n + 1 /\ DOMAIN mediaSections' = 1..(n + 1)
      /\ mediaSections'[n + 1] = new
      /\ \A k \in 1..n : mediaSections'[k] = mediaSections[k]
  BY <1>0 DEF AddMediaSection, TypeOK
<1>2. /\ sdpMedia' = Append(sdpMedia, new) /\ sdpMedia' \in Seq(Section)
      /\ Len(sdpMedia') = n + 1 /\ DOMAIN sdpMedia' = 1..(n + 1)
      /\ sdpMedia'[n + 1] = new
      /\ \A k \in 1..n : sdpMedia'[k] = sdpMedia[k]
  BY <1>0 DEF AddMediaSection, TypeOK
<1>3. midToIndex' = [midToIndex EXCEPT ![new.mid] = n]
  BY DEF AddMediaSection
<1>4. firstMid' = IF firstMid = NoMid THEN new.mid ELSE firstMid
  BY DEF AddMediaSection
<1> HIDE DEF n
<1>5. TypeOK'
  BY <1>0, <1>1, <1>2, <1>3, <1>4 DEF TypeOK
<1>6. IndexFindsSection'
  <2> SUFFICES ASSUME NEW k \in 1..(n + 1) PROVE midToIndex'[mediaSections'[k].mid] = k - 1
    BY <1>1 DEF IndexFindsSection
  <2>1. CASE k = n + 1
    BY <1>0, <1>1, <1>3, <2>1 DEF TypeOK
  <2>2. CASE k \in 1..n
    <3>1. mediaSections[k].mid # new.mid /\ mediaSections[k].mid \in Mids
      BY <1>0, <2>2, SectionAt DEF LiveMids
    <3> QED BY <1>0, <1>1, <1>3, <2>2, <3>1 DEF IndexFindsSection, TypeOK
  <2> QED BY <1>0, <2>1, <2>2
<1>7. IndexInRange'
  BY <1>0, <1>1, <1>3 DEF IndexInRange, TypeOK, n
<1>8. UsedHasLine'
  BY <1>0, <1>1 DEF UsedHasLine
<1>9. DocumentMirrors'
  BY <1>0, <1>1, <1>2 DEF DocumentMirrors
<1>10. BundleKept'
  BY DEF AddMediaSection, RegenerateBundleMids, BundleKept
<1>11. SectionsTransport' /\ OneTransport'
  BY <1>0, <1>1, <1>2 DEF SectionsTransport, OneTransport, SetupNow, Fits
<1>12. FirstKept'
  <2>1. CASE n = 0
    BY <1>0, <1>1, <1>4, <2>1 DEF FirstKept, IsClosed, Fits, n
  <2>2. CASE n > 0
    <3>1. /\ mediaSections # << >> /\ mediaSections' # << >> /\ mediaSections'[1] = mediaSections[1]
          /\ mediaSections[1].mid \in Mids
      BY <1>0, <1>1, <2>2, SectionAt DEF n
    <3>2. ~lateClose => firstMid # NoMid
      BY <3>1, MidsAssumption DEF FirstKept
    <3> QED BY <1>4, <3>1, <3>2 DEF FirstKept, IsClosed
  <2> QED BY <1>0, <2>1, <2>2
<1> QED BY <1>5, <1>6, <1>7, <1>8, <1>9, <1>10, <1>11, <1>12

LEMMA ReplaceStep ==
    ASSUME SdpInv, NEW new, Fits(new), NEW r \in DOMAIN mediaSections,
           IsClosed(mediaSections[r]),
           new.mid \notin LiveMids \/ new.mid = mediaSections[r].mid,
           ReplaceMediaSection(new, mediaSections[r].mid),
           usedMids' = usedMids \cup {new.mid},
           UNCHANGED <<side, role, ice, version, lateClose>>
    PROVE  SdpInv'
<1> USE DEF SdpInv
<1> DEFINE n == Len(mediaSections)
           old == mediaSections[r].mid
<1>0. /\ n \in Nat /\ DOMAIN mediaSections = 1..n /\ r \in 1..n
      /\ new.mid \in Mids /\ old \in Mids /\ new \in Section
      /\ Len(sdpMedia) = n /\ DOMAIN sdpMedia = 1..n
  BY Lookup DEF TypeOK, Fits, Section, DocumentMirrors
<1>a. IndexOf(old) = r - 1 /\ IndexOf(old) + 1 = r
  BY <1>0, Lookup
<1>b. Touch(old) = [midToIndex EXCEPT ![old] = r - 1]
  BY <1>a DEF Touch
<1>1. /\ mediaSections' = [mediaSections EXCEPT ![r] = new] /\ mediaSections' \in Seq(Section)
      /\ Len(mediaSections') = n /\ DOMAIN mediaSections' = 1..n
      /\ mediaSections'[r] = new
      /\ \A k \in 1..n : k # r => mediaSections'[k] = mediaSections[k]
  <2>1. mediaSections' = [mediaSections EXCEPT ![r] = new]
    BY <1>a DEF ReplaceMediaSection
  <2> QED BY <1>0, <2>1 DEF TypeOK
<1>2. /\ sdpMedia' = [sdpMedia EXCEPT ![r] = new] /\ sdpMedia' \in Seq(Section)
      /\ Len(sdpMedia') = n /\ DOMAIN sdpMedia' = 1..n
      /\ sdpMedia'[r] = new
      /\ \A k \in 1..n : k # r => sdpMedia'[k] = sdpMedia[k]
  <2>1. sdpMedia' = [sdpMedia EXCEPT ![r] = new]
    BY <1>a DEF ReplaceMediaSection
  <2> QED BY <1>0, <2>1 DEF TypeOK
<1>3. midToIndex' = [[midToIndex EXCEPT ![old] = r - 1] EXCEPT ![old] = NoIndex, ![new.mid] = r - 1]
  BY <1>a, <1>b DEF ReplaceMediaSection
<1>4. firstMid' = firstMid
  BY DEF ReplaceMediaSection
<1>c. \A m \in Mids : midToIndex'[m] = IF m = new.mid THEN r - 1
                                       ELSE IF m = old THEN NoIndex ELSE midToIndex[m]
  BY <1>0, <1>3 DEF TypeOK
<1>d. \A k \in 1..n : k # r => /\ mediaSections[k].mid \in Mids
                               /\ mediaSections[k].mid # old /\ mediaSections[k].mid # new.mid
  BY <1>0, Lookup DEF LiveMids
<1>5. TypeOK'
  <2>1. midToIndex' \in [Mids -> Nat \cup {NoIndex}]
    <3>1. midToIndex \in [Mids -> Nat \cup {NoIndex}] /\ r - 1 \in Nat
      BY <1>0 DEF TypeOK
    <3> HIDE DEF n, old
    <3> QED BY ONLY <1>3, <3>1
  <2> QED BY <1>0, <1>1, <1>2, <1>4, <2>1 DEF TypeOK
<1> HIDE DEF n, old
<1>6. IndexFindsSection'
  BY <1>0, <1>1, <1>c, <1>d DEF IndexFindsSection
<1>7. IndexInRange'
  BY <1>0, <1>1, <1>c DEF IndexInRange, n
<1>8. UsedHasLine'
  BY <1>0, <1>1 DEF UsedHasLine
<1>9. DocumentMirrors'
  BY <1>0, <1>1, <1>2 DEF DocumentMirrors
<1>10. BundleKept'
  BY DEF ReplaceMediaSection, RegenerateBundleMids, BundleKept
<1>11. SectionsTransport' /\ OneTransport'
  BY <1>0, <1>1, <1>2 DEF SectionsTransport, OneTransport, SetupNow, Fits
<1>12. FirstKept'
  <2>1. mediaSections # << >> /\ mediaSections' # << >> /\ 1 \in 1..n
    BY <1>0, <1>1 DEF n
  <2>2. ~lateClose => r # 1
    BY <2>1 DEF FirstKept
  <2> QED BY <1>1, <1>4, <2>1, <2>2 DEF FirstKept, IsClosed
<1> QED BY <1>5, <1>6, <1>7, <1>8, <1>9, <1>10, <1>11, <1>12

-----------------------------------------------------------------------------
\* The edits in place.

\* A step that edits m-lines but keeps their number, mids and map entries in range.
LEMMA SameLines ==
    ASSUME TypeOK, TypeOK', IndexFindsSection, UsedHasLine,
           DOMAIN mediaSections' = DOMAIN mediaSections, Len(mediaSections') = Len(mediaSections),
           \A k \in DOMAIN mediaSections :
               /\ mediaSections'[k].mid = mediaSections[k].mid
               /\ midToIndex'[mediaSections[k].mid] = midToIndex[mediaSections[k].mid],
           UNCHANGED usedMids
    PROVE  IndexFindsSection' /\ UsedHasLine'
<1>1. IndexFindsSection'
  BY DEF IndexFindsSection
<1>2. mediaSections # << >> => mediaSections' # << >>
  BY DEF TypeOK
<1> QED BY <1>1, <1>2 DEF UsedHasLine

\* The late lookup of a mid: in range, and the entries of mids in use are kept.
LEMMA LateLookup ==
    ASSUME SdpInv, NEW mid \in Mids, Closable(mid), midToIndex' = Touch(mid),
           Len(mediaSections') = Len(mediaSections)
    PROVE  /\ IndexOf(mid) + 1 \in DOMAIN mediaSections
           /\ midToIndex' \in [Mids -> Nat \cup {NoIndex}]
           /\ IndexInRange'
           /\ \A k \in DOMAIN mediaSections :
                 midToIndex'[mediaSections[k].mid] = midToIndex[mediaSections[k].mid]
<1> USE DEF SdpInv
<1>1. mediaSections # << >>
  BY DEF Closable, UsedHasLine
<1>2. Len(mediaSections) \in Nat \ {0} /\ DOMAIN mediaSections = 1..Len(mediaSections)
  BY <1>1 DEF TypeOK
<1>3. IndexOf(mid) \in 0..(Len(mediaSections) - 1)
  BY <1>2 DEF IndexOf, IndexInRange
<1>4. \A m \in Mids : midToIndex'[m] = IF m = mid THEN IndexOf(mid) ELSE midToIndex[m]
  BY DEF Touch, TypeOK
<1>5. midToIndex' \in [Mids -> Nat \cup {NoIndex}]
  BY <1>2, <1>3 DEF Touch, TypeOK
<1>6. IndexInRange'
  BY <1>3, <1>4 DEF IndexInRange
<1>7. \A k \in DOMAIN mediaSections :
         midToIndex'[mediaSections[k].mid] = midToIndex[mediaSections[k].mid]
  <2> TAKE k \in DOMAIN mediaSections
  <2>1. mediaSections[k].mid \in Mids
    BY SectionAt
  <2>2. IndexOf(mediaSections[k].mid) = midToIndex[mediaSections[k].mid]
    BY <1>2, Lookup DEF IndexFindsSection
  <2> QED BY <1>4, <2>1, <2>2
<1> QED BY <1>2, <1>3, <1>5, <1>6, <1>7

\* One m-line replaced by an edit of itself, in the vector and maybe the document.
LEMMA EditStep ==
    ASSUME SdpInv, NEW mid \in Mids, Closable(mid), midToIndex' = Touch(mid),
           NEW new, NEW k, k = IndexOf(mid) + 1,
           mediaSections' = [mediaSections EXCEPT ![k] = new],
           \/ new = Disable(mediaSections[k]) /\ sdpMedia' = sdpMedia
           \/ /\ new = Disable(mediaSections[k]) \/ new = Close(mediaSections[k])
              /\ sdpMedia' = [sdpMedia EXCEPT ![k] = new],
           bundleMids' = OpenMids(Lines(mediaSections')),
           lateClose' \in BOOLEAN, lateClose => lateClose',
           ~lateClose' /\ k = 1 => new = Disable(mediaSections[k]),
           UNCHANGED <<side, firstMid, role, ice, version, usedMids>>
    PROVE  SdpInv'
<1> USE DEF SdpInv
<1> DEFINE n == Len(mediaSections)
<1>1. /\ n \in Nat /\ DOMAIN mediaSections = 1..n
      /\ Len(sdpMedia) = n /\ DOMAIN sdpMedia = 1..n
  BY DEF TypeOK, DocumentMirrors
<1>2. k \in DOMAIN mediaSections
  <2>1. Len(mediaSections') = Len(mediaSections)
    BY <1>1 DEF TypeOK
  <2> QED BY <2>1, LateLookup
<1>3. mediaSections[k] \in Section
  BY <1>2, SectionAt
<1>4. /\ new \in Section /\ new.mid = mediaSections[k].mid
      /\ new.ice = mediaSections[k].ice /\ new.setup = mediaSections[k].setup
  BY <1>3, EditType
<1>5. /\ mediaSections' \in Seq(Section)
      /\ Len(mediaSections') = n /\ DOMAIN mediaSections' = 1..n
      /\ mediaSections'[k] = new
      /\ \A j \in 1..n : j # k => mediaSections'[j] = mediaSections[j]
  BY <1>1, <1>2, <1>4 DEF TypeOK
<1>6. /\ sdpMedia' \in Seq(Section)
      /\ Len(sdpMedia') = n /\ DOMAIN sdpMedia' = 1..n
      /\ \/ sdpMedia'[k] = sdpMedia[k] /\ new = Disable(mediaSections[k])
         \/ sdpMedia'[k] = new
      /\ \A j \in 1..n : j # k => sdpMedia'[j] = sdpMedia[j]
  <2>0. sdpMedia \in Seq(Section)
    BY DEF TypeOK
  <2>1. CASE new = Disable(mediaSections[k]) /\ sdpMedia' = sdpMedia
    BY <1>1, <2>0, <2>1
  <2>2. CASE sdpMedia' = [sdpMedia EXCEPT ![k] = new]
    <3> HIDE DEF n
    <3> QED BY <1>1, <1>2, <1>4, <2>0, <2>2
  <2> QED BY <2>1, <2>2
<1>7. /\ midToIndex' \in [Mids -> Nat \cup {NoIndex}] /\ IndexInRange'
      /\ \A j \in DOMAIN mediaSections :
            midToIndex'[mediaSections[j].mid] = midToIndex[mediaSections[j].mid]
  BY <1>5, LateLookup
<1> HIDE DEF n
<1>8. TypeOK'
  BY <1>5, <1>6, <1>7 DEF TypeOK
<1>9. IndexFindsSection' /\ UsedHasLine'
  <2>1. \A j \in DOMAIN mediaSections : mediaSections'[j].mid = mediaSections[j].mid
    BY <1>1, <1>4, <1>5
  <2> QED BY <1>1, <1>5, <1>7, <1>8, <2>1, SameLines DEF n
<1>10. DocumentMirrors'
  <2>1. Disable(sdpMedia[k]) = Disable(mediaSections[k])
    <3>1. sdpMedia[k] \in Section
      BY <1>1, <1>2 DEF TypeOK
    <3> QED BY <1>2, <3>1, EditType DEF DocumentMirrors
  <2>2. sdpMedia'[k] = mediaSections'[k] \/ Disable(sdpMedia'[k]) = mediaSections'[k]
    BY <1>5, <1>6, <2>1
  <2> QED BY <1>1, <1>5, <1>6, <2>2 DEF DocumentMirrors
<1>11. BundleKept'
  BY DEF BundleKept
<1>12. SectionsTransport' /\ OneTransport'
  BY <1>1, <1>2, <1>4, <1>5, <1>6 DEF SectionsTransport, OneTransport, SetupNow
<1>13. FirstKept'
  <2>1. mediaSections # << >> /\ mediaSections' # << >> /\ 1 \in DOMAIN mediaSections
    BY <1>1, <1>2, <1>5 DEF n
  <2>2. CASE k = 1
    BY <1>3, <1>4, <1>5, <2>1, <2>2, EditType DEF FirstKept, IsClosed
  <2>3. CASE k # 1
    BY <1>1, <1>5, <2>1, <2>3 DEF FirstKept
  <2> QED BY <2>2, <2>3
<1> QED BY <1>7, <1>8, <1>9, <1>10, <1>11, <1>12, <1>13

\* The BUNDLE line depends on the mids and ports only.
LEMMA SameBundle ==
    ASSUME DOMAIN mediaSections' = DOMAIN mediaSections,
           \A k \in DOMAIN mediaSections : /\ mediaSections'[k].mid = mediaSections[k].mid
                                           /\ mediaSections'[k].closed = mediaSections[k].closed
    PROVE  OpenMids(Lines(mediaSections')) = OpenMids(Lines(mediaSections))
<1>1. Lines(mediaSections') = Lines(mediaSections)
  BY DEF Lines
<1> QED BY <1>1

\* All m-lines given the same ICE parameters or setup, document refreshed.
LEMMA RefreshStep ==
    ASSUME SdpInv, NEW newIce \in IceParams, NEW newRole \in Roles,
           ice' = newIce, role' = newRole,
           mediaSections' \in Seq(Section),
           DOMAIN mediaSections' = DOMAIN mediaSections,
           \A k \in DOMAIN mediaSections :
               /\ mediaSections'[k].mid = mediaSections[k].mid
               /\ mediaSections'[k].closed = mediaSections[k].closed
               /\ mediaSections'[k].ice = newIce
               /\ mediaSections'[k].setup = SetupNow',
           sdpMedia' = mediaSections',
           UNCHANGED <<side, midToIndex, firstMid, bundleMids, version, usedMids, lateClose>>
    PROVE  SdpInv'
<1> USE DEF SdpInv
<1>1. Len(mediaSections') = Len(mediaSections)
  BY DEF TypeOK
<1>2. TypeOK'
  BY DEF TypeOK
<1>3. IndexFindsSection' /\ UsedHasLine'
  BY <1>1, <1>2, SameLines
<1>4. IndexInRange'
  BY <1>1 DEF IndexInRange
<1>5. DocumentMirrors'
  BY DEF DocumentMirrors
<1>6. BundleKept'
  BY SameBundle DEF BundleKept
<1>7. SectionsTransport' /\ OneTransport'
  <2>1. DOMAIN sdpMedia' = DOMAIN mediaSections
    OBVIOUS
  <2> QED BY <2>1 DEF SectionsTransport, OneTransport, SetupNow
<1>8. FirstKept'
  <2>1. (mediaSections = << >>) <=> (mediaSections' = << >>)
    BY <1>1 DEF TypeOK
  <2>2. mediaSections # << >> => 1 \in DOMAIN mediaSections
    BY DEF TypeOK
  <2> QED BY <2>1, <2>2 DEF FirstKept, IsClosed
<1> QED BY <1>2, <1>3, <1>4, <1>5, <1>6, <1>7, <1>8

-----------------------------------------------------------------------------

\* Every operation keeps the copies in step.
LEMMA SdpStep == SdpInv /\ [Next]_vars => SdpInv'
<1> SUFFICES ASSUME SdpInv, [Next]_vars PROVE SdpInv'
  OBVIOUS
<1> USE DEF SdpInv
<1>1. ASSUME NEW mid \in Mids, Send(mid) PROVE SdpInv'
  <2> DEFINE new == AnswerMediaSection(mid, "media")
  <2>1. Fits(new) /\ new.mid = mid
    BY <1>1, NewSectionType DEF Send, SendLine, Fits, SetupNow
  <2> HIDE DEF new
  <2>2. CASE GetNextMediaSectionIdx.reuseMid = NoMid
    <3>1. AddMediaSection(new)
      BY <1>1, <2>2 DEF Send, SendLine, ReuseOrAdd, new
    <3>2. mid \notin LiveMids
      BY <1>1, <2>2, MidsAssumption DEF Send, SendLine, FreshFor
    <3> QED BY <1>1, <2>1, <3>1, <3>2, AddStep DEF Send, SendLine
  <2>3. CASE GetNextMediaSectionIdx.reuseMid # NoMid
    <3>1. PICK r \in DOMAIN mediaSections : /\ IsClosed(mediaSections[r])
                                            /\ GetNextMediaSectionIdx.reuseMid = mediaSections[r].mid
      BY <2>3, NextIdx
    <3>2. ReplaceMediaSection(new, mediaSections[r].mid)
      BY <1>1, <2>3, <3>1 DEF Send, SendLine, ReuseOrAdd, new
    <3>3. new.mid \notin LiveMids \/ new.mid = mediaSections[r].mid
      BY <1>1, <2>1, <3>1 DEF Send, SendLine, FreshFor
    <3> QED BY <1>1, <2>1, <3>1, <3>2, <3>3, ReplaceStep DEF Send, SendLine
  <2> QED BY <2>2, <2>3
<1>2. ASSUME NEW mid \in Mids, SendSctpAssociation(mid) PROVE SdpInv'
  <2> DEFINE new == AnswerMediaSection(mid, "application")
  <2>1. Fits(new) /\ new.mid = mid
    BY <1>2, NewSectionType DEF SendSctpAssociation, Fits, SetupNow
  <2>2. AddMediaSection(new)
    BY <1>2 DEF SendSctpAssociation
  <2> HIDE DEF new
  <2> QED BY <1>2, <2>1, <2>2, AddStep DEF SendSctpAssociation
<1>3. ASSUME NEW mid \in Mids, Receive(mid) PROVE SdpInv'
  <2> DEFINE new == OfferMediaSection(mid, "media")
  <2>1. Fits(new) /\ new.mid = mid
    BY <1>3, NewSectionType DEF Receive, Fits, SetupNow
  <2> HIDE DEF new
  <2>2. CASE GetNextMediaSectionIdx.reuseMid = NoMid
    <3>1. AddMediaSection(new)
      BY <1>3, <2>2 DEF Receive, ReuseOrAdd, new
    <3>2. mid \notin LiveMids
      BY <1>3, <2>2, MidsAssumption DEF Receive, FreshFor
    <3> QED BY <1>3, <2>1, <3>1, <3>2, AddStep DEF Receive
  <2>3. CASE GetNextMediaSectionIdx.reuseMid # NoMid
    <3>1. PICK r \in DOMAIN mediaSections : /\ IsClosed(mediaSections[r])
                                            /\ GetNextMediaSectionIdx.reuseMid = mediaSections[r].mid
      BY <2>3, NextIdx
    <3>2. ReplaceMediaSection(new, mediaSections[r].mid)
      BY <1>3, <2>3, <3>1 DEF Receive, ReuseOrAdd, new
    <3>3. new.mid \notin LiveMids \/ new.mid = mediaSections[r].mid
      BY <1>3, <2>1, <3>1 DEF Receive, FreshFor
    <3> QED BY <1>3, <2>1, <3>1, <3>2, <3>3, ReplaceStep DEF Receive
  <2> QED BY <2>2, <2>3
<1>4. CASE RecvSctpAssociation
  <2> DEFINE new == OfferMediaSection(DataChannelMid, "application")
  <2>1. Fits(new) /\ new.mid = DataChannelMid
    BY <1>4, NewSectionType, MidsAssumption DEF RecvSctpAssociation, Fits, SetupNow
  <2>2. AddMediaSection(new)
    BY <1>4 DEF RecvSctpAssociation
  <2> HIDE DEF new
  <2> QED BY <1>4, <2>1, <2>2, AddStep DEF RecvSctpAssociation
<1>5. ASSUME NEW i \in IceParams, UpdateIceParameters(i) PROVE SdpInv'
  <2>1. \A k \in DOMAIN mediaSections : mediaSections[k] \in Section
    BY SectionAt
  <2>2. \A x \in Section : /\ SetIceParameters(x, i) \in Section
                           /\ SetIceParameters(x, i).mid = x.mid
                           /\ SetIceParameters(x, i).closed = x.closed
                           /\ SetIceParameters(x, i).setup = x.setup
                           /\ SetIceParameters(x, i).ice = i
    BY DEF SetIceParameters, Section
  <2>3. mediaSections' = [k \in DOMAIN mediaSections |-> SetIceParameters(mediaSections[k], i)]
    BY <1>5 DEF UpdateIceParameters
  <2>4. mediaSections' \in Seq(Section) /\ DOMAIN mediaSections' = DOMAIN mediaSections
    BY <2>1, <2>2, <2>3 DEF TypeOK
  <2>5. SetupNow' = SetupNow
    BY <1>5 DEF UpdateIceParameters, SetupNow
  <2>6. \A k \in DOMAIN mediaSections :
               /\ mediaSections'[k].mid = mediaSections[k].mid
               /\ mediaSections'[k].closed = mediaSections[k].closed
               /\ mediaSections'[k].ice = i
               /\ mediaSections'[k].setup = SetupNow'
    BY <2>1, <2>2, <2>3, <2>5 DEF SectionsTransport
  <2>7. role \in Roles
    BY DEF TypeOK
  <2> QED BY <1>5, <2>4, <2>6, <2>7, RefreshStep DEF UpdateIceParameters
<1>6. ASSUME NEW r \in Roles, UpdateDtlsRole(r) PROVE SdpInv'
  <2>1. \A k \in DOMAIN mediaSections : mediaSections[k] \in Section
    BY SectionAt
  <2>2. SetupNow' = (IF side = "send" THEN SetupOf(r) ELSE "actpass") /\ SetupNow' \in Setups
    BY <1>6, SetupType DEF UpdateDtlsRole, SetupNow, Setups
  <2>3. \A x \in Section : /\ SetDtlsRole(x, r) \in Section
                           /\ SetDtlsRole(x, r).mid = x.mid
                           /\ SetDtlsRole(x, r).closed = x.closed
                           /\ SetDtlsRole(x, r).setup = SetupNow'
                           /\ SetDtlsRole(x, r).ice = x.ice
    BY <2>2 DEF SetDtlsRole, Section
  <2>4. mediaSections' = [k \in DOMAIN mediaSections |-> SetDtlsRole(mediaSections[k], r)]
    BY <1>6 DEF UpdateDtlsRole
  <2>5. mediaSections' \in Seq(Section) /\ DOMAIN mediaSections' = DOMAIN mediaSections
    BY <2>1, <2>3, <2>4 DEF TypeOK
  <2>6. \A k \in DOMAIN mediaSections :
               /\ mediaSections'[k].mid = mediaSections[k].mid
               /\ mediaSections'[k].closed = mediaSections[k].closed
               /\ mediaSections'[k].ice = ice
               /\ mediaSections'[k].setup = SetupNow'
    BY <2>1, <2>3, <2>4 DEF SectionsTransport
  <2>7. ice \in IceParams
    BY DEF TypeOK
  <2> QED BY <1>6, <2>5, <2>6, <2>7, RefreshStep DEF UpdateDtlsRole
<1>7. ASSUME NEW mid \in Mids, DisableMediaSection(mid) PROVE SdpInv'
  <2> DEFINE k == IndexOf(mid) + 1
             new == Disable(mediaSections[k])
  <2>1. mediaSections' = [mediaSections EXCEPT ![k] = new]
    BY <1>7 DEF DisableMediaSection
  <2>2. Len(mediaSections') = Len(mediaSections) /\ DOMAIN mediaSections' = DOMAIN mediaSections
    BY <2>1 DEF TypeOK
  <2>3. k \in DOMAIN mediaSections
    BY <1>7, <2>2, LateLookup DEF DisableMediaSection
  <2>4. new.mid = mediaSections[k].mid /\ new.closed = mediaSections[k].closed
    BY <2>3, SectionAt, EditType
  <2> HIDE DEF new, k
  <2>5. OpenMids(Lines(mediaSections')) = OpenMids(Lines(mediaSections))
    BY <2>1, <2>2, <2>3, <2>4, SameBundle
  <2>6. lateClose' \in BOOLEAN /\ (lateClose => lateClose')
    <3>1. lateClose \in BOOLEAN /\ lateClose' = lateClose
      BY <1>7 DEF DisableMediaSection, TypeOK
    <3> QED BY <3>1
  <2>7. bundleMids' = OpenMids(Lines(mediaSections'))
    BY <1>7, <2>5 DEF DisableMediaSection, BundleKept
  <2> QED BY <1>7, <2>1, <2>6, <2>7, EditStep DEF DisableMediaSection, new, k
<1>8. ASSUME NEW mid \in Mids, CloseMediaSection(mid) PROVE SdpInv'
  <2> DEFINE k == IndexOf(mid) + 1
             new == IF mid = firstMid THEN Disable(mediaSections[k]) ELSE Close(mediaSections[k])
  <2>1. /\ mediaSections' = [mediaSections EXCEPT ![k] = new]
        /\ sdpMedia' = [sdpMedia EXCEPT ![k] = new]
        /\ bundleMids' = OpenMids(Lines(mediaSections'))
    BY <1>8 DEF CloseMediaSection, RegenerateBundleMids
  <2>0. lateClose' \in BOOLEAN /\ (lateClose => lateClose')
    BY <1>8 DEF CloseMediaSection, RecordClose
  <2>2. ~lateClose' /\ k = 1 => new = Disable(mediaSections[k])
    <3> SUFFICES ASSUME ~lateClose', k = 1 PROVE mid = firstMid
      OBVIOUS
    <3>0. ~lateClose /\ mid \in LiveMids
      BY <1>8 DEF CloseMediaSection, RecordClose
    <3>1. PICK j \in DOMAIN mediaSections : mediaSections[j].mid = mid
      BY <3>0 DEF LiveMids
    <3>2. j = 1 /\ mediaSections # << >>
      BY <3>1, Lookup
    <3> QED BY <3>0, <3>1, <3>2 DEF FirstKept
  <2>3. new = Disable(mediaSections[k]) \/ new = Close(mediaSections[k])
    OBVIOUS
  <2> HIDE DEF new
  <2> QED BY <1>8, <2>0, <2>1, <2>2, <2>3, EditStep DEF CloseMediaSection
<1>9. CASE GetSdp
  <2>1. TypeOK'
    BY <1>9, BoundsAssumption DEF GetSdp, TypeOK
  <2> QED BY <1>9, <2>1 DEF GetSdp, IndexFindsSection, IndexInRange, UsedHasLine, DocumentMirrors,
                            BundleKept, SectionsTransport, OneTransport, FirstKept, SetupNow
<1>10. CASE UNCHANGED vars
  BY <1>10 DEF vars, TypeOK, IndexFindsSection, IndexInRange, UsedHasLine, DocumentMirrors,
               BundleKept, SectionsTransport, OneTransport, FirstKept, SetupNow
<1> QED BY <1>1, <1>2, <1>3, <1>4, <1>5, <1>6, <1>7, <1>8, <1>9, <1>10 DEF Next

LEMMA InitSdp == Init => SdpInv
<1> SUFFICES ASSUME Init PROVE SdpInv
  OBVIOUS
<1> USE DEF Init
<1>1. TypeOK
  <2>1. lateClose \in BOOLEAN
    OBVIOUS
  <2>2. mediaSections \in Seq(Section) /\ sdpMedia \in Seq(Section)
    OBVIOUS
  <2>3. version \in 0..MaxVersion
    BY BoundsAssumption
  <2>4. midToIndex \in [Mids -> Nat \cup {NoIndex}]
    OBVIOUS
  <2> QED BY <2>1, <2>2, <2>3, <2>4 DEF TypeOK
<1>2. DOMAIN mediaSections = {} /\ DOMAIN sdpMedia = {} /\ Len(mediaSections) = 0
  OBVIOUS
<1>3. IndexFindsSection /\ IndexInRange /\ UsedHasLine
  BY <1>2 DEF IndexFindsSection, IndexInRange, UsedHasLine
<1>4. DocumentMirrors /\ SectionsTransport /\ OneTransport /\ FirstKept
  BY <1>2 DEF DocumentMirrors, SectionsTransport, OneTransport, FirstKept
<1>5. BundleKept
  <2>1. Lines(mediaSections) = << >>
    BY DEF Lines
  <2>2. OpenMids(<< >>) = << >>
    <3> DEFINE Def(n, g) == IF n = 0 THEN << >>
                            ELSE IF << >>[n].closed THEN g[n - 1] ELSE Append(g[n - 1], << >>[n].mid)
               mids == CHOOSE g : g = [n \in 0..0 |-> Def(n, g)]
    <3>1. [n \in 0..0 |-> << >>] = [n \in 0..0 |-> Def(n, [m \in 0..0 |-> << >>])]
      OBVIOUS
    <3>2. \E g : g = [n \in 0..0 |-> Def(n, g)]
      BY <3>1
    <3>3. mids = [n \in 0..0 |-> Def(n, mids)]
      BY <3>2
    <3>4. mids[0] = << >>
      BY <3>3
    <3>5. OpenMids(<< >>) = mids[0]
      BY DEF OpenMids
    <3> QED BY <3>4, <3>5
  <2> QED BY <2>1, <2>2 DEF BundleKept
<1> QED BY <1>1, <1>3, <1>4, <1>5 DEF SdpInv

LEMMA SdpInvariant == Spec => []SdpInv
BY InitSdp, SdpStep, PTL DEF Spec

(***************************************************************************)
(* Type correctness: the vector and the document hold well-formed m-lines  *)
(* and the map holds indices, whatever the sequence of operations.         *)
(***************************************************************************)
THEOREM TypeCorrect == Spec => []TypeOK
<1>1. SdpInv => TypeOK
  BY DEF SdpInv
<1> QED BY <1>1, SdpInvariant, PTL

(***************************************************************************)
(* midToIndex gives the position of every m-line, also after recycling and *)
(* after closes that come too late.                                        *)
(***************************************************************************)
THEOREM IndexCorrect == Spec => []IndexFindsSection
<1>1. SdpInv => IndexFindsSection
  BY DEF SdpInv
<1> QED BY <1>1, SdpInvariant, PTL

(***************************************************************************)
(* The BUNDLE line of the document lists its open m-lines, in order.       *)
(***************************************************************************)
THEOREM BundleCorrect == Spec => []BundleIsOpenLines
<1>1. SdpInv => BundleIsOpenLines
  <2> SUFFICES ASSUME SdpInv PROVE BundleIsOpenLines
    OBVIOUS
  <2>1. DOMAIN sdpMedia = DOMAIN mediaSections
    BY DEF SdpInv, TypeOK, DocumentMirrors
  <2>2. \A k \in DOMAIN mediaSections : sdpMedia[k] \in Section
    BY <2>1 DEF SdpInv, TypeOK
  <2>3. \A k \in DOMAIN mediaSections : /\ sdpMedia[k].mid = mediaSections[k].mid
                                        /\ sdpMedia[k].closed = mediaSections[k].closed
    BY <2>2, EditType DEF SdpInv, DocumentMirrors
  <2>4. Lines(sdpMedia) = Lines(mediaSections)
    BY <2>1, <2>3 DEF Lines
  <2> QED BY <2>4 DEF SdpInv, BundleKept, BundleIsOpenLines
<1> QED BY <1>1, SdpInvariant, PTL

(***************************************************************************)
(* sdpObject["media"] is the vector of m-lines, up to a direction that     *)
(* DisableMediaSection changed, and its BUNDLE line lists its open lines.  *)
(***************************************************************************)
THEOREM DocumentCorrect == Spec => []DocumentAgrees
<1>1. SdpInv => DocumentMirrors
  BY DEF SdpInv
<1> QED BY <1>1, SdpInvariant, BundleCorrect, PTL DEF DocumentAgrees

-----------------------------------------------------------------------------
\* What OpenMids computes, for any number of m-lines.

\* Induction on a set of positions.
LEMMA AllPositions ==
    ASSUME NEW N \in Nat, NEW T, 0 \in T, \A n \in 0..(N - 1) : n \in T => n + 1 \in T
    PROVE  0..N \subseteq T
<1> SUFFICES ASSUME NEW m \in 0..N, m \notin T PROVE FALSE
  OBVIOUS
<1> DEFINE S == {n \in 0..N : n \notin T}
<1>1. S \in SUBSET Nat /\ S # {}
  OBVIOUS
<1>2. PICK n \in S : \A j \in S : n <= j
  BY <1>1, LeastPosition
<1>3. n \in 1..N
  OBVIOUS
<1>4. n - 1 \in 0..(N - 1) /\ n - 1 \notin S
  BY <1>2, <1>3
<1> QED BY <1>3, <1>4

Line == [mid : Mids, closed : BOOLEAN]

\* A round of the loop of RegenerateBundleMids.
Round(line, mids) == IF line.closed THEN mids ELSE Append(mids, line.mid)

\* The loop has a value after each of its rounds.
LEMMA BundleRounds ==
    ASSUME NEW lines \in Seq(Line), NEW n \in 0..Len(lines)
    PROVE  \E f \in [0..n -> Seq(Mids)] :
              f[0] = << >> /\ \A k \in 1..n : f[k] = Round(lines[k], f[k - 1])
<1> DEFINE Good(m, f) == f[0] = << >> /\ \A k \in 1..m : f[k] = Round(lines[k], f[k - 1])
           T == {m \in 0..Len(lines) : \E f \in [0..m -> Seq(Mids)] : Good(m, f)}
<1>1. Len(lines) \in Nat /\ \A k \in 1..Len(lines) : lines[k] \in Line
  OBVIOUS
<1>2. 0 \in T
  <2>1. [k \in 0..0 |-> << >>] \in [0..0 -> Seq(Mids)] /\ Good(0, [k \in 0..0 |-> << >>])
    OBVIOUS
  <2>2. \E f \in [0..0 -> Seq(Mids)] : Good(0, f)
    BY <2>1, Zenon
  <2> QED BY <1>1, <2>2
<1>3. ASSUME NEW m \in 0..(Len(lines) - 1), m \in T PROVE m + 1 \in T
  <2>1. PICK f \in [0..m -> Seq(Mids)] : Good(m, f)
    BY <1>3
  <2> DEFINE v == Round(lines[m + 1], f[m])
             g == [k \in 0..(m + 1) |-> IF k = m + 1 THEN v ELSE f[k]]
  <2>2. v \in Seq(Mids)
    <3>1. lines[m + 1] \in Line /\ f[m] \in Seq(Mids)
      BY <1>1, <2>1
    <3> QED BY <3>1 DEF Line, Round
  <2> HIDE DEF v
  <2>3. g \in [0..(m + 1) -> Seq(Mids)]
    BY <2>1, <2>2
  <2>4. g[0] = << >>
    BY <2>1
  <2>5. ASSUME NEW k \in 1..(m + 1) PROVE g[k] = Round(lines[k], g[k - 1])
    <3>1. CASE k = m + 1
      <4>1. g[k] = v /\ g[k - 1] = f[m]
        BY <3>1
      <4> QED BY <3>1, <4>1 DEF v
    <3>2. CASE k \in 1..m
      <4>1. g[k] = f[k] /\ g[k - 1] = f[k - 1]
        BY <3>2
      <4> QED BY <2>1, <3>2, <4>1
    <3> QED BY <3>1, <3>2
  <2> HIDE DEF g
  <2>6. Good(m + 1, g)
    BY <2>4, <2>5
  <2> HIDE DEF Good
  <2>7. \E h \in [0..(m + 1) -> Seq(Mids)] : Good(m + 1, h)
    BY <2>3, <2>6
  <2>8. m + 1 \in 0..Len(lines)
    BY <1>1
  <2> QED BY <2>7, <2>8
<1>4. 0..Len(lines) \subseteq T
  <2> HIDE DEF T
  <2> QED BY <1>1, <1>2, <1>3, AllPositions
<1> QED BY <1>4

\* OpenMids is the value after the last round.
LEMMA OpenMidsLoop ==
    ASSUME NEW lines \in Seq(Line)
    PROVE  \E f \in [0..Len(lines) -> Seq(Mids)] :
              /\ OpenMids(lines) = f[Len(lines)] /\ f[0] = << >>
              /\ \A k \in 1..Len(lines) : f[k] = Round(lines[k], f[k - 1])
<1> DEFINE N    == Len(lines)
           F(f) == [n \in 0..N |-> IF n = 0 THEN << >>
                                   ELSE IF lines[n].closed THEN f[n - 1]
                                   ELSE Append(f[n - 1], lines[n].mid)]
           mids == CHOOSE f : f = F(f)
<1>1. N \in Nat /\ N \in 0..N
  OBVIOUS
<1>2. PICK f \in [0..N -> Seq(Mids)] :
         f[0] = << >> /\ \A k \in 1..N : f[k] = Round(lines[k], f[k - 1])
  BY <1>1, BundleRounds
<1>3. f = F(f)
  <2>1. ASSUME NEW n \in 0..N PROVE f[n] = F(f)[n]
    <3>1. CASE n = 0
      BY <1>2, <3>1
    <3>2. CASE n \in 1..N
      BY <1>2, <3>2 DEF Round
    <3> QED BY <1>1, <3>1, <3>2
  <2>2. f = [n \in 0..N |-> f[n]] /\ F(f) = [n \in 0..N |-> F(f)[n]]
    BY <1>2
  <2> HIDE DEF F
  <2> QED BY <2>1, <2>2
<1>4. mids = F(mids)
  <2> HIDE DEF F
  <2> QED BY <1>3
<1>5. OpenMids(lines) = mids[N]
  BY DEF OpenMids
<1> HIDE DEF mids
<1>6. /\ DOMAIN F(mids) = 0..N /\ F(mids) = [n \in 0..N |-> F(mids)[n]]
      /\ F(mids)[0] = << >> /\ \A k \in 1..N : F(mids)[k] = Round(lines[k], mids[k - 1])
  BY <1>1 DEF Round
<1> HIDE DEF F
<1>7. /\ DOMAIN mids = 0..N /\ mids = [n \in 0..N |-> mids[n]]
      /\ mids[0] = << >> /\ \A k \in 1..N : mids[k] = Round(lines[k], mids[k - 1])
  BY <1>4, <1>6
<1> DEFINE T == {n \in 0..N : mids[n] = f[n]}
<1>8. 0 \in T
  BY <1>1, <1>2, <1>7
<1>9. ASSUME NEW n \in 0..(N - 1), n \in T PROVE n + 1 \in T
  <2>1. n + 1 \in 1..N /\ (n + 1) - 1 = n
    BY <1>1
  <2>2. mids[n + 1] = Round(lines[n + 1], mids[n]) /\ f[n + 1] = Round(lines[n + 1], f[n])
    BY <1>2, <1>7, <2>1
  <2> QED BY <1>9, <2>1, <2>2
<1>10. 0..N \subseteq T
  <2> HIDE DEF T
  <2> QED BY <1>1, <1>8, <1>9, AllPositions
<1>11. mids[N] = f[N]
  BY <1>1, <1>10
<1> QED BY <1>2, <1>5, <1>11

\* at gives the position of every mid of a BUNDLE line among n m-lines: they are the
\* open ones, in order.
Places(lines, n, mids, at) ==
    /\ at \in [DOMAIN mids -> 1..n]
    /\ \A j \in DOMAIN mids : mids[j] = lines[at[j]].mid /\ ~lines[at[j]].closed
    /\ \A i, j \in DOMAIN mids : i < j => at[i] < at[j]
    /\ \A k \in 1..n : ~lines[k].closed => \E j \in DOMAIN mids : at[j] = k

\* OpenMids lists the open m-lines, each once and in order.
LEMMA OpenMidsFacts ==
    ASSUME NEW lines \in Seq(Line)
    PROVE  /\ OpenMids(lines) \in Seq(Mids)
           /\ \E at : Places(lines, Len(lines), OpenMids(lines), at)
<1> DEFINE N == Len(lines)
<1>1. PICK f \in [0..N -> Seq(Mids)] :
         /\ OpenMids(lines) = f[N] /\ f[0] = << >>
         /\ \A k \in 1..N : f[k] = Round(lines[k], f[k - 1])
  BY OpenMidsLoop
<1>2. N \in Nat /\ \A k \in 1..N : lines[k] \in Line
  OBVIOUS
<1> DEFINE T == {n \in 0..N : \E at : Places(lines, n, f[n], at)}
<1>3. 0 \in T
  <2>1. Places(lines, 0, f[0], << >>)
    BY <1>1 DEF Places
  <2> QED BY <1>2, <2>1
<1>4. ASSUME NEW n \in 0..(N - 1), n \in T PROVE n + 1 \in T
  <2> DEFINE u    == f[n]
             w    == f[n + 1]
             line == lines[n + 1]
  <2>1. n \in Nat /\ n + 1 \in 1..N /\ n + 1 \in 0..N /\ (n + 1) - 1 = n
    BY <1>2
  <2>2. u \in Seq(Mids) /\ line \in Line /\ w = Round(line, u)
    <3>1. f[n + 1] = Round(lines[n + 1], f[n])
      <4> HIDE DEF N
      <4> QED BY ONLY <1>1, <2>1
    <3> QED BY <1>2, <2>1, <3>1
  <2>3. PICK at : Places(lines, n, u, at)
    BY <1>4
  <2> HIDE DEF u, w
  <2>4. /\ at \in [DOMAIN u -> 1..n]
        /\ \A j \in DOMAIN u : u[j] = lines[at[j]].mid /\ ~lines[at[j]].closed
        /\ \A i, j \in DOMAIN u : i < j => at[i] < at[j]
        /\ \A k \in 1..n : ~lines[k].closed => \E j \in DOMAIN u : at[j] = k
    BY <2>3 DEF Places
  <2>5. \E to : Places(lines, n + 1, w, to)
    <3>1. CASE line.closed
      <4>1. w = u
        BY <2>2, <3>1 DEF Round
      <4>2. at \in [DOMAIN u -> 1..(n + 1)]
        BY <2>1, <2>4
      <4>3. \A k \in 1..(n + 1) : ~lines[k].closed => \E j \in DOMAIN u : at[j] = k
        BY <2>1, <2>4, <3>1
      <4>4. Places(lines, n + 1, w, at)
        BY <2>4, <4>1, <4>2, <4>3 DEF Places
      <4> QED BY <4>4
    <3>2. CASE ~line.closed
      <4> DEFINE m  == Len(u)
                 to == [j \in 1..(m + 1) |-> IF j = m + 1 THEN n + 1 ELSE at[j]]
      <4>1. /\ m \in Nat /\ DOMAIN u = 1..m /\ DOMAIN w = 1..(m + 1) /\ w[m + 1] = line.mid
            /\ \A j \in 1..m : w[j] = u[j]
        <5>1. w = Append(u, line.mid) /\ line.mid \in Mids
          BY <2>2, <3>2 DEF Round, Line
        <5> HIDE DEF line
        <5> QED BY <2>2, <5>1
      <4> HIDE DEF m
      <4>2. /\ to \in [1..(m + 1) -> 1..(n + 1)] /\ to[m + 1] = n + 1
            /\ \A j \in 1..m : to[j] = at[j] /\ at[j] \in 1..n
        BY <2>1, <2>4, <4>1
      <4> HIDE DEF to
      <4>3. ASSUME NEW j \in 1..(m + 1)
            PROVE  w[j] = lines[to[j]].mid /\ ~lines[to[j]].closed
        <5>1. CASE j = m + 1
          BY <3>2, <4>1, <4>2, <5>1
        <5>2. CASE j \in 1..m
          BY <2>4, <4>1, <4>2, <5>2
        <5> QED BY <4>1, <5>1, <5>2
      <4>4. ASSUME NEW i \in 1..(m + 1), NEW j \in 1..(m + 1), i < j PROVE to[i] < to[j]
        <5>1. i \in 1..m /\ to[i] = at[i] /\ at[i] \in 1..n
          BY <4>1, <4>2, <4>4
        <5>2. CASE j = m + 1
          BY <2>1, <4>2, <5>1, <5>2
        <5>3. CASE j \in 1..m
          BY <2>4, <4>1, <4>2, <4>4, <5>1, <5>3
        <5> QED BY <4>1, <5>2, <5>3
      <4>5. ASSUME NEW k \in 1..(n + 1), ~lines[k].closed PROVE \E j \in 1..(m + 1) : to[j] = k
        <5>1. CASE k = n + 1
          BY <4>1, <4>2, <5>1
        <5>2. CASE k \in 1..n
          BY <2>4, <4>1, <4>2, <4>5, <5>2
        <5> QED BY <2>1, <5>1, <5>2
      <4>6. Places(lines, n + 1, w, to)
        BY <4>1, <4>2, <4>3, <4>4, <4>5 DEF Places
      <4> QED BY <4>6
    <3> QED BY <3>1, <3>2, <2>2 DEF Line
  <2> QED BY <2>1, <2>5 DEF w
<1>5. N \in T
  <2> HIDE DEF T
  <2>1. 0..N \subseteq T
    BY <1>2, <1>3, <1>4, AllPositions
  <2> QED BY <1>2, <2>1
<1>6. f[N] \in Seq(Mids) /\ \E at : Places(lines, N, f[N], at)
  BY <1>1, <1>2, <1>5
<1> HIDE DEF N
<1> QED BY <1>1, <1>6 DEF N

(***************************************************************************)
(* What the BUNDLE line is, without the loop that makes it: it names the   *)
(* m-lines of the document that are not closed and no others, each once    *)
(* and in the order in which midToIndex has them.                          *)
(***************************************************************************)
BundleNamesOpenLines ==
    /\ {bundleMids[j] : j \in DOMAIN bundleMids} =
           {sdpMedia[k].mid : k \in {i \in DOMAIN sdpMedia : ~IsClosed(sdpMedia[i])}}
    /\ \A i, j \in DOMAIN bundleMids : i < j => midToIndex[bundleMids[i]] < midToIndex[bundleMids[j]]

\* RegenerateBundleMids after each change of the m-lines keeps the BUNDLE line exact.
THEOREM BundleExact == Spec => []BundleNamesOpenLines
<1>1. SdpInv /\ BundleIsOpenLines => BundleNamesOpenLines
  <2> SUFFICES ASSUME SdpInv, BundleIsOpenLines PROVE BundleNamesOpenLines
    OBVIOUS
  <2> DEFINE lines == Lines(sdpMedia)
             N     == Len(sdpMedia)
  <2>1. sdpMedia \in Seq(Section) /\ N \in Nat /\ DOMAIN sdpMedia = 1..N
        /\ \A k \in 1..N : sdpMedia[k] \in Section
    BY DEF SdpInv, TypeOK
  <2>2. \A k \in 1..N : lines[k].mid = sdpMedia[k].mid /\ lines[k].closed = sdpMedia[k].closed
    BY <2>1 DEF Lines
  <2>3. lines \in Seq(Line) /\ Len(lines) = N
    <3>1. lines \in [1..N -> Line]
      BY <2>1 DEF Lines, Line, Section
    <3> HIDE DEF lines, N
    <3> QED BY <2>1, <3>1
  <2>4. bundleMids = OpenMids(lines)
    BY DEF BundleIsOpenLines
  <2> HIDE DEF lines, N
  <2>5. PICK at : Places(lines, N, bundleMids, at)
    BY <2>3, <2>4, OpenMidsFacts
  <2>6. \A k \in 1..N : midToIndex[sdpMedia[k].mid] = k - 1
    <3>1. DOMAIN mediaSections = 1..N
      BY DEF SdpInv, TypeOK, DocumentMirrors, N
    <3>2. \A k \in 1..N : sdpMedia[k].mid = mediaSections[k].mid
      BY <2>1, <3>1, EditType DEF SdpInv, DocumentMirrors
    <3> QED BY <3>1, <3>2 DEF SdpInv, IndexFindsSection
  <2>7. /\ at \in [DOMAIN bundleMids -> 1..N]
        /\ \A j \in DOMAIN bundleMids : bundleMids[j] = sdpMedia[at[j]].mid /\ ~sdpMedia[at[j]].closed
        /\ \A i, j \in DOMAIN bundleMids : i < j => at[i] < at[j]
        /\ \A k \in 1..N : ~sdpMedia[k].closed => \E j \in DOMAIN bundleMids : at[j] = k
    BY <2>2, <2>5 DEF Places
  <2>8. {bundleMids[j] : j \in DOMAIN bundleMids} =
            {sdpMedia[k].mid : k \in {i \in DOMAIN sdpMedia : ~IsClosed(sdpMedia[i])}}
    BY <2>1, <2>7 DEF IsClosed
  <2>9. ASSUME NEW i \in DOMAIN bundleMids, NEW j \in DOMAIN bundleMids, i < j
        PROVE  midToIndex[bundleMids[i]] < midToIndex[bundleMids[j]]
    <3>1. at[i] \in 1..N /\ at[j] \in 1..N /\ at[i] < at[j]
      BY <2>7, <2>9
    <3>2. midToIndex[bundleMids[i]] = at[i] - 1 /\ midToIndex[bundleMids[j]] = at[j] - 1
      BY <2>6, <2>7, <3>1
    <3> QED BY <2>1, <3>1, <3>2
  <2> QED BY <2>8, <2>9 DEF BundleNamesOpenLines
<1> QED BY <1>1, SdpInvariant, BundleCorrect, PTL

(***************************************************************************)
(* Every m-line of the document carries the current ICE parameters and the *)
(* a=setup of the current DTLS role (actpass in an offer).                 *)
(***************************************************************************)
THEOREM TransportCorrect == Spec => []OneTransport
<1>1. SdpInv => OneTransport
  BY DEF SdpInv
<1> QED BY <1>1, SdpInvariant, PTL

(***************************************************************************)
(* CloseMediaSection and recycling close the first m-line only after a mid *)
(* was closed whose m-line had already been recycled.                      *)
(***************************************************************************)
THEOREM FirstStaysOpen == Spec => []FirstSectionOpen
<1>1. SdpInv => FirstSectionOpen
  BY DEF SdpInv, FirstKept, FirstSectionOpen
<1> QED BY <1>1, SdpInvariant, PTL

-----------------------------------------------------------------------------
\* Positions.

LEMMA AppendKeeps ==
    ASSUME TypeOK, NEW new, mediaSections' = Append(mediaSections, new)
    PROVE  PositionsStep
<1>1. /\ Len(mediaSections') = Len(mediaSections) + 1 /\ Len(mediaSections) \in Nat
      /\ \A k \in DOMAIN mediaSections : mediaSections'[k] = mediaSections[k]
  BY DEF TypeOK
<1> QED BY <1>1 DEF PositionsStep

LEMMA RecycleKeeps ==
    ASSUME TypeOK, IndexFindsSection, NEW new,
           GetNextMediaSectionIdx.reuseMid # NoMid,
           ReplaceMediaSection(new, GetNextMediaSectionIdx.reuseMid)
    PROVE  PositionsStep
<1>1. PICK r \in DOMAIN mediaSections : /\ IsClosed(mediaSections[r])
                                        /\ GetNextMediaSectionIdx.reuseMid = mediaSections[r].mid
                                        /\ GetNextMediaSectionIdx.idx = r - 1
  BY NextIdx
<1>2. IndexOf(mediaSections[r].mid) + 1 = r /\ GetNextMediaSectionIdx.idx + 1 = r
  BY <1>1, Lookup
<1>3. mediaSections' = [mediaSections EXCEPT ![r] = new]
  BY <1>1, <1>2 DEF ReplaceMediaSection
<1>4. /\ Len(mediaSections') = Len(mediaSections) /\ Len(mediaSections) \in Nat
      /\ \A k \in DOMAIN mediaSections : k # r => mediaSections'[k] = mediaSections[k]
  BY <1>3 DEF TypeOK
<1> QED BY <1>1, <1>2, <1>4 DEF PositionsStep

\* A step that keeps the number of m-lines and their mids.
LEMMA EditKeeps ==
    ASSUME TypeOK, Len(mediaSections') = Len(mediaSections),
           \A k \in DOMAIN mediaSections : mediaSections'[k].mid = mediaSections[k].mid
    PROVE  PositionsStep
<1>1. Len(mediaSections) \in Nat
  BY DEF TypeOK
<1> QED BY <1>1 DEF PositionsStep

LEMMA PositionsStepHolds == SdpInv /\ [Next]_vars => [PositionsStep]_vars
<1> SUFFICES ASSUME SdpInv, Next PROVE PositionsStep
  BY DEF PositionsStep
<1> USE DEF SdpInv
<1>1. ASSUME NEW mid \in Mids, Send(mid) \/ Receive(mid) PROVE PositionsStep
  <2>1. PICK new : ReuseOrAdd(new, GetNextMediaSectionIdx.reuseMid)
    BY <1>1 DEF Send, SendLine, Receive
  <2>2. CASE GetNextMediaSectionIdx.reuseMid = NoMid
    BY <2>1, <2>2, AppendKeeps DEF ReuseOrAdd, AddMediaSection
  <2>3. CASE GetNextMediaSectionIdx.reuseMid # NoMid
    BY <2>1, <2>3, RecycleKeeps DEF ReuseOrAdd
  <2> QED BY <2>2, <2>3
<1>2. ASSUME NEW mid \in Mids, SendSctpAssociation(mid) PROVE PositionsStep
  BY <1>2, AppendKeeps DEF SendSctpAssociation, AddMediaSection
<1>3. CASE RecvSctpAssociation
  BY <1>3, AppendKeeps DEF RecvSctpAssociation, AddMediaSection
<1>4. ASSUME NEW i \in IceParams, UpdateIceParameters(i) PROVE PositionsStep
  <2>1. mediaSections' = [k \in DOMAIN mediaSections |-> SetIceParameters(mediaSections[k], i)]
    BY <1>4 DEF UpdateIceParameters
  <2>2. \A k \in DOMAIN mediaSections : mediaSections'[k].mid = mediaSections[k].mid
    BY <2>1, SectionAt DEF SetIceParameters, Section
  <2>3. Len(mediaSections') = Len(mediaSections)
    BY <2>1 DEF TypeOK
  <2> QED BY <2>2, <2>3, EditKeeps
<1>5. ASSUME NEW r \in Roles, UpdateDtlsRole(r) PROVE PositionsStep
  <2>1. mediaSections' = [k \in DOMAIN mediaSections |-> SetDtlsRole(mediaSections[k], r)]
    BY <1>5 DEF UpdateDtlsRole
  <2>2. \A k \in DOMAIN mediaSections : mediaSections'[k].mid = mediaSections[k].mid
    BY <2>1, SectionAt DEF SetDtlsRole, Section
  <2>3. Len(mediaSections') = Len(mediaSections)
    BY <2>1 DEF TypeOK
  <2> QED BY <2>2, <2>3, EditKeeps
<1>6. ASSUME NEW mid \in Mids, DisableMediaSection(mid) \/ CloseMediaSection(mid) PROVE PositionsStep
  <2> DEFINE k == IndexOf(mid) + 1
  <2>1. PICK new : /\ new = Disable(mediaSections[k]) \/ new = Close(mediaSections[k])
                   /\ mediaSections' = [mediaSections EXCEPT ![k] = new]
    BY <1>6 DEF DisableMediaSection, CloseMediaSection
  <2>2. Len(mediaSections') = Len(mediaSections)
    BY <2>1 DEF TypeOK
  <2>3. k \in DOMAIN mediaSections
    BY <1>6, <2>2, LateLookup DEF DisableMediaSection, CloseMediaSection
  <2>4. new.mid = mediaSections[k].mid
    BY <2>1, <2>3, SectionAt, EditType
  <2> HIDE DEF k
  <2>5. \A j \in DOMAIN mediaSections : mediaSections'[j].mid = mediaSections[j].mid
    BY <2>1, <2>3, <2>4
  <2> QED BY <2>2, <2>5, EditKeeps
<1>7. CASE GetSdp
  BY <1>7, EditKeeps DEF GetSdp
<1> QED BY <1>1, <1>2, <1>3, <1>4, <1>5, <1>6, <1>7 DEF Next

(***************************************************************************)
(* No operation removes or reorders m-lines, and only a closed one, the    *)
(* one GetNextMediaSectionIdx announces, is ever given another mid.        *)
(***************************************************************************)
THEOREM PositionsCorrect == Spec => PositionsStable
BY SdpInvariant, PositionsStepHolds, PTL DEF Spec, PositionsStable
=============================================================================
