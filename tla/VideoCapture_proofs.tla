------------------------- MODULE VideoCapture_proofs -------------------------
(***************************************************************************)
(* The invariants of VideoCapture, for windows of any size and any number  *)
(* of capture threads.  What the area of a size is plays no part.          *)
(***************************************************************************)
EXTENDS VideoCapture, TLAPS

\* What image_data_ holds has the number of bytes image_data_size_ says, and so
\* has a picture of the stored size.
ImageShape == image # NoImage => /\ imageSize \in Sizes
                                 /\ Area(imageSize) = dataSize /\ Area(image) = dataSize

Shaped(b) == b \notin {Null, Garbage} => Area(b.as) = Area(b.of)

CaptureInv == TypeOK /\ ImageShape /\ Shaped(buffer) /\ FrameShape /\ NoUseAfterDeinit

\* TypeOK in parts: the owner and its thread, the picture, and what was scaled.
OwnerTypes ==
    /\ owner \in {"idle", "stopping", "deiniting", "releasing", "released", "crashed"}
    /\ capThread \in {"none", "created", "top", "updated", "ended"}
    /\ starts \in 0..MaxStarts
FlagTypes == bRunning \in BOOLEAN /\ unbegun \in BOOLEAN /\ noInit \in BOOLEAN
PictureTypes ==
    /\ window \in Sizes \cup {NoSize}
    /\ image \in Sizes \cup {NoImage}
    /\ imageSize \in Sizes \cup {NoSize}
    /\ dataSize \in {Area(s) : s \in Sizes} \cup {0}
BufferTypes == buffer \in Contents /\ frame \in Contents

LEMMA TypeParts == /\ TypeOK <=> OwnerTypes /\ FlagTypes /\ PictureTypes /\ BufferTypes
                   /\ TypeOK' <=> OwnerTypes' /\ FlagTypes' /\ PictureTypes' /\ BufferTypes'
BY DEF TypeOK, OwnerTypes, FlagTypes, PictureTypes, BufferTypes

LEMMA CaptureInit == Init => CaptureInv
<1> SUFFICES ASSUME Init PROVE CaptureInv
  OBVIOUS
<1>1. OwnerTypes
  BY MaxStartsAssumption DEF Init, OwnerTypes
<1>2. FlagTypes
  BY DEF Init, FlagTypes
<1>3. PictureTypes
  BY DEF Init, PictureTypes
<1>4. BufferTypes
  BY DEF Init, BufferTypes, Contents
<1>5. ImageShape /\ Shaped(buffer) /\ FrameShape
  BY DEF Init, ImageShape, Shaped, FrameShape
<1>6. NoUseAfterDeinit
  BY DEF Init, NoUseAfterDeinit
<1> QED BY <1>1, <1>2, <1>3, <1>4, <1>5, <1>6, TypeParts DEF CaptureInv

\* A step that leaves the picture and the two buffers as they were.
LEMMA PictureKept ==
    ASSUME CaptureInv, UNCHANGED <<image, imageSize, dataSize, buffer, frame>>,
           window' \in Sizes \cup {NoSize}
    PROVE  PictureTypes' /\ BufferTypes' /\ ImageShape' /\ Shaped(buffer)' /\ FrameShape'
<1>1. PictureTypes' /\ BufferTypes'
  BY TypeParts DEF CaptureInv, PictureTypes, BufferTypes
<1>2. ImageShape' /\ Shaped(buffer)' /\ FrameShape'
  BY DEF CaptureInv, ImageShape, Shaped, FrameShape
<1> QED BY <1>1, <1>2

LEMMA OwnerKeeps ==
    ASSUME CaptureInv,
           Start \/ Stop \/ Deinit("deiniting") \/ Deinit("releasing")
    PROVE  CaptureInv'
<1>0. OwnerTypes /\ FlagTypes /\ PictureTypes /\ NoUseAfterDeinit
  BY TypeParts DEF CaptureInv
<1>1. UNCHANGED <<picture, buffer>>
  BY DEF Start, Stop, Deinit
<1>2. PictureTypes' /\ BufferTypes' /\ ImageShape' /\ Shaped(buffer)' /\ FrameShape'
  BY <1>0, <1>1, PictureKept DEF picture, PictureTypes
<1>3. OwnerTypes'
  BY <1>0, MaxStartsAssumption DEF Start, Stop, Deinit, EnterJoin, OwnerTypes
<1>4. FlagTypes'
  BY <1>0 DEF Start, Stop, Deinit, FlagTypes
<1>5. NoUseAfterDeinit'
  BY <1>0 DEF Start, Stop, Deinit, EnterJoin, NoUseAfterDeinit
<1> QED BY <1>2, <1>3, <1>4, <1>5, TypeParts DEF CaptureInv

LEMMA JoinReturnKeeps == ASSUME CaptureInv, JoinReturn PROVE CaptureInv'
<1>0. OwnerTypes /\ FlagTypes /\ PictureTypes /\ BufferTypes
  BY TypeParts DEF CaptureInv
<1>1. buffer' \in {buffer, Null} /\ UNCHANGED picture
  BY DEF JoinReturn
<1>2. PictureTypes' /\ BufferTypes'
  BY <1>0, <1>1 DEF picture, PictureTypes, BufferTypes, Contents
<1>3. ImageShape' /\ Shaped(buffer)' /\ FrameShape'
  BY <1>1 DEF CaptureInv, picture, ImageShape, Shaped, FrameShape
<1>4. OwnerTypes' /\ FlagTypes'
  BY <1>0 DEF JoinReturn, OwnerTypes, FlagTypes
<1>5. NoUseAfterDeinit'
  BY DEF JoinReturn, NoUseAfterDeinit
<1> QED BY <1>2, <1>3, <1>4, <1>5, TypeParts DEF CaptureInv

LEMMA ReinitKeeps == ASSUME CaptureInv, Reinit PROVE CaptureInv'
<1>0. OwnerTypes /\ FlagTypes /\ PictureTypes /\ BufferTypes
  BY TypeParts DEF CaptureInv
<1>1. PictureTypes' /\ BufferTypes'
  BY <1>0 DEF Reinit, picture, PictureTypes, BufferTypes, Contents
<1>2. ImageShape' /\ Shaped(buffer)' /\ FrameShape'
  BY DEF CaptureInv, Reinit, picture, ImageShape, Shaped, FrameShape
<1>3. OwnerTypes' /\ FlagTypes'
  BY <1>0 DEF Reinit, OwnerTypes, FlagTypes
<1>4. NoUseAfterDeinit'
  BY DEF CaptureInv, Reinit, NoUseAfterDeinit
<1> QED BY <1>1, <1>2, <1>3, <1>4, TypeParts DEF CaptureInv

\* The beginning and the end of the thread, and the user's changes of the window.
LEMMA FrameKept == ASSUME CaptureInv, ThreadBegin \/ ThreadEnd \/ Resize PROVE CaptureInv'
<1>0. OwnerTypes /\ FlagTypes /\ PictureTypes
  BY TypeParts DEF CaptureInv
<1>1. UNCHANGED <<image, imageSize, dataSize, buffer, frame>>
  BY DEF ThreadBegin, ThreadEnd, Resize, picture
<1>2. window' \in Sizes \cup {NoSize}
  BY <1>0 DEF ThreadBegin, ThreadEnd, Resize, picture, PictureTypes
<1>3. PictureTypes' /\ BufferTypes' /\ ImageShape' /\ Shaped(buffer)' /\ FrameShape'
  BY <1>1, <1>2, PictureKept
<1>4. OwnerTypes' /\ FlagTypes'
  BY <1>0 DEF ThreadBegin, ThreadEnd, Resize, OwnerTypes, FlagTypes
<1>5. NoUseAfterDeinit'
  BY DEF CaptureInv, ThreadBegin, ThreadEnd, Resize, NoUseAfterDeinit
<1> QED BY <1>3, <1>4, <1>5, TypeParts DEF CaptureInv

LEMMA UpdateImageKeeps == ASSUME CaptureInv, UpdateImage PROVE CaptureInv'
<1>0. OwnerTypes /\ FlagTypes /\ PictureTypes /\ BufferTypes /\ ImageShape
  BY TypeParts DEF CaptureInv
<1>1. OwnerTypes' /\ FlagTypes'
  BY <1>0 DEF UpdateImage, OwnerTypes, FlagTypes
<1>2. window # NoSize => window \in Sizes /\ Area(window) \in {Area(s) : s \in Sizes}
  BY <1>0 DEF PictureTypes
<1>3. PictureTypes' /\ BufferTypes'
  BY <1>0, <1>2 DEF UpdateImage, PictureTypes, BufferTypes
<1>4. ImageShape'
  BY <1>0, <1>2 DEF UpdateImage, ImageShape
<1>5. Shaped(buffer)' /\ FrameShape' /\ NoUseAfterDeinit'
  BY DEF CaptureInv, UpdateImage, Shaped, FrameShape, NoUseAfterDeinit
<1> QED BY <1>1, <1>3, <1>4, <1>5, TypeParts DEF CaptureInv

LEMMA DeliverImageKeeps == ASSUME CaptureInv, DeliverImage PROVE CaptureInv'
<1>0. OwnerTypes /\ FlagTypes /\ PictureTypes /\ BufferTypes /\ ImageShape
  BY TypeParts DEF CaptureInv
<1>1. Scaled \in Contents /\ Shaped(Scaled) /\ (buffer # Null => Scaled # Null)
  <2>1. CASE image = NoImage
    BY <2>1, <1>0 DEF CaptureInv, Scaled, BufferTypes
  <2>2. CASE image # NoImage
    <3>1. image \in Sizes /\ imageSize \in Sizes /\ Area(imageSize) = Area(image)
      BY <2>2, <1>0 DEF PictureTypes, ImageShape
    <3>2. Scaled = [as |-> imageSize, of |-> image]
      BY <2>2 DEF Scaled
    <3>3. Scaled.as = imageSize /\ Scaled.of = image /\ Scaled \in Pictures
      BY <3>1, <3>2 DEF Pictures
    <3>4. Null.of = NoImage
      BY DEF Null
    <3> QED BY <2>2, <3>1, <3>3, <3>4 DEF Contents, Shaped
  <2> QED BY <2>1, <2>2
<1>2. \/ buffer' = Scaled /\ frame' = Scaled /\ buffer # Null /\ capThread' = "top"
         /\ UNCHANGED owner
      \/ UNCHANGED <<buffer, frame>> /\ owner' = "crashed" /\ capThread' = "ended"
  BY DEF DeliverImage
<1>3. UNCHANGED <<bRunning, window, image, imageSize, dataSize, starts, unbegun, noInit>>
  BY DEF DeliverImage
<1>4. OwnerTypes' /\ FlagTypes' /\ PictureTypes'
  BY <1>0, <1>2, <1>3 DEF OwnerTypes, FlagTypes, PictureTypes
<1>5. BufferTypes' /\ ImageShape'
  BY <1>0, <1>1, <1>2, <1>3 DEF BufferTypes, ImageShape
<1>6. Shaped(buffer)' /\ FrameShape'
  BY <1>1, <1>2 DEF CaptureInv, Shaped, FrameShape
<1>7. NoUseAfterDeinit'
  BY <1>1, <1>2, <1>3 DEF CaptureInv, NoUseAfterDeinit, DeliverImage
<1> QED BY <1>4, <1>5, <1>6, <1>7, TypeParts DEF CaptureInv

LEMMA CaptureStep == CaptureInv /\ [Next]_vars => CaptureInv'
<1> SUFFICES ASSUME CaptureInv, [Next]_vars PROVE CaptureInv'
  OBVIOUS
<1>1. CASE Start \/ Stop \/ Deinit("deiniting") \/ Deinit("releasing")
  BY <1>1, OwnerKeeps
<1>2. CASE JoinReturn \/ Reinit
  BY <1>2, JoinReturnKeeps, ReinitKeeps
<1>3. CASE ThreadBegin \/ ThreadEnd \/ Resize
  BY <1>3, FrameKept
<1>4. CASE UpdateImage \/ DeliverImage
  BY <1>4, UpdateImageKeeps, DeliverImageKeeps
<1>5. CASE UNCHANGED vars
  <2> USE <1>5 DEF vars, picture
  <2>1. window' \in Sizes \cup {NoSize}
    BY TypeParts DEF CaptureInv, PictureTypes
  <2>2. PictureTypes' /\ BufferTypes' /\ ImageShape' /\ Shaped(buffer)' /\ FrameShape'
    BY <2>1, PictureKept
  <2>3. OwnerTypes' /\ FlagTypes'
    BY TypeParts DEF CaptureInv, OwnerTypes, FlagTypes
  <2>4. NoUseAfterDeinit'
    BY DEF CaptureInv, NoUseAfterDeinit
  <2> QED BY <2>2, <2>3, <2>4, TypeParts DEF CaptureInv
<1> QED BY <1>1, <1>2, <1>3, <1>4, <1>5 DEF Next

LEMMA CaptureAlways == Spec => []CaptureInv
BY CaptureInit, CaptureStep, PTL DEF Spec

-----------------------------------------------------------------------------

\* Types, for any window sizes (DestopCapture's members).
THEOREM TypeCorrect == Spec => []TypeOK
<1>1. CaptureInv => TypeOK
  BY DEF CaptureInv
<1> QED BY <1>1, CaptureAlways, PTL

\* The capture thread never runs on the buffer_ and scale_ Deinit deleted, unless
\* Start was called after Deinit.
THEOREM DeinitCorrect == Spec => []NoUseAfterDeinit
<1>1. CaptureInv => NoUseAfterDeinit
  BY DEF CaptureInv
<1> QED BY <1>1, CaptureAlways, PTL

\* A frame is read with a size of as many bytes as the window it was taken from,
\* because UpdateImage reallocates exactly when the number of bytes changes.
THEOREM FrameCorrect == Spec => []FrameShape
<1>1. CaptureInv => FrameShape
  BY DEF CaptureInv
<1> QED BY <1>1, CaptureAlways, PTL
=============================================================================
