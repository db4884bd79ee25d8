---------------------------- MODULE VideoCapture ----------------------------
(***************************************************************************)
(* The window capture behind the video track:                              *)
(* mssdk/peerconnection/video_capture.cpp, class DestopCapture and the     *)
(* CustomCaptureTrackSource that owns it.                                  *)
(*                                                                         *)
(* The owner's thread calls Start, Stop, Init, Deinit and the destructor;  *)
(* the capture thread runs WindowCaptureProgress: it sets bRunning_, then  *)
(* copies the window into image_data_, scales it into buffer_ and hands    *)
(* the frame to the sinks, until bRunning_ is false.  No lock is shared:   *)
(* only the join in Stop orders the two.  A picture is abstracted to the   *)
(* size of the window it was taken from.                                   *)
(***************************************************************************)
EXTENDS Integers

CONSTANTS Widths, Heights,   \* of the captured window
          MaxStarts          \* bound: capture threads created

ASSUME SizesAssumption     == Widths \subseteq Nat \ {0} /\ Heights \subseteq Nat \ {0}
ASSUME MaxStartsAssumption == MaxStarts \in Nat

Sizes == Widths \X Heights
Area(s) == s[1] * s[2]

NoSize  == <<0, 0>>          \* a minimised window; image_width_, image_height_ at first
NoImage == <<-1, -1>>        \* image_data_ is null

\* What buffer_ holds: nothing (null), never written, or the bytes of a window
\* of size "of" read as a picture of size "as".
Null     == [as |-> NoSize, of |-> NoImage]
Garbage  == [as |-> NoSize, of |-> NoSize]
Pictures == [as : Sizes, of : Sizes]
Contents == {Null, Garbage} \cup Pictures

VARIABLES
    owner,      \* "idle", "stopping", "deiniting", "releasing" (in join),
                \* "released" (destroyed), "crashed" (null cap_thread_ or buffer_)
    capThread,  \* cap_thread_: "none", "created", "top" (at the loop's test),
                \* "updated" (UpdateImage done), "ended"
    bRunning,   \* bRunning_
    window,     \* size of the window now
    image,      \* image_data_: NoImage or the size captured last
    imageSize,  \* image_width_, image_height_
    dataSize,   \* image_data_size_ (in pixels)
    buffer,     \* buffer_, and with it scale_
    frame,      \* the last frame given to OnFrame, Null before
    starts,     \* number of threads created
    unbegun,    \* ghost: bRunning_ was cleared before the thread had set it
    noInit      \* ghost: Start was called after Deinit without Init

vars == <<owner, capThread, bRunning, window, image, imageSize, dataSize, buffer,
          frame, starts, unbegun, noInit>>

picture == <<window, image, imageSize, dataSize, frame>>

\* bRunning_ is not initialised: the thread writes it before anyone reads it.
Init == /\ owner = "idle" /\ capThread = "none"
        /\ bRunning \in BOOLEAN
        /\ window \in Sizes
        /\ image = NoImage /\ imageSize = NoSize /\ dataSize = 0
        /\ buffer = Garbage /\ frame = Null
        /\ starts = 0 /\ unbegun = FALSE /\ noInit = FALSE

-----------------------------------------------------------------------------
\* The owner.

\* Start: returns 1 when there is a thread object.
Start ==
    /\ owner = "idle"
    /\ capThread = "none"
    /\ starts < MaxStarts
    /\ capThread' = "created"
    /\ starts' = starts + 1
    /\ noInit' = (buffer = Null)
    /\ UNCHANGED <<owner, bRunning, picture, buffer, unbegun>>

\* cap_thread_->join(), reached in a call of the given name.
EnterJoin(call) == owner' = IF capThread = "none" THEN "crashed" ELSE call

\* Stop: joins, and leaves bRunning_ as it is.
Stop ==
    /\ owner = "idle"
    /\ EnterJoin("stopping")
    /\ UNCHANGED <<capThread, bRunning, picture, buffer, starts, unbegun, noInit>>

\* Mutant: the join of Deinit commented out, as the line after Stop() is.
DeinitNoJoin(call) ==
    /\ owner = "idle"
    /\ bRunning' = FALSE
    /\ buffer' = Null
    /\ owner' = IF call = "releasing" THEN "released" ELSE "idle"
    /\ UNCHANGED <<capThread, picture, starts, unbegun, noInit>>

\* Deinit, called by the owner or by the destructor, up to the join.
Deinit(call) ==
    /\ owner = "idle"
    /\ bRunning' = FALSE
    /\ unbegun' = (capThread = "created")
    /\ EnterJoin(call)
    /\ UNCHANGED <<capThread, picture, buffer, starts, noInit>>

\* join returns; Stop resets cap_thread_, Deinit deletes scale_ and buffer_.
JoinReturn ==
    /\ owner \in {"stopping", "deiniting", "releasing"}
    /\ capThread = "ended"
    /\ capThread' = "none"
    /\ buffer' = IF owner = "stopping" THEN buffer ELSE Null
    /\ owner' = IF owner = "releasing" THEN "released" ELSE "idle"
    /\ UNCHANGED <<bRunning, picture, starts, unbegun, noInit>>

\* Init again after Deinit: a new scale_ and buffer_.
Reinit ==
    /\ owner = "idle"
    /\ capThread = "none" /\ buffer = Null
    /\ buffer' = Garbage
    /\ UNCHANGED <<owner, capThread, bRunning, picture, starts, unbegun, noInit>>

-----------------------------------------------------------------------------
\* The capture thread.

\* WindowCaptureProgress up to its loop.
ThreadBegin ==
    /\ capThread = "created"
    /\ bRunning' = TRUE
    /\ capThread' = "top"
    /\ UNCHANGED <<owner, picture, buffer, starts, unbegun, noInit>>

\* Mutant: the loop no longer ends once a frame was delivered.
ThreadEndNever ==
    /\ capThread = "top"
    /\ ~bRunning /\ frame = Null
    /\ capThread' = "ended"
    /\ UNCHANGED <<owner, bRunning, picture, buffer, starts, unbegun, noInit>>

ThreadEnd ==
    /\ capThread = "top"
    /\ ~bRunning
    /\ capThread' = "ended"
    /\ UNCHANGED <<owner, bRunning, picture, buffer, starts, unbegun, noInit>>

\* Mutant: the new size is not stored with the new image.
UpdateImageStaleSize ==
    /\ capThread = "top" /\ bRunning
    /\ capThread' = "updated"
    /\ \/ /\ window # NoSize
          /\ dataSize' = Area(window) /\ image' = window
          /\ imageSize' = IF imageSize = NoSize THEN window ELSE imageSize
       \/ UNCHANGED <<image, imageSize, dataSize>>
    /\ UNCHANGED <<owner, bRunning, window, buffer, frame, starts, unbegun, noInit>>

(***************************************************************************)
(* UpdateImage: nothing when the window is minimised or the copy fails;    *)
(* another image_data_ when the number of bytes changed, and only then are *)
(* image_width_ and image_height_ updated; nothing more when the           *)
(* allocation fails.  GetDIBits does nothing to a null image_data_.        *)
(***************************************************************************)
UpdateImage ==
    /\ capThread = "top" /\ bRunning
    /\ capThread' = "updated"
    /\ \/ /\ window # NoSize
          /\ dataSize # Area(window)
          /\ dataSize' = Area(window) /\ imageSize' = window
          /\ image' \in {window, NoImage}
       \/ /\ window # NoSize
          /\ dataSize = Area(window)
          /\ image' = IF image = NoImage THEN NoImage ELSE window
          /\ UNCHANGED <<imageSize, dataSize>>
       \/ UNCHANGED <<image, imageSize, dataSize>>
    /\ UNCHANGED <<owner, bRunning, window, buffer, frame, starts, unbegun, noInit>>

\* What scale() leaves in buffer_: unchanged when there is no image to convert.
Scaled == IF image = NoImage THEN buffer ELSE [as |-> imageSize, of |-> image]

\* Mutant: scaled from the size of the window now.
DeliverImageNow ==
    /\ capThread = "updated"
    /\ capThread' = "top"
    /\ frame' = [as |-> window, of |-> image]
    /\ UNCHANGED <<owner, bRunning, window, image, imageSize, dataSize, buffer, starts,
                   unbegun, noInit>>

(***************************************************************************)
(* DeliverImage and OnFrame, without the frames the adapter drops.  A      *)
(* frame cannot be built on a null buffer_ (a check of libwebrtc).         *)
(***************************************************************************)
DeliverImage ==
    /\ capThread = "updated"
    /\ \/ /\ buffer # Null
          /\ capThread' = "top"
          /\ buffer' = Scaled /\ frame' = Scaled
          /\ UNCHANGED owner
       \/ /\ buffer = Null
          /\ owner' = "crashed" /\ capThread' = "ended"
          /\ UNCHANGED <<buffer, frame>>
    /\ UNCHANGED <<bRunning, window, image, imageSize, dataSize, starts, unbegun, noInit>>

\* The user resizes or minimises the window (external).
Resize ==
    /\ window' \in (Sizes \cup {NoSize}) \ {window}
    /\ UNCHANGED <<owner, capThread, bRunning, image, imageSize, dataSize, buffer, frame,
                   starts, unbegun, noInit>>

-----------------------------------------------------------------------------

Next == \/ Start \/ Stop \/ Deinit("deiniting") \/ Deinit("releasing")
        \/ JoinReturn \/ Reinit
        \/ ThreadBegin \/ ThreadEnd \/ UpdateImage \/ DeliverImage
        \/ Resize

\* The operating system runs the thread and wakes the owner when it ended.
Fairness == WF_vars(JoinReturn) /\ WF_vars(ThreadBegin) /\ WF_vars(ThreadEnd)
            /\ WF_vars(UpdateImage) /\ WF_vars(DeliverImage)

Spec == Init /\ [][Next]_vars /\ Fairness

-----------------------------------------------------------------------------

TypeOK == /\ owner \in {"idle", "stopping", "deiniting", "releasing", "released", "crashed"}
          /\ capThread \in {"none", "created", "top", "updated", "ended"}
          /\ bRunning \in BOOLEAN
          /\ window \in Sizes \cup {NoSize}
          /\ image \in Sizes \cup {NoImage}
          /\ imageSize \in Sizes \cup {NoSize}
          /\ dataSize \in {Area(s) : s \in Sizes} \cup {0}
          /\ buffer \in Contents /\ frame \in Contents
          /\ starts \in 0..MaxStarts /\ unbegun \in BOOLEAN /\ noInit \in BOOLEAN

(***************************************************************************)
(* The thread never works on what Deinit deleted: while it is between the  *)
(* test of bRunning_ and the delivery, buffer_ and scale_ are there, and a *)
(* destroyed object has no thread (the join of Deinit).  The exception is  *)
(* a Start after a Deinit, which Start does not refuse.                    *)
(***************************************************************************)
NoUseAfterDeinit ==
    /\ capThread \in {"created", "top", "updated"} => buffer # Null \/ noInit
    /\ owner = "released" => capThread = "none"

(***************************************************************************)
(* The picture delivered is read with the size it was taken with.  The     *)
(* code compares byte counts only, so a window whose width and height      *)
(* change and whose area does not is delivered skewed; and a frame is      *)
(* garbage when no capture had succeeded before it (UpdateImage's early    *)
(* returns are ignored by DeliverImage).                                   *)
(***************************************************************************)
FrameShape ==
    frame \notin {Null, Garbage} => Area(frame.as) = Area(frame.of)

(***************************************************************************)
(* Deinit ends, and with it the destructor of the track's source: the      *)
(* thread sees bRunning_ false within one frame.  Except when Deinit comes *)
(* before the thread's first statement, bRunning_ = true, which undoes it: *)
(* the owner is then blocked in join for ever.                             *)
(***************************************************************************)
DeinitReturns ==
    owner \in {"deiniting", "releasing"} /\ ~unbegun
        ~> owner \notin {"deiniting", "releasing"}
=============================================================================
