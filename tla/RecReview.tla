----------------------------- MODULE RecReview -----------------------------
(***************************************************************************)
(* One verified review: the dialogue with the camera inside the single     *)
(* blocking call that CommandEngine makes of rec_review.  runMapped opens  *)
(* the thumbnails, repeats Set until the camera acknowledges it, sends     *)
(* Play and asks for the media status until it is Playing, all against one *)
(* deadline counted from the Thumbnail key.                                *)
(*                                                                         *)
(* A key is a camera call of its own: it is under way while step names it, *)
(* the camera may act on it, and it returns some time later.  Time only    *)
(* passes in this dialogue, so age, the time since it began, advances by   *)
(* what each call and each delay takes.                                    *)
(***************************************************************************)
EXTENDS Integers

CONSTANTS Timeout,        \* replayTimeoutMs
          SetDelay,       \* recReviewSetDelayMs
          PlayDelay,      \* recReviewPlayDelayMs
          RetryDelay,     \* between two Sets, 350 ms
          ProbeDelay,     \* between two probes, 250 ms
          CallTimeout,    \* cameraTimeoutMs: how long a call awaits its answer
          CallMax,        \* the longest call, the session's renewal included
          ProbeMax        \* the longest probe

ASSUME ReviewAssumption ==
  /\ {Timeout, SetDelay, PlayDelay, CallMax, ProbeMax} \subseteq Nat
  /\ {RetryDelay, ProbeDelay, CallTimeout} \subseteq Nat \ {0}
  /\ CallTimeout <= CallMax

VARIABLES step,           \* the call or delay runMapped is in, or its outcome
          age,            \* time since the dialogue began
          obeyed,         \* the camera acted on the key under way
          cameraReachable,
          view,           \* what the camera shows
          acted           \* history: the keys of this review it acted on

vars == <<step, age, obeyed, cameraReachable, view, acted>>

Keys == {"Thumbnail", "Set", "Play"}
Delays == {"SetDelay", "RetryDelay", "PlayDelay", "ProbeDelay"}
Outcomes == {"verified", "failed"}
Views == {"Home", "Opening", "Grid", "Clip", "Playing"}

(* The operator may have left the camera in any view. *)
Init ==
  /\ step = "Thumbnail" /\ age = 0
  /\ obeyed = FALSE /\ cameraReachable \in BOOLEAN
  /\ view \in Views
  /\ acted = {}

-----------------------------------------------------------------------------
(* The camera                                                              *)

(* It acknowledges the keys it acts on and ignores the others. *)
Accepts(key) ==
  \/ key = "Thumbnail" /\ view \notin {"Opening", "Grid"}
  \/ key = "Set" /\ view = "Grid"
  \/ key = "Play" /\ view \in {"Home", "Clip"}

Opens(key) ==
  CASE key = "Thumbnail" -> "Opening" [] key = "Set" -> "Clip" [] key = "Play" -> "Playing"

CameraActs ==
  /\ step \in Keys
  /\ ~obeyed
  /\ Accepts(step)
  /\ view' = Opens(step)
  /\ obeyed' = TRUE
  /\ acted' = acted \cup {step}
  /\ UNCHANGED <<step, age, cameraReachable>>

(* The thumbnails have loaded, or the clip has ended. *)
CameraSettles ==
  /\ \/ view = "Opening" /\ view' = "Grid"
     \/ view = "Playing" /\ view' = "Home"
  /\ UNCHANGED <<step, age, obeyed, cameraReachable, acted>>

-----------------------------------------------------------------------------
(* How the call of a key ends                                              *)

Returns(durations) ==
  /\ \E d \in durations : age' = age + d
  /\ obeyed' = FALSE
  /\ UNCHANGED <<view, acted>>

Answered == obeyed /\ cameraReachable' = TRUE /\ Returns(0..CallMax)

(* No answer in time, whether or not the camera acted; the session closes. *)
Silent == cameraReachable' = TRUE /\ Returns(CallTimeout..CallMax)

(* The closed session was reopened, but its subscription got no answer in  *)
(* time: the same error text as Silent, but no transport and no key sent.  *)
Unprimed == ~obeyed /\ cameraReachable' = FALSE /\ Returns(CallTimeout..CallMax)

(* Every other error: no link, no session, a session lost in the call, or  *)
(* an RPC error.                                                           *)
Broken == cameraReachable' \in BOOLEAN /\ Returns(0..CallMax)

-----------------------------------------------------------------------------
(* The dialogue                                                            *)

(* The loops and Play go on only before the deadline. *)
Continue(next) == step' = IF age' < Timeout THEN next ELSE "failed"

(* An unacknowledged Thumbnail may be open already. *)
ThumbnailReturns ==
  /\ step = "Thumbnail"
  /\ \/ (Answered \/ Silent) /\ step' = "SetDelay"
     \/ (Unprimed \/ Broken) /\ step' = "failed"

(* Slip: a Set without an answer is taken for accepted. *)
SetReturnsHopeful ==
  /\ step = "Set"
  /\ \/ (Answered \/ Silent) /\ step' = "PlayDelay"
     \/ Broken /\ step' = "failed"

SetReturns ==
  /\ step = "Set"
  /\ \/ Answered /\ step' = "PlayDelay"
     \/ /\ Silent \/ Unprimed
        /\ step' = IF age' + RetryDelay < Timeout THEN "RetryDelay" ELSE "failed"
     \/ Broken /\ step' = "failed"

PlayReturns ==
  /\ step = "Play"
  /\ \/ Answered /\ Continue("Probe")
     \/ (Silent \/ Unprimed \/ Broken) /\ step' = "failed"

(* waitForPlayback asks again unless the connection is lost. *)
ProbeReturns ==
  /\ step = "Probe"
  /\ Returns(0..ProbeMax)
  /\ \/ view = "Playing" /\ cameraReachable' = TRUE /\ step' = "verified"
     \/ cameraReachable' = TRUE /\ step' = "ProbeDelay"
     \/ cameraReachable' = FALSE /\ step' = "failed"

Pause(delay) ==
  /\ age' = age + delay
  /\ UNCHANGED <<obeyed, cameraReachable, view, acted>>

SetDelayEnds == step = "SetDelay" /\ Pause(SetDelay) /\ Continue("Set")

RetryDelayEnds == step = "RetryDelay" /\ Pause(RetryDelay) /\ Continue("Set")

(* Slip: Play is sent however late it is. *)
PlayDelayEndsLate == step = "PlayDelay" /\ Pause(PlayDelay) /\ step' = "Play"

PlayDelayEnds == step = "PlayDelay" /\ Pause(PlayDelay) /\ Continue("Play")

(* Slip: the next probe follows at once. *)
ProbeDelayForgotten == step = "ProbeDelay" /\ Pause(0) /\ Continue("Probe")

ProbeDelayEnds == step = "ProbeDelay" /\ Pause(ProbeDelay) /\ Continue("Probe")

ReviewStep ==
  \/ ThumbnailReturns \/ SetReturns \/ PlayReturns \/ ProbeReturns
  \/ SetDelayEnds \/ RetryDelayEnds \/ PlayDelayEnds \/ ProbeDelayEnds

Next == ReviewStep \/ CameraActs \/ CameraSettles

(* Every call and every delay ends; the camera owes nothing. *)
Spec == Init /\ [][Next]_vars /\ WF_vars(ReviewStep)

-----------------------------------------------------------------------------
(* Properties                                                              *)

ReviewTypeOK ==
  /\ step \in Keys \cup Delays \cup {"Probe"} \cup Outcomes
  /\ age \in Nat
  /\ obeyed \in BOOLEAN /\ cameraReachable \in BOOLEAN
  /\ view \in Views
  /\ acted \subseteq Keys

(* "report PLAYBACK_VERIFIED only after its acknowledged Set, explicit     *)
(* Play, and P.Clip.Mediabox.Status=Playing gate complete" (CHANGELOG:8):  *)
(* the playback that was seen is the one this review selected and started, *)
(* never one that ran before it.                                           *)
VerifiedIsOwnPlayback == step = "verified" => {"Set", "Play"} \subseteq acted

(* Play is sent only when the clip is selected: no loss, delay or retry of *)
(* an earlier key leaves the camera in another view by then.               *)
PlayFindsClip == [][ step # "Play" /\ step' = "Play" => view = "Clip" ]_vars

(* "that bounded operation" (docs/ARCHITECTURE.md:44), during which HTTP   *)
(* and TCP wait: the deadline can be overrun by one call and the delay     *)
(* after it, or by one probe and its delay, and by no more.                *)
ReviewBounded ==
  \/ age <= CallMax + SetDelay
  \/ age < Timeout + CallMax + PlayDelay
  \/ age < Timeout + ProbeMax + ProbeDelay

(* The dialogue ends, however the camera and the session behave. *)
ReviewReturns == <>(step \in Outcomes)
=============================================================================
