-------------------------- MODULE RecReview_proofs --------------------------
(***************************************************************************)
(* Proofs that a review reports only playback of its own, sends Play only  *)
(* to a selected clip and is bounded, for every delay and every timeout.   *)
(***************************************************************************)
EXTENDS RecReview, TLAPS

(* How far the dialogue has come with the camera. *)
DialogueInv ==
  /\ ReviewTypeOK
  /\ obeyed => step \in Keys /\ step \in acted
  /\ step = "Set" /\ obeyed => view = "Clip"
  /\ step = "PlayDelay" \/ (step = "Play" /\ ~obeyed) => view = "Clip"
  /\ step \in {"PlayDelay", "Play", "Probe", "ProbeDelay", "verified"} => "Set" \in acted
  /\ step \in {"Probe", "ProbeDelay", "verified"} => "Play" \in acted

(* How late each call and each delay can begin. *)
TimeInv ==
  /\ step = "Thumbnail" => age = 0
  /\ step = "SetDelay" => age <= CallMax
  /\ step \in {"Set", "Play", "Probe"} => age < Timeout
  /\ step = "RetryDelay" => age + RetryDelay < Timeout
  /\ step = "PlayDelay" => age < Timeout + CallMax
  /\ step \in {"ProbeDelay", "verified"} => age < Timeout + ProbeMax
  /\ step = "failed" => ReviewBounded

(* What the numbers are, and how long a call takes. *)
LEMMA ConstantsAreNatural ==
  /\ Timeout \in Nat /\ SetDelay \in Nat /\ PlayDelay \in Nat
  /\ CallMax \in Nat /\ ProbeMax \in Nat
  /\ RetryDelay \in Nat /\ ProbeDelay \in Nat /\ CallTimeout \in Nat
BY ReviewAssumption

LEMMA CallDuration ==
  ASSUME age \in Nat, Answered \/ Silent \/ Unprimed \/ Broken
  PROVE  /\ age' \in Nat /\ age' <= age + CallMax
         /\ obeyed' = FALSE /\ cameraReachable' \in BOOLEAN
         /\ UNCHANGED <<view, acted>>
<1>1. ASSUME NEW durations, durations \subseteq 0..CallMax, Returns(durations)
      PROVE  /\ age' \in Nat /\ age' <= age + CallMax
             /\ obeyed' = FALSE /\ UNCHANGED <<view, acted>>
  <2>1. PICK d \in durations : age' = age + d
        BY <1>1 DEF Returns
  <2>2. d \in 0..CallMax
        BY <1>1
  <2> QED
      BY <1>1, <2>1, <2>2, ConstantsAreNatural DEF Returns
<1>2. CallTimeout..CallMax \subseteq 0..CallMax
      BY ConstantsAreNatural
<1>3. 0..CallMax \subseteq 0..CallMax
      OBVIOUS
<1>4. Returns(0..CallMax) \/ Returns(CallTimeout..CallMax)
      BY DEF Answered, Silent, Unprimed, Broken
<1>5. cameraReachable' \in BOOLEAN
      BY DEF Answered, Silent, Unprimed, Broken
<1> QED
    BY <1>1, <1>2, <1>3, <1>4, <1>5

LEMMA ProbeDuration ==
  ASSUME age \in Nat, Returns(0..ProbeMax)
  PROVE  age' \in Nat /\ age' <= age + ProbeMax
<1>1. PICK d \in 0..ProbeMax : age' = age + d
      BY DEF Returns
<1> QED
    BY <1>1, ConstantsAreNatural

(* The camera's view and the keys it acted on follow the dialogue. *)
LEMMA DialogueStep == DialogueInv /\ [Next]_vars => DialogueInv'
<1> SUFFICES ASSUME DialogueInv, [Next]_vars
             PROVE  DialogueInv'
    OBVIOUS
<1> USE ConstantsAreNatural DEF DialogueInv, ReviewTypeOK, Keys, Delays, Outcomes, Views
<1>1. CASE ThumbnailReturns
      BY <1>1, CallDuration DEF ThumbnailReturns
<1>2. CASE SetReturns
  <2>1. CASE Answered
        BY <1>2, <2>1, CallDuration DEF SetReturns, Answered
  <2>2. CASE step' \in {"RetryDelay", "failed"}
        BY <1>2, <2>2, CallDuration DEF SetReturns
  <2> QED
      BY <1>2, <2>1, <2>2 DEF SetReturns
<1>3. CASE PlayReturns
  <2>1. CASE Answered
        BY <1>3, <2>1, CallDuration DEF PlayReturns, Answered, Continue
  <2>2. CASE step' = "failed"
        BY <1>3, <2>2, CallDuration DEF PlayReturns
  <2> QED
      BY <1>3, <2>1, <2>2 DEF PlayReturns
<1>4. CASE ProbeReturns
  <2>1. step = "Probe" /\ step' \in {"verified", "ProbeDelay", "failed"}
        BY <1>4 DEF ProbeReturns
  <2>2. age' \in Nat
        BY <1>4, ProbeDuration DEF ProbeReturns
  <2>3. obeyed' = FALSE /\ cameraReachable' \in BOOLEAN /\ UNCHANGED <<view, acted>>
        BY <1>4 DEF ProbeReturns, Returns
  <2> QED
      BY <2>1, <2>2, <2>3
<1>5. CASE SetDelayEnds
      BY <1>5 DEF SetDelayEnds, Pause, Continue
<1>6. CASE RetryDelayEnds
      BY <1>6 DEF RetryDelayEnds, Pause, Continue
<1>7. CASE PlayDelayEnds
      BY <1>7 DEF PlayDelayEnds, Pause, Continue
<1>8. CASE ProbeDelayEnds
      BY <1>8 DEF ProbeDelayEnds, Pause, Continue
<1>9. CASE CameraActs
      BY <1>9 DEF CameraActs, Accepts, Opens
<1>10. CASE CameraSettles
      BY <1>10 DEF CameraSettles
<1>11. CASE UNCHANGED vars
      BY <1>11 DEF vars
<1> QED
    BY <1>1, <1>2, <1>3, <1>4, <1>5, <1>6, <1>7, <1>8, <1>9, <1>10, <1>11 DEF Next, ReviewStep

(* The invariant of the dialogue holds in every reachable state. *)
THEOREM DialogueInvariant == Spec => []DialogueInv
<1>1. ASSUME Init
      PROVE  DialogueInv
  <2>1. step = "Thumbnail" /\ age = 0 /\ ~obeyed /\ acted = {}
        BY <1>1 DEF Init
  <2>2. ReviewTypeOK
        BY <1>1 DEF Init, ReviewTypeOK, Keys
  <2> QED
      BY <2>1, <2>2 DEF DialogueInv
<1> QED
    BY <1>1, DialogueStep, PTL DEF Spec

(* Type correctness. *)
THEOREM ReviewTypesHold == Spec => []ReviewTypeOK
<1>1. DialogueInv => ReviewTypeOK
      BY DEF DialogueInv
<1> QED
    BY <1>1, DialogueInvariant, PTL

(* The playback a review reports is the one it selected and started. *)
THEOREM VerifiedIsAlwaysOwnPlayback == Spec => []VerifiedIsOwnPlayback
<1>1. DialogueInv => VerifiedIsOwnPlayback
      BY DEF DialogueInv, VerifiedIsOwnPlayback
<1> QED
    BY <1>1, DialogueInvariant, PTL

(* Play is never sent to a camera that shows anything but a clip. *)
THEOREM PlayAlwaysFindsClip == Spec => PlayFindsClip
<1>1. DialogueInv /\ [Next]_vars => [step # "Play" /\ step' = "Play" => view = "Clip"]_vars
  <2> SUFFICES ASSUME DialogueInv, Next, step # "Play", step' = "Play"
               PROVE  view = "Clip"
      OBVIOUS
  <2>1. step = "PlayDelay"
        BY DEF Next, ReviewStep, ThumbnailReturns, SetReturns, PlayReturns, ProbeReturns,
               SetDelayEnds, RetryDelayEnds, PlayDelayEnds, ProbeDelayEnds, Continue,
               CameraActs, CameraSettles
  <2> QED
      BY <2>1 DEF DialogueInv
<1> QED
    BY <1>1, DialogueInvariant, PTL DEF Spec, PlayFindsClip

(* Every step keeps to its time. *)
LEMMA TimeStep == ReviewTypeOK /\ TimeInv /\ [Next]_vars => TimeInv'
<1> SUFFICES ASSUME ReviewTypeOK, TimeInv, [Next]_vars
             PROVE  TimeInv'
    OBVIOUS
<1> USE ConstantsAreNatural DEF TimeInv, ReviewBounded
<1>0. age \in Nat
      BY DEF ReviewTypeOK
<1>1. CASE ThumbnailReturns
  <2>1. age' <= age + CallMax /\ age' \in Nat
        BY <1>0, <1>1, CallDuration DEF ThumbnailReturns
  <2>2. step = "Thumbnail" /\ step' \in {"SetDelay", "failed"}
        BY <1>1 DEF ThumbnailReturns, Continue
  <2>3. CASE step' = "SetDelay"
        BY <1>0, <2>1, <2>2, <2>3
  <2>4. CASE step' = "failed"
        BY <1>0, <2>1, <2>2, <2>4
  <2> QED
      BY <2>2, <2>3, <2>4
<1>2. CASE SetReturns
  <2>1. age' <= age + CallMax /\ age' \in Nat
        BY <1>0, <1>2, CallDuration DEF SetReturns
  <2>2. step = "Set" /\ step' \in {"PlayDelay", "RetryDelay", "failed"}
        BY <1>2 DEF SetReturns, Continue
  <2>3. step' = "RetryDelay" => age' + RetryDelay < Timeout
        BY <1>2 DEF SetReturns, Continue
  <2>4. CASE step' = "PlayDelay"
        BY <1>0, <2>1, <2>2, <2>3, <2>4
  <2>5. CASE step' = "RetryDelay"
        BY <1>0, <2>1, <2>2, <2>3, <2>5
  <2>6. CASE step' = "failed"
        BY <1>0, <2>1, <2>2, <2>3, <2>6
  <2> QED
      BY <2>2, <2>4, <2>5, <2>6
<1>3. CASE PlayReturns
  <2>1. age' <= age + CallMax /\ age' \in Nat
        BY <1>0, <1>3, CallDuration DEF PlayReturns
  <2>2. step = "Play" /\ step' \in {"Probe", "failed"}
        BY <1>3 DEF PlayReturns, Continue
  <2>3. step' = "Probe" => age' < Timeout
        BY <1>3 DEF PlayReturns, Continue
  <2>4. CASE step' = "Probe"
        BY <1>0, <2>1, <2>2, <2>3, <2>4
  <2>5. CASE step' = "failed"
        BY <1>0, <2>1, <2>2, <2>3, <2>5
  <2> QED
      BY <2>2, <2>4, <2>5
<1>4. CASE ProbeReturns
  <2>1. age' <= age + ProbeMax /\ age' \in Nat
        BY <1>0, <1>4, ProbeDuration DEF ProbeReturns
  <2>2. step = "Probe" /\ step' \in {"verified", "ProbeDelay", "failed"}
        BY <1>4 DEF ProbeReturns, Continue
  <2>3. CASE step' = "verified"
        BY <1>0, <2>1, <2>2, <2>3
  <2>4. CASE step' = "ProbeDelay"
        BY <1>0, <2>1, <2>2, <2>4
  <2>5. CASE step' = "failed"
        BY <1>0, <2>1, <2>2, <2>5
  <2> QED
      BY <2>2, <2>3, <2>4, <2>5
<1>5. CASE SetDelayEnds
      BY <1>0, <1>5 DEF SetDelayEnds, Pause, Continue
<1>6. CASE RetryDelayEnds
      BY <1>0, <1>6 DEF RetryDelayEnds, Pause, Continue
<1>7. CASE PlayDelayEnds
      BY <1>0, <1>7 DEF PlayDelayEnds, Pause, Continue
<1>8. CASE ProbeDelayEnds
      BY <1>0, <1>8 DEF ProbeDelayEnds, Pause, Continue
<1>9. CASE CameraActs \/ CameraSettles \/ UNCHANGED vars
      BY <1>9 DEF CameraActs, CameraSettles, vars
<1> QED
    BY <1>1, <1>2, <1>3, <1>4, <1>5, <1>6, <1>7, <1>8, <1>9 DEF Next, ReviewStep

(* The dialogue never takes longer than ReviewBounded allows. *)
THEOREM ReviewAlwaysBounded == Spec => []ReviewBounded
<1>1. Init => TimeInv
      BY DEF Init, TimeInv
<1>2. ReviewTypeOK /\ TimeInv => ReviewBounded
      BY ConstantsAreNatural DEF ReviewTypeOK, TimeInv, ReviewBounded, Keys, Delays, Outcomes
<1> QED
    BY <1>1, <1>2, TimeStep, ReviewTypesHold, PTL DEF Spec
=============================================================================
