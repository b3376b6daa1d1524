----------------------------- MODULE SonyCamera -----------------------------
(***************************************************************************)
(* The environment of the bridge: the FS7 and the Wi-Fi link to it, as the *)
(* bridge uses them (external), and the two ways the camera's condition    *)
(* reaches the state store.  A /linear notification of                     *)
(* P.Clip.Mediabox.Status sets every id derived from it at once.  It waits *)
(* in the session's socket, in order with the answers to commands, until   *)
(* the bridge reads it; a sample is as old as its reading.  An HTTP poll   *)
(* of the telemetry map sets one id and may return a text the store cannot *)
(* interpret.                                                              *)
(***************************************************************************)
EXTENDS CameraStateStore, Sequences

CONSTANTS Notifies,       \* the camera pushes /linear notifications
          Unread,         \* bound on the notifications not read yet
          Polled          \* state ids the telemetry map polls

ASSUME FeedbackAssumption ==
  Notifies \in BOOLEAN /\ Unread \in Nat /\ Polled \subseteq StateIds

VARIABLES camera,         \* the camera's real condition
          link,           \* the bridge is associated with the camera's Wi-Fi
          wire            \* what the /linear session sent and nobody read

Conditions == {"Standby", "Recording", "Writing", "Playing"}

(* The answer to the command under way.  A session that fails to bring it  *)
(* is closed, so the answer to an earlier command is never on the wire.    *)
Answer == "answer"
AnswerWaits == \E i \in DOMAIN wire : wire[i] = Answer

(* The bridge may be powered up beside a camera that is doing anything. *)
CameraInit == camera \in Conditions /\ link = FALSE /\ wire = <<>>

(* What a command makes of the camera's condition. *)
Obeyed(condition, id) ==
  CASE condition = "Standby" /\ id \in {"record_start", "record_toggle"} -> "Recording"
    [] condition = "Recording" /\ id \in {"record_stop", "record_toggle"} -> "Writing"
    [] condition = "Standby" /\ id \in {"rec_review", "play"} -> "Playing"
    [] condition = "Playing" /\ id = "stop_playback" -> "Standby"
    [] OTHER -> condition

(* The clip is closed, or playback reaches its end. *)
CameraSettles ==
  /\ camera \in {"Writing", "Playing"}
  /\ camera' = "Standby"
  /\ UNCHANGED <<link, wire, sample>>

LinkChanges ==
  /\ link' = ~link
  /\ UNCHANGED <<camera, wire, sample>>

(* The session ends, or the bridge closes it; what was not read is lost. *)
SessionEnds ==
  /\ wire # <<>>
  /\ wire' = <<>>
  /\ UNCHANGED <<camera, link, sample>>

Notify ==
  /\ Notifies /\ link
  /\ Len(wire) < Unread
  /\ wire' = Append(wire, camera)
  /\ UNCHANGED <<camera, link, sample>>

Text(b) == IF b THEN "true" ELSE "false"

(* The state ids applyProperty derives from a media status. *)
Reported(condition) ==
  [id \in StateIds |->
     CASE id = "ready" -> Text(condition = "Standby")
       [] id = "writing" -> Text(condition = "Writing")
       [] id = "recording" -> Text(condition = "Recording")
       [] id = "playback" -> Text(condition = "Playing")]

ReadNotification ==
  /\ wire # <<>> /\ Head(wire) # Answer
  /\ StoreSet(Reported(Head(wire)))
  /\ wire' = Tail(wire)
  /\ UNCHANGED <<camera, link>>

PollAnswers(id) == {Reported(camera)[id], "other"}

Poll(id, raw) ==
  /\ link
  /\ StoreSet([i \in {id} |-> raw])
  /\ UNCHANGED <<camera, link, wire>>
=============================================================================
