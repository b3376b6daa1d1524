----------------------------- MODULE MCTelemetry -----------------------------
(* Telemetry, which is polled here and read there; a behaviour is about    *)
(* one of the two, the subject.                                            *)
(*                                                                         *)
(* The schedule has the four sources and, in ticks of 100 ms, the interval *)
(* and the timeout of the defaults: a failing poll takes 6 with the rest   *)
(* of its pass, more than the interval of 5, and the delay grows to 18;    *)
(* an answer takes 1 or 5, the second too slow for four sources.           *)
(*                                                                         *)
(* The feedback has one state that both a source and a notification tell   *)
(* of, one that a header may give an empty text, and a number; one source  *)
(* of two rules, so that an answer may tell of one of them only; and a     *)
(* clock that wraps around after a fresh and a stale age.                  *)
EXTENDS TelemetrySchedule, Feedback

VARIABLE subject

MCFirstDue == [i \in Sources |-> i]

MCStates == {"recording", "ready", "gain_db"}
MCRule(source, mode, trues, falses) == [source |-> source, mode |-> mode, trues |-> trues, falses |-> falses]
MCRules ==
  [s \in MCStates |->
     CASE s = "recording" -> MCRule(1, "json", {"12"}, {"ready"})
       [] s = "ready" -> MCRule(2, "header", {}, {})
       [] s = "gain_db" -> MCRule(1, "whole", {}, {})]
MCStatus(recording, ready) == [s \in {"recording", "ready"} |-> IF s = "recording" THEN recording ELSE ready]
MCProperties ==
  [p \in {"P.Clip.Mediabox.Status", "Camera.Gain.Value", "unknown"} |->
     CASE p = "P.Clip.Mediabox.Status" ->
            [t \in {"Recording", "Standby"} |->
               IF t = "Recording" THEN MCStatus("true", "false") ELSE MCStatus("false", "true")]
       [] p = "Camera.Gain.Value" -> [t \in {"12", "other"} |-> [s \in {"gain_db"} |-> t]]
       [] p = "unknown" -> [t \in {"other"} |-> [s \in {} |-> t]]]
MCResponse(status, json, whole, header) ==
  [transportOk |-> status # 0, httpStatus |-> status,
   part |-> [m \in Modes |-> CASE m = "json" -> json [] m = "whole" -> whole [] m = "header" -> header [] OTHER -> NoText]]
MCCut(status, header) == [MCResponse(status, NoText, Empty, header) EXCEPT !.transportOk = FALSE]
MCResponses ==
  { MCResponse(0, NoText, Empty, NoText), MCResponse(500, NoText, "other", NoText), MCCut(200, "ready"),
    MCResponse(200, NoText, Empty, Empty), MCResponse(200, "12", "1.5", "ready"),
    MCResponse(200, "idle", "12", "true") }

MCInit == subject \in {"schedule", "feedback"} /\ ScheduleInit /\ FeedbackInit
          /\ (subject = "schedule" => millis = 0)
          /\ (subject = "feedback" => enabled = {})

MCNext ==
  /\ \/ subject = "schedule" /\ ScheduleNext /\ UNCHANGED feedbackVars
     \/ subject = "feedback" /\ FeedbackNext /\ UNCHANGED scheduleVars
  /\ UNCHANGED subject

MCVars == <<scheduleVars, feedbackVars, subject>>

(* The fairness of ScheduleSpec, for its own behaviours. *)
MCSpec ==
  /\ MCInit /\ [][MCNext]_MCVars
  /\ WF_MCVars(subject = "schedule" /\ Pass /\ UNCHANGED <<feedbackVars, subject>>)
=============================================================================
