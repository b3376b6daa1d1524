-------------------------- MODULE MCCommandEngine --------------------------
(* Values for model-checking the command engine on its own. *)
EXTENDS CommandEngine

MCCommands == {"record_start", "record_stop", "record_toggle", "rec_review"}

(* The defaults scaled to ticks: the review may not start before 1, the    *)
(* macro gives up after 3, and feedback is current truth for 1.            *)
Native ==
  [dryRun |-> FALSE, replayDelayMs |-> 1, replayTimeoutMs |-> 3, telemetryFreshMs |-> 1,
   mapped |-> {"record_start", "record_stop", "rec_review"}, http |-> {}, verifies |-> TRUE]

(* No minimum before the review: only the camera's word holds it back. *)
Eager == [Native EXCEPT !.replayDelayMs = 0]

(* rec_review is mapped to a request that brings no gate with it.          *)
Unverified == [Eager EXCEPT !.verifies = FALSE]

(* Bridges with a live camera, and one in dry run.                         *)
MCConfigs == {Native, Eager, Unverified, [Native EXCEPT !.dryRun = TRUE]}
MCAnyReview == {Native, Unverified}
=============================================================================
