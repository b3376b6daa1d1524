------------------------------ MODULE MCBridge ------------------------------
(* Values for model-checking the whole bridge. *)
EXTENDS Bridge

MCCommands == {"record_stop", "rec_review"}

Native ==
  [dryRun |-> FALSE, replayDelayMs |-> 1, replayTimeoutMs |-> 1, telemetryFreshMs |-> 0,
   mapped |-> {"record_stop"}, http |-> {}, verifies |-> TRUE]

MCConfigs == {Native, [Native EXCEPT !.dryRun = TRUE]}

Blank == [type |-> "wait_ms", command |-> "", waitMs |-> 0, stateId |-> "",
          equals |-> "true", timeoutMs |-> 1, freshMs |-> 0]
Run(id) == [Blank EXCEPT !.type = "command", !.command = id]
Until(id) == [Blank EXCEPT !.type = "wait_state", !.stateId = id]

Slot(steps) == [enabled |-> TRUE, timeoutMs |-> 1, steps |-> steps]

MCPrograms == {<<Slot(<<Run("record_stop")>>), Slot(<<Until("ready")>>)>>,
               <<Slot(<<>>), Slot(<<Until("ready")>>)>>}
=============================================================================
