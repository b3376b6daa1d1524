-------------------------- MODULE MCSequenceEngine --------------------------
(* Values for model-checking the sequence slots beside the command engine. *)
EXTENDS SequenceEngine

MCCommands == {"record_start", "record_stop", "rec_review"}

(* The macro keeps the slots company: its delay and timeout are short. *)
Native ==
  [dryRun |-> FALSE, replayDelayMs |-> 0, replayTimeoutMs |-> 0, telemetryFreshMs |-> 1,
   mapped |-> {"record_start", "record_stop"}, http |-> {}, verifies |-> FALSE]

MCConfigs == {Native}

Blank == [type |-> "wait_ms", command |-> "", waitMs |-> 0, stateId |-> "",
          equals |-> "true", timeoutMs |-> 1, freshMs |-> 1]
Run(id) == [Blank EXCEPT !.type = "command", !.command = id]
Wait(n) == [Blank EXCEPT !.waitMs = n]
Until(id) == [Blank EXCEPT !.type = "wait_state", !.stateId = id]

Nonsense == [Blank EXCEPT !.type = "wait_state", !.stateId = "no_such_state"]

Slot(steps) == [enabled |-> TRUE, timeoutMs |-> 2, steps |-> steps]

(* A recording is ended and waited for, as in the repository's example;    *)
(* steps that only wait, with one nobody knows and one too many; a step    *)
(* that is refused.                                                        *)
Example == <<Slot(<<Run("record_stop"), Until("ready"), Wait(0)>>)>>
Waits == <<Slot(<<Nonsense, Until("writing"), Wait(1), Wait(0), Wait(0)>>)>>
Reentrant == <<Slot(<<Run("stop_replay")>>)>>
MCPrograms == {Example, Waits, Reentrant}
=============================================================================
