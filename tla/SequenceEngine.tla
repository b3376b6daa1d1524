--------------------------- MODULE SequenceEngine ---------------------------
(***************************************************************************)
(* The sequence slots: user-defined lists of commands, timed waits and     *)
(* waits for camera state, of which at most one runs.  Each pass of loop() *)
(* works on the current step of the running slot; a command step blocks on *)
(* the camera like every other command.                                    *)
(***************************************************************************)
EXTENDS CommandEngine

CONSTANTS Programs,           \* tables an operator may save, a saved slot per Slots
          HoldOnlyCommands,   \* lens commands that move until released
          MaxSteps,           \* steps of a slot, 16 in the firmware
          CompleteHold,       \* how long Complete is shown, 2.5 s
          RunHorizon          \* age at which a run's clocks saturate

VARIABLES defs,               \* slot -> definition
          runtime,            \* slot -> run state
          activeSlot,         \* the running slot, 0 when none
          runAge, stepAge     \* ticks since the run and its step began

sequenceVars == <<defs, runtime, activeSlot, runAge, stepAge>>

StepTypes == {"command", "wait_ms", "wait_state"}
StepFields == [type: StepTypes, command: Commands \cup {""}, waitMs: Nat,
               stateId: StateIds \cup {""}, equals: Raws, timeoutMs: Nat, freshMs: Nat]
Step == {s \in StepFields : s.type = "command" => s.command \in Commands}

Definition == [enabled: BOOLEAN, timeoutMs: Nat, steps: Seq(Step)]

Running == {"Active", "Waiting", "Writing", "Playback"}
RunStates == {"Disabled", "Ready", "Complete", "Error", "Aborted"} \cup Running
Runtime == [state: RunStates, currentStep: Nat, doneAge: 0..CompleteHold]

-----------------------------------------------------------------------------
(* reload(): the saved table becomes the definitions                       *)

Recognised(step) ==
  CASE step.type = "command" -> step.command \in Commands \cup {"stop_replay"}
    [] step.type = "wait_state" -> step.stateId \in StateIds
    [] OTHER -> step.type = "wait_ms"

Forbidden(step) ==
  step.type = "command" /\ step.command \in HoldOnlyCommands \cup {"stop_replay"}

(* Steps nobody recognises are dropped, then those beyond the table's size.*)
Kept(steps) ==
  LET known == SelectSeq(steps, Recognised)
  IN  SubSeq(known, 1, IF Len(known) < MaxSteps THEN Len(known) ELSE MaxSteps)

Parsed(table) == [s \in Slots |-> [table[s] EXCEPT !.steps = Kept(@)]]

Rejected(table) ==
  \E s \in Slots : \E i \in DOMAIN Parsed(table)[s].steps :
    Forbidden(Parsed(table)[s].steps[i])

ASSUME SequenceAssumption ==
  /\ MaxSteps \in Nat /\ CompleteHold \in Nat /\ RunHorizon \in Nat
  /\ HoldOnlyCommands \subseteq Commands
  /\ \A table \in Programs : Rejected(table) \/ Parsed(table) \in [Slots -> Definition]
  /\ \E table \in Programs : ~Rejected(table)
  /\ \A table \in Programs : Rejected(table) \/
       \A s \in Slots : \A i \in DOMAIN Parsed(table)[s].steps :
         Parsed(table)[s].steps[i].freshMs < SampleHorizon

Runnable(d) == d.enabled /\ d.steps # <<>>

FreshRuntime(d) ==
  [state |-> IF Runnable(d) THEN "Ready" ELSE "Disabled", currentStep |-> 0, doneAge |-> 0]

Load(table) ==
  /\ defs' = Parsed(table)
  /\ runtime' = [s \in Slots |-> FreshRuntime(Parsed(table)[s])]
  /\ activeSlot' = 0 /\ runAge' = 0 /\ stepAge' = 0

Reload(table) ==
  /\ CpuFree
  /\ activeSlot = 0 /\ ~AutomationActive
  /\ ~Rejected(table)
  /\ Load(table)
  /\ UNCHANGED <<owner, call, display, engineVars, config, camera, link, wire, sample>>

(* begin() loads what an earlier run of the firmware saved. *)
SequenceInit ==
  \E table \in Programs :
    /\ ~Rejected(table)
    /\ defs = Parsed(table)
    /\ runtime = [s \in Slots |-> FreshRuntime(Parsed(table)[s])]
    /\ activeSlot = 0 /\ runAge = 0 /\ stepAge = 0

-----------------------------------------------------------------------------
(* trigger() and abort()                                                   *)

(* Slip: the other slots exclude each other, nobody else. *)
TriggerUnlocked(s) ==
  /\ CpuFree
  /\ Runnable(defs[s])
  /\ activeSlot = 0
  /\ owner' = SequenceOwner(s)
  /\ runtime' = [runtime EXCEPT ![s] = [state |-> "Active", currentStep |-> 0, doneAge |-> 0]]
  /\ activeSlot' = s /\ runAge' = 0 /\ stepAge' = 0
  /\ UNCHANGED <<defs, call, display, engineVars>>

Trigger(s) ==
  /\ CpuFree
  /\ Runnable(defs[s])
  /\ activeSlot = 0
  /\ Acquire(SequenceOwner(s))
  /\ runtime' = [runtime EXCEPT ![s] = [state |-> "Active", currentStep |-> 0, doneAge |-> 0]]
  /\ activeSlot' = s /\ runAge' = 0 /\ stepAge' = 0
  /\ UNCHANGED <<defs, call, display, engineVars>>

(* The run is over; its clocks are dead until the next trigger. *)
EndRun ==
  /\ activeSlot' = 0 /\ runAge' = 0 /\ stepAge' = 0
  /\ Release(SequenceOwner(activeSlot))

AbortSequence ==
  /\ CpuFree
  /\ activeSlot # 0
  /\ runtime' = [runtime EXCEPT ![activeSlot].state = "Aborted"]
  /\ EndRun
  /\ UNCHANGED <<defs, call, display, engineVars>>

-----------------------------------------------------------------------------
(* One pass of loop()                                                      *)

(* Slip: failures settle like completions. *)
SettledWithFailures ==
  [s \in Slots |->
     IF runtime[s].state \in {"Complete", "Error", "Aborted"} /\ activeSlot # s
       THEN FreshRuntime(defs[s])
       ELSE runtime[s]]

(* Every pass first returns the slots that were Complete long enough. *)
Settled ==
  [s \in Slots |->
     IF runtime[s].state = "Complete" /\ runtime[s].doneAge >= CompleteHold
       THEN FreshRuntime(defs[s])
       ELSE runtime[s]]

Active == defs[activeSlot]
CurrentStep == Active.steps[runtime[activeSlot].currentStep + 1]

(* Slip: a failed step keeps the lock. *)
FailLocked(slots) ==
  /\ runtime' = [slots EXCEPT ![activeSlot].state = "Error"]
  /\ activeSlot' = 0 /\ runAge' = 0 /\ stepAge' = 0
  /\ UNCHANGED owner

Fail(slots) ==
  /\ runtime' = [slots EXCEPT ![activeSlot].state = "Error"]
  /\ EndRun

(* The step is done: the next one begins, or the run is complete. *)
Advance(slots) ==
  LET done == runtime[activeSlot].currentStep + 1
  IN  \/ /\ done < Len(Active.steps)
         /\ runtime' = [slots EXCEPT ![activeSlot].state = "Active",
                                     ![activeSlot].currentStep = done]
         /\ stepAge' = 0
         /\ UNCHANGED <<activeSlot, runAge, owner>>
      \/ /\ done = Len(Active.steps)
         /\ runtime' = [slots EXCEPT ![activeSlot].state = "Complete",
                                     ![activeSlot].currentStep = done]
         /\ EndRun

(* The step stays current and is displayed as state. *)
Stay(state) ==
  /\ runtime' = [Settled EXCEPT ![activeSlot].state = state]
  /\ UNCHANGED <<activeSlot, runAge, stepAge, owner>>

SequenceIdlePass ==
  /\ CpuFree
  /\ activeSlot = 0
  /\ runtime' = Settled
  /\ UNCHANGED <<activeSlot, runAge, stepAge, owner, call>>

SequencePass == CpuFree /\ activeSlot # 0

OverallTimeout == runAge >= Active.timeoutMs

SequenceGivesUp ==
  /\ SequencePass
  /\ ~LinkAvailable \/ OverallTimeout
  /\ Fail(Settled)
  /\ UNCHANGED call

SequenceLive(type) ==
  /\ SequencePass
  /\ LinkAvailable
  /\ ~OverallTimeout
  /\ CurrentStep.type = type

CommandStep ==
  /\ SequenceLive("command")
  /\ Send(SequenceOwner(activeSlot), CurrentStep.command)
  /\ Stay("Active")

WaitMsStep ==
  /\ SequenceLive("wait_ms")
  /\ \/ stepAge >= CurrentStep.waitMs /\ Advance(Settled)
     \/ stepAge < CurrentStep.waitMs /\ Stay("Waiting")
  /\ UNCHANGED call

(* Only a sample taken after the step began can satisfy it. *)
StateMatches ==
  /\ FreshSince(CurrentStep.stateId, CurrentStep.freshMs, stepAge)
  /\ sample[CurrentStep.stateId].raw = CurrentStep.equals

WaitingFor ==
  CASE CurrentStep.equals = "true" /\ CurrentStep.stateId = "writing" -> "Writing"
    [] CurrentStep.equals = "true" /\ CurrentStep.stateId = "playback" -> "Playback"
    [] OTHER -> "Waiting"

WaitStateStep ==
  /\ SequenceLive("wait_state")
  /\ \/ StateMatches /\ Advance(Settled)
     \/ ~StateMatches /\ stepAge >= CurrentStep.timeoutMs /\ Fail(Settled)
     \/ ~StateMatches /\ stepAge < CurrentStep.timeoutMs /\ Stay(WaitingFor)
  /\ UNCHANGED call

SequenceLoop ==
  /\ SequenceGivesUp \/ CommandStep \/ WaitMsStep \/ WaitStateStep
  /\ UNCHANGED <<defs, display, engineVars>>

CommandStepReturns ==
  /\ ~CpuFree /\ IsSequence(call.by)
  /\ \/ CallSucceeds /\ display' = Shown(display, call.id) /\ Advance(runtime)
     \/ CallFails /\ display' \in ShownOnFailure(display, call.id) /\ Fail(runtime)
  /\ call' = NoCall
  /\ UNCHANGED <<defs, engineVars>>

SequenceStep ==
  /\ \/ CommandStepReturns
     \/ /\ \/ \E s \in Slots : Trigger(s)
           \/ AbortSequence
           \/ SequenceIdlePass /\ UNCHANGED <<defs, display, engineVars>>
           \/ SequenceLoop
        /\ UNCHANGED wire
  /\ UNCHANGED <<config, camera, link, sample>>

CompleteFor(r) ==
  [r EXCEPT !.doneAge = IF r.state = "Complete" THEN Older(r.doneAge, CompleteHold) ELSE r.doneAge]

SequenceTick ==
  /\ runtime' = [s \in Slots |-> CompleteFor(runtime[s])]
  /\ runAge' = IF activeSlot = 0 THEN 0 ELSE Older(runAge, RunHorizon)
  /\ stepAge' = IF activeSlot = 0 THEN 0 ELSE Older(stepAge, RunHorizon)
  /\ UNCHANGED <<defs, activeSlot>>
-----------------------------------------------------------------------------
(* The engine with the slots and no firmware update                        *)

slotsAll == <<owner, sample, camera, link, wire, config, call, display,
              macroState, macroAge, minReview, macroPhase, macroBusy,
              defs, runtime, activeSlot, runAge, stepAge>>

SlotsInit == EngineOnlyInit /\ SequenceInit

SlotsNext ==
  \/ EngineStep /\ UNCHANGED sequenceVars
  \/ CameraStep /\ UNCHANGED sequenceVars
  \/ \E table \in Programs : Reload(table)
  \/ SequenceStep
  \/ EngineTick /\ SequenceTick

(* As for the engine, the loop runs and calls return; see CommandEngine. *)
SlotsFairness ==
  /\ WF_slotsAll(EngineTick /\ SequenceTick)
  /\ WF_slotsAll(EngineStep /\ (MacroLoop \/ CommandReturns) /\ UNCHANGED sequenceVars)
  /\ WF_slotsAll(SequenceStep /\ (SequenceLoop \/ CommandStepReturns))

SlotsSpec == SlotsInit /\ [][SlotsNext]_slotsAll /\ SlotsFairness

-----------------------------------------------------------------------------
(* Properties                                                              *)

SequenceTypeOK ==
  /\ EngineTypeOK
  /\ defs \in [Slots -> Definition]
  /\ runtime \in [Slots -> Runtime]
  /\ activeSlot \in 0..SlotCount
  /\ runAge \in 0..RunHorizon /\ stepAge \in 0..RunHorizon

(* A slot is shown as running exactly while it is the active one and holds *)
(* the camera: no path through a failed step, a timeout, a lost link, an   *)
(* abort or the last step may leave one of the three behind.               *)
RunningSlotHoldsArbiter ==
  /\ \A s \in Slots : runtime[s].state \in Running <=> activeSlot = s
  /\ \A s \in Slots : owner = SequenceOwner(s) <=> activeSlot = s

(* The running slot always has a current step to work on: its program is   *)
(* neither emptied nor shortened under it, nor run past its end.           *)
RunHasStep ==
  activeSlot # 0 => /\ Runnable(Active)
                    /\ runtime[activeSlot].currentStep < Len(Active.steps)

(* "ERROR and ABORTED remain latched until the next trigger/reload so an   *)
(* operator cannot miss them" (SequenceEngine.cpp:182-183).                *)
FailureStaysShown ==
  [][ \A s \in Slots :
        runtime[s].state \in {"Error", "Aborted"} /\ runtime'[s].state # runtime[s].state
          => activeSlot' = s \/ \E table \in Programs : ~Rejected(table) /\ Load(table) ]_slotsAll

WaitsForReady ==
  /\ activeSlot # 0
  /\ CurrentStep.type = "wait_state"
  /\ CurrentStep.stateId = "ready" /\ CurrentStep.equals = "true"

(* A step that follows a wait for ready runs only when the clip recorded   *)
(* before is closed, whatever the camera last said before the wait began.  *)
WaitForReadyOutlastsClip ==
  [][ WaitsForReady /\ runtime'[activeSlot].currentStep > runtime[activeSlot].currentStep
        => camera \notin {"Recording", "Writing"} ]_slotsAll

(* No command, macro or sequence wedges the bridge: whoever holds the      *)
(* camera gives it back, however the camera, its feedback and the link do. *)
CameraAlwaysFreed == []<>(owner = None)
=============================================================================
