----------------------- MODULE SequenceEngine_proofs -----------------------
(***************************************************************************)
(* Proofs about the sequence slots beside the command engine, for any      *)
(* number of slots and any programs.                                       *)
(***************************************************************************)
EXTENDS SequenceEngine, CommandEngine_proofs

-----------------------------------------------------------------------------
(* The data the operators return                                           *)

(* A table that is not rejected yields definitions.                        *)
LEMMA ParsedType ==
  ASSUME NEW table \in Programs, ~Rejected(table)
  PROVE  Parsed(table) \in [Slots -> Definition]
BY SequenceAssumption

(* A slot that starts afresh is a slot.                                    *)
LEMMA FreshRuntimeType ==
  ASSUME NEW d
  PROVE  FreshRuntime(d) \in Runtime /\ FreshRuntime(d).state \notin Running
BY SequenceAssumption DEF FreshRuntime, Runtime, RunStates, Running

(* The settling of slots leaves the running ones alone.                    *)
LEMMA SettledType ==
  ASSUME runtime \in [Slots -> Runtime]
  PROVE  /\ Settled \in [Slots -> Runtime]
         /\ \A s \in Slots : Settled[s].state \in Running <=> runtime[s].state \in Running
         /\ \A s \in Slots : runtime[s].state \in Running => Settled[s] = runtime[s]
BY FreshRuntimeType DEF Settled, Running

-----------------------------------------------------------------------------
(* The inductive invariant: the engine's, and what holds of the slots      *)

SlotsInv ==
  /\ defs \in [Slots -> Definition]
  /\ runtime \in [Slots -> Runtime]
  /\ activeSlot \in 0..SlotCount
  /\ runAge \in 0..RunHorizon /\ stepAge \in 0..RunHorizon
  /\ RunningSlotHoldsArbiter
  /\ RunHasStep

SequenceInv == EngineInv /\ SlotsInv

(* Steps of the others leave the slots alone if they leave the slots'      *)
(* owners out of the lock.                                                 *)
LEMMA SlotsUntouched ==
  ASSUME SlotsInv, UNCHANGED sequenceVars,
         \A s \in Slots : owner' = SequenceOwner(s) <=> owner = SequenceOwner(s)
  PROVE  SlotsInv'
BY DEF SlotsInv, sequenceVars, RunningSlotHoldsArbiter, RunHasStep, Active

(* Steps of a slot or an update leave the engine alone.                    *)
LEMMA EngineUntouched ==
  ASSUME EngineInv, UNCHANGED <<config, camera, link, sample, engineVars>>,
         owner \in Owners \ {Manual, StopReplay}, owner' \in Owners \ {Manual, StopReplay},
         call' \in Call, call' = NoCall \/ (call'.by = owner' /\ owner' # None),
         display' \in Display, wire' \in Seq(Messages)
  PROVE  EngineInv'
<1>1. NoCall.by = None
      BY DEF NoCall
<1> QED
    BY <1>1, OwnersDiffer
       DEF Messages, EngineInv, EngineTypeOK, MacroHoldsArbiter, CallerOwnsArbiter, CpuFree, engineVars

(* The running slot holds the camera and has a current step.               *)
LEMMA ActiveSlot ==
  ASSUME SequenceInv, activeSlot # 0
  PROVE  /\ activeSlot \in Slots
         /\ owner = SequenceOwner(activeSlot)
         /\ owner \in Owners \ {None, Manual, StopReplay}
         /\ Active \in Definition /\ Len(Active.steps) \in Nat
         /\ runtime[activeSlot].currentStep < Len(Active.steps)
         /\ runtime[activeSlot].state \in Running
         /\ CurrentStep \in Step
<1>1. activeSlot \in Slots
      BY SlotCountAssumption DEF SequenceInv, SlotsInv, Slots
<1>2. /\ owner = SequenceOwner(activeSlot)
      /\ runtime[activeSlot].state \in Running
      BY <1>1 DEF SequenceInv, SlotsInv, RunningSlotHoldsArbiter
<1>3. Active \in Definition
      BY <1>1 DEF SequenceInv, SlotsInv, Active
<1>4. Active.steps \in Seq(Step) /\ Len(Active.steps) \in Nat
      BY <1>3 DEF Definition
<1>5. runtime[activeSlot].currentStep < Len(Active.steps)
      BY DEF SequenceInv, SlotsInv, RunHasStep
<1>6. runtime[activeSlot].currentStep \in Nat
      BY <1>1 DEF SequenceInv, SlotsInv, Runtime
<1>7. runtime[activeSlot].currentStep + 1 \in 1..Len(Active.steps)
      BY <1>4, <1>5, <1>6
<1>8. CurrentStep \in Step
      BY <1>4, <1>7 DEF CurrentStep
<1> QED
    BY <1>1, <1>2, <1>3, <1>4, <1>5, <1>8, OwnersDiffer

(* The ends of a run: a step that failed, or the program is through.       *)
LEMMA RunEnds ==
  ASSUME SequenceInv, activeSlot # 0, EndRun, UNCHANGED defs,
         NEW slots \in [Slots -> Runtime],
         \A s \in Slots : slots[s].state \in Running <=> runtime[s].state \in Running,
         runtime' \in [Slots -> Runtime],
         runtime'[activeSlot].state \notin Running,
         \A s \in Slots : s # activeSlot => runtime'[s] = slots[s]
  PROVE  SlotsInv' /\ owner' = None
<1>1. owner' = None
      BY ActiveSlot DEF EndRun, Release
<1>2. activeSlot' = 0 /\ runAge' = 0 /\ stepAge' = 0
      BY DEF EndRun
<1>3. \A s \in Slots : s # 0 /\ runtime'[s].state \notin Running
      BY DEF SequenceInv, SlotsInv, RunningSlotHoldsArbiter, Slots
<1>4. RunningSlotHoldsArbiter'
      BY <1>1, <1>2, <1>3, OwnersDiffer DEF RunningSlotHoldsArbiter
<1> QED
    BY <1>1, <1>2, <1>4, SequenceAssumption, SlotCountAssumption
       DEF SequenceInv, SlotsInv, RunHasStep

(* A run goes on: it stays at a step of its program.                       *)
LEMMA RunGoesOn ==
  ASSUME SequenceInv, activeSlot # 0,
         UNCHANGED <<defs, activeSlot, runAge, owner>>, stepAge' \in 0..RunHorizon,
         NEW slots \in [Slots -> Runtime],
         \A s \in Slots : slots[s].state \in Running <=> runtime[s].state \in Running,
         runtime' \in [Slots -> Runtime],
         runtime'[activeSlot].state \in Running,
         runtime'[activeSlot].currentStep < Len(Active.steps),
         \A s \in Slots : s # activeSlot => runtime'[s] = slots[s]
  PROVE  SlotsInv'
<1>1. RunningSlotHoldsArbiter'
      BY DEF SequenceInv, SlotsInv, RunningSlotHoldsArbiter
<1> QED
    BY <1>1 DEF SequenceInv, SlotsInv, RunHasStep, Active

-----------------------------------------------------------------------------
(* The parts of a pass                                                     *)

(* A failed step ends the run.                                             *)
LEMMA FailInv ==
  ASSUME SequenceInv, activeSlot # 0, UNCHANGED defs,
         NEW slots \in [Slots -> Runtime],
         \A s \in Slots : slots[s].state \in Running <=> runtime[s].state \in Running,
         Fail(slots)
  PROVE  SlotsInv' /\ owner' = None
<1>1. runtime' = [slots EXCEPT ![activeSlot].state = "Error"] /\ EndRun
      BY DEF Fail
<1>2. "Error" \in RunStates /\ "Error" \notin Running
      BY DEF RunStates, Running
<1>3. /\ runtime' \in [Slots -> Runtime]
      /\ runtime'[activeSlot].state \notin Running
      /\ \A s \in Slots : s # activeSlot => runtime'[s] = slots[s]
      BY <1>1, <1>2, ActiveSlot DEF Runtime
<1> QED
    BY <1>1, <1>3, RunEnds

(* A finished step moves the run on or ends it.                            *)
LEMMA AdvanceInv ==
  ASSUME SequenceInv, activeSlot # 0, UNCHANGED defs,
         NEW slots \in [Slots -> Runtime],
         \A s \in Slots : slots[s].state \in Running <=> runtime[s].state \in Running,
         Advance(slots)
  PROVE  SlotsInv' /\ owner' \in {owner, None}
<1> DEFINE done == runtime[activeSlot].currentStep + 1
<1>1. done \in Nat
      BY ActiveSlot DEF SequenceInv, SlotsInv, Runtime
<1>2. CASE /\ done < Len(Active.steps)
           /\ runtime' = [slots EXCEPT ![activeSlot].state = "Active",
                                       ![activeSlot].currentStep = done]
           /\ stepAge' = 0
           /\ UNCHANGED <<activeSlot, runAge, owner>>
  <2>1. /\ runtime' \in [Slots -> Runtime]
        /\ runtime'[activeSlot].state \in Running
        /\ runtime'[activeSlot].currentStep < Len(Active.steps)
        /\ \A s \in Slots : s # activeSlot => runtime'[s] = slots[s]
        BY <1>1, <1>2, ActiveSlot DEF Runtime, RunStates, Running
  <2> QED
      BY <1>2, <2>1, RunGoesOn, SequenceAssumption
<1>3. CASE /\ runtime' = [slots EXCEPT ![activeSlot].state = "Complete",
                                       ![activeSlot].currentStep = done]
           /\ EndRun
  <2>1. /\ runtime' \in [Slots -> Runtime]
        /\ runtime'[activeSlot].state \notin Running
        /\ \A s \in Slots : s # activeSlot => runtime'[s] = slots[s]
        BY <1>1, <1>3, ActiveSlot DEF Runtime, RunStates, Running
  <2> QED
      BY <1>3, <2>1, RunEnds
<1> QED
    BY <1>2, <1>3 DEF Advance

(* A step still at work keeps the run where it is.                         *)
LEMMA StayInv ==
  ASSUME SequenceInv, activeSlot # 0, UNCHANGED defs,
         NEW state \in Running, Stay(state)
  PROVE  SlotsInv' /\ UNCHANGED owner
<1>1. runtime \in [Slots -> Runtime] /\ stepAge \in 0..RunHorizon
      BY DEF SequenceInv, SlotsInv
<1>2. runtime' = [Settled EXCEPT ![activeSlot].state = state]
      /\ UNCHANGED <<activeSlot, runAge, stepAge, owner>>
      BY DEF Stay
<1>3. Settled[activeSlot] = runtime[activeSlot]
      BY <1>1, ActiveSlot, SettledType
<1>4. Settled \in [Slots -> Runtime]
      BY <1>1, SettledType
<1>5. /\ runtime' \in [Slots -> Runtime]
      /\ runtime'[activeSlot].state \in Running
      /\ runtime'[activeSlot].currentStep < Len(Active.steps)
      /\ \A s \in Slots : s # activeSlot => runtime'[s] = Settled[s]
      BY <1>2, <1>3, <1>4, ActiveSlot DEF Runtime, RunStates
<1> QED
    BY <1>1, <1>2, <1>4, <1>5, SettledType, RunGoesOn

-----------------------------------------------------------------------------
(* The steps                                                               *)

(* A slot's step moves the lock only between free and a slot.              *)
LEMMA SequenceInvStep ==
  ASSUME SequenceInv, SequenceStep
  PROVE  /\ SequenceInv'
         /\ owner' # owner => {owner, owner'} \subseteq {None} \cup {SequenceOwner(s) : s \in Slots}
         /\ owner = None \/ owner' = None \/ owner' = owner
<1> DEFINE Lock == /\ owner' # owner => {owner, owner'} \subseteq {None} \cup {SequenceOwner(s) : s \in Slots}
                   /\ owner = None \/ owner' = None \/ owner' = owner
<1>0. wire' \in Seq(Messages)
      BY ReturnWireType
         DEF SequenceStep, CommandStepReturns, Messages, SequenceInv, EngineInv, EngineTypeOK
<1>1. /\ UNCHANGED <<config, camera, link, sample, engineVars, defs>>
      /\ display \in Display /\ call \in Call /\ runtime \in [Slots -> Runtime]
      /\ wire' \in Seq(Messages)
      /\ EngineInv /\ SlotsInv
      BY <1>0 DEF SequenceStep, SequenceLoop, Trigger, AbortSequence, CommandStepReturns,
             SequenceInv, SlotsInv, EngineInv, EngineTypeOK
<1>2. \A s \in Slots : Settled[s].state \in Running <=> runtime[s].state \in Running
      BY <1>1, SettledType
<1>3. Settled \in [Slots -> Runtime]
      BY <1>1, SettledType
<1>4. NoCall \in Call
      BY OwnersDiffer DEF NoCall, Call
<1>5. ASSUME NEW s \in Slots, Trigger(s)
      PROVE  SequenceInv' /\ Lock
  <2>1. owner = None /\ owner' = SequenceOwner(s) /\ UNCHANGED <<call, display>> /\ call = NoCall
        BY <1>5 DEF Trigger, Acquire, CpuFree
  <2>2. EngineInv'
        BY <1>1, <1>4, <2>1, EngineUntouched, OwnersDiffer
  <2>3. /\ activeSlot = 0 /\ activeSlot' = s /\ runAge' = 0 /\ stepAge' = 0
        /\ runtime' = [runtime EXCEPT ![s] = [state |-> "Active", currentStep |-> 0, doneAge |-> 0]]
        BY <1>5 DEF Trigger
  <2>4. /\ runtime' \in [Slots -> Runtime] /\ runtime'[s].state \in Running
        /\ runtime'[s].currentStep = 0
        /\ \A r \in Slots : r # s => runtime'[r] = runtime[r]
        BY <1>1, <2>3, SequenceAssumption DEF Runtime, RunStates, Running
  <2>5. \A r \in Slots : r # 0 /\ runtime[r].state \notin Running
        BY <1>1, <2>3 DEF SlotsInv, RunningSlotHoldsArbiter, Slots
  <2>6. RunningSlotHoldsArbiter'
        BY <2>1, <2>3, <2>4, <2>5, OwnersDiffer DEF RunningSlotHoldsArbiter
  <2>7. Runnable(defs[s]) /\ defs[s].steps \in Seq(Step)
        BY <1>1, <1>5 DEF Trigger, SlotsInv, Definition
  <2>8. RunHasStep'
        BY <1>1, <2>3, <2>4, <2>7 DEF RunHasStep, Runnable, Active
  <2>9. SlotsInv'
        BY <1>1, <2>3, <2>4, <2>6, <2>8, SequenceAssumption, SlotCountAssumption DEF SlotsInv, Slots
  <2> QED
      BY <2>1, <2>2, <2>9 DEF SequenceInv
<1>6. CASE AbortSequence
  <2>1. /\ call = NoCall /\ UNCHANGED <<call, display>> /\ activeSlot # 0 /\ EndRun
        /\ runtime' = [runtime EXCEPT ![activeSlot].state = "Aborted"]
        BY <1>6 DEF AbortSequence, CpuFree
  <2>2. "Aborted" \in RunStates /\ "Aborted" \notin Running
        BY DEF RunStates, Running
  <2>3. /\ runtime' \in [Slots -> Runtime]
        /\ runtime'[activeSlot].state \notin Running
        /\ \A s \in Slots : s # activeSlot => runtime'[s] = runtime[s]
        BY <1>1, <2>1, <2>2, ActiveSlot DEF Runtime
  <2>4. SlotsInv' /\ owner' = None
        BY <1>1, <2>1, <2>3, RunEnds
  <2>5. EngineInv'
        BY <1>1, <1>4, <2>1, <2>4, ActiveSlot, EngineUntouched, OwnersDiffer
  <2> QED
      BY <2>1, <2>4, <2>5, ActiveSlot DEF SequenceInv
<1>7. CASE SequenceIdlePass /\ UNCHANGED <<defs, display, engineVars>>
  <2>1. /\ UNCHANGED <<owner, call, display, activeSlot, runAge, stepAge>>
        /\ runtime' = Settled /\ activeSlot = 0
        BY <1>7 DEF SequenceIdlePass
  <2>2. EngineInv'
        BY <1>1, <2>1 DEF Messages, EngineInv, EngineTypeOK, MacroHoldsArbiter, CallerOwnsArbiter, CpuFree, engineVars
  <2>3. SlotsInv'
        BY <1>1, <1>2, <1>3, <2>1 DEF SlotsInv, RunningSlotHoldsArbiter, RunHasStep
  <2> QED
      BY <2>1, <2>2, <2>3 DEF SequenceInv
<1>8. CASE SequenceLoop
  <2>1. activeSlot # 0 /\ call = NoCall /\ UNCHANGED display
        BY <1>8 DEF SequenceLoop, SequenceGivesUp, CommandStep, WaitMsStep, WaitStateStep,
                    SequenceLive, SequencePass, CpuFree
  <2>2. CASE SequenceGivesUp \/ WaitMsStep \/ WaitStateStep
    <3>1. UNCHANGED call
          BY <2>2 DEF SequenceGivesUp, WaitMsStep, WaitStateStep
    <3>2. WaitingFor \in Running /\ "Waiting" \in Running
          BY DEF WaitingFor, Running
    <3>3. Fail(Settled) \/ Advance(Settled) \/ \E state \in Running : Stay(state)
          BY <2>2, <3>2 DEF SequenceGivesUp, WaitMsStep, WaitStateStep
    <3>4. SlotsInv' /\ owner' \in {owner, None}
          BY <1>1, <1>2, <1>3, <2>1, <3>3, FailInv, AdvanceInv, StayInv
    <3>5. EngineInv'
          BY <1>1, <1>4, <2>1, <3>1, <3>4, ActiveSlot, EngineUntouched, OwnersDiffer
    <3> QED
        BY <2>1, <3>4, <3>5, ActiveSlot DEF SequenceInv
  <2>3. CASE CommandStep
    <3>1. /\ Stay("Active") /\ "Active" \in Running
          /\ Send(SequenceOwner(activeSlot), CurrentStep.command)
          /\ CurrentStep.command \in Commands
          BY <2>1, <2>3, ActiveSlot DEF CommandStep, SequenceLive, Running, Step
    <3>2. SlotsInv' /\ owner' = owner
          BY <1>1, <2>1, <3>1, StayInv
    <3>3. call' \in Call /\ call'.by = owner
          BY <2>1, <3>1, ActiveSlot DEF Send, Call
    <3>4. EngineInv'
          BY <1>1, <2>1, <3>2, <3>3, ActiveSlot, EngineUntouched, OwnersDiffer
    <3> QED
        BY <3>2, <3>4 DEF SequenceInv
  <2> QED
      BY <1>8, <2>2, <2>3 DEF SequenceLoop
<1>9. CASE CommandStepReturns
  <2>1. /\ ~CpuFree /\ IsSequence(call.by) /\ call' = NoCall /\ call.by = owner /\ owner # None
        BY <1>1, <1>9 DEF CommandStepReturns, EngineInv, CallerOwnsArbiter
  <2>2. PICK s \in Slots : owner = SequenceOwner(s)
        BY <1>1, <2>1, SequenceOwners DEF EngineInv, EngineTypeOK
  <2>3. activeSlot # 0
        BY <1>1, <2>2 DEF SlotsInv, RunningSlotHoldsArbiter, Slots
  <2>4. display' \in Display
        BY <1>1, <1>9, ShownType DEF CommandStepReturns
  <2>5. Fail(runtime) \/ Advance(runtime)
        BY <1>9 DEF CommandStepReturns
  <2>6. SlotsInv' /\ owner' \in {owner, None}
        BY <1>1, <2>3, <2>5, FailInv, AdvanceInv
  <2>7. EngineInv'
        BY <1>1, <1>4, <2>1, <2>3, <2>4, <2>6, ActiveSlot, EngineUntouched, OwnersDiffer
  <2> QED
      BY <2>2, <2>6, <2>7 DEF SequenceInv
<1> QED
    BY <1>5, <1>6, <1>7, <1>8, <1>9 DEF SequenceStep

(* A slot that shows a failure is not running, and the steps of the slots  *)
(* change only the running one, one that is complete and the one started.  *)
LEMMA FailureKept ==
  ASSUME SequenceInv, SequenceStep, NEW s \in Slots,
         runtime[s].state \in {"Error", "Aborted"}, runtime'[s].state # runtime[s].state
  PROVE  activeSlot' = s
<1>1. /\ runtime \in [Slots -> Runtime] /\ s # activeSlot
      /\ activeSlot # 0 => activeSlot \in Slots
  <2>1. runtime[s].state \notin Running
        BY DEF Running
  <2> QED
      BY <2>1, ActiveSlot DEF SequenceInv, SlotsInv
<1>2. Settled \in [Slots -> Runtime] /\ Settled[s] = runtime[s]
      BY <1>1, SettledType DEF Settled
<1>3. ASSUME activeSlot # 0, NEW slots \in [Slots -> Runtime], slots[s] = runtime[s],
             \/ Fail(slots) \/ Advance(slots)
      PROVE  runtime'[s] = runtime[s]
  <2>1. CASE Fail(slots)
        BY <1>1, <1>3, <2>1 DEF Fail
  <2>2. CASE Advance(slots)
        BY <1>1, <1>3, <2>2 DEF Advance
  <2> QED
      BY <1>3, <2>1, <2>2
<1>4. CASE \E r \in Slots : Trigger(r)
  <2>1. PICK r \in Slots : Trigger(r)
        BY <1>4
  <2>2. activeSlot' = r
        BY <2>1 DEF Trigger
  <2>3. r # s => runtime'[s] = runtime[s]
        BY <1>1, <2>1 DEF Trigger
  <2> QED
      BY <2>2, <2>3
<1>5. CASE AbortSequence
      BY <1>1, <1>5 DEF AbortSequence
<1>6. CASE SequenceIdlePass
      BY <1>2, <1>6 DEF SequenceIdlePass
<1>7. CASE SequenceLoop
  <2>1. activeSlot # 0
        BY <1>7 DEF SequenceLoop, SequenceGivesUp, CommandStep, WaitMsStep, WaitStateStep,
                    SequenceLive, SequencePass
  <2>2. Fail(Settled) \/ Advance(Settled) \/ \E state \in RunStates : Stay(state)
    <3>1. {"Active", "Waiting", WaitingFor} \subseteq RunStates
          BY DEF WaitingFor, RunStates, Running
    <3> QED
        BY <1>7, <3>1 DEF SequenceLoop, SequenceGivesUp, CommandStep, WaitMsStep, WaitStateStep
  <2>3. ASSUME NEW state \in RunStates, Stay(state) PROVE runtime'[s] = runtime[s]
        BY <1>1, <1>2, <2>1, <2>3 DEF Stay
  <2> QED
      BY <1>2, <1>3, <2>1, <2>2, <2>3
<1>8. CASE CommandStepReturns
  <2>1. activeSlot # 0
    <3>1. ~CpuFree /\ IsSequence(call.by) /\ call.by = owner /\ owner # None
          BY <1>8 DEF CommandStepReturns, SequenceInv, EngineInv, CallerOwnsArbiter
    <3>2. PICK r \in Slots : owner = SequenceOwner(r)
          BY <3>1, SequenceOwners DEF SequenceInv, EngineInv, EngineTypeOK
    <3> QED
        BY <3>2 DEF SequenceInv, SlotsInv, RunningSlotHoldsArbiter, Slots
  <2>2. Fail(runtime) \/ Advance(runtime)
        BY <1>8 DEF CommandStepReturns
  <2> QED
      BY <1>1, <1>3, <2>1, <2>2
<1> QED
    BY <1>4, <1>5, <1>6, <1>7, <1>8 DEF SequenceStep

(* A saved table replaces the definitions while no slot runs.              *)
LEMMA ReloadInv ==
  ASSUME SequenceInv, NEW table \in Programs, Reload(table)
  PROVE  SequenceInv' /\ UNCHANGED owner
<1>1. /\ UNCHANGED <<owner, call, display, engineVars, config, camera, link, wire, sample>>
      /\ activeSlot = 0 /\ activeSlot' = 0 /\ runAge' = 0 /\ stepAge' = 0
      /\ defs' = Parsed(table)
      /\ runtime' = [s \in Slots |-> FreshRuntime(Parsed(table)[s])]
      /\ ~Rejected(table)
      BY DEF Reload, Load
<1>2. EngineInv'
      BY <1>1 DEF SequenceInv, EngineInv, EngineTypeOK, MacroHoldsArbiter, CallerOwnsArbiter, CpuFree, engineVars
<1>3. /\ runtime' \in [Slots -> Runtime]
      /\ \A s \in Slots : runtime'[s].state \notin Running
      BY <1>1, FreshRuntimeType
<1>4. RunningSlotHoldsArbiter'
      BY <1>1, <1>3 DEF SequenceInv, SlotsInv, RunningSlotHoldsArbiter, Slots
<1>5. SlotsInv'
      BY <1>1, <1>3, <1>4, ParsedType, SequenceAssumption, SlotCountAssumption
         DEF SlotsInv, RunHasStep
<1> QED
    BY <1>1, <1>2, <1>5 DEF SequenceInv

(* Time ages the slots' clocks and nothing else.                           *)
LEMMA SequenceTickInv ==
  ASSUME SlotsInv, SequenceTick, UNCHANGED owner
  PROVE  SlotsInv'
<1>1. runtime' = [s \in Slots |-> CompleteFor(runtime[s])] /\ UNCHANGED <<defs, activeSlot>>
      /\ runtime \in [Slots -> Runtime]
      BY DEF SequenceTick, SlotsInv
<1>2. \A s \in Slots : /\ CompleteFor(runtime[s]) \in Runtime
                        /\ CompleteFor(runtime[s]).state = runtime[s].state
                        /\ CompleteFor(runtime[s]).currentStep = runtime[s].currentStep
      BY <1>1, SequenceAssumption DEF CompleteFor, Runtime, Older
<1>3. /\ runtime' \in [Slots -> Runtime]
      /\ \A s \in Slots : /\ runtime'[s].state = runtime[s].state
                            /\ runtime'[s].currentStep = runtime[s].currentStep
      BY <1>1, <1>2
<1>4. RunningSlotHoldsArbiter'
      BY <1>1, <1>3 DEF SlotsInv, RunningSlotHoldsArbiter
<1>5. RunHasStep'
  <2>1. CASE activeSlot = 0
        BY <1>1, <2>1 DEF RunHasStep
  <2>2. CASE activeSlot # 0
    <3>1. activeSlot \in Slots
          BY <2>2, SlotCountAssumption DEF SlotsInv, Slots
    <3> QED
        BY <1>1, <1>3, <2>2, <3>1 DEF SlotsInv, RunHasStep, Active
  <2> QED
      BY <2>1, <2>2
<1>6. runAge' \in 0..RunHorizon /\ stepAge' \in 0..RunHorizon
      BY SequenceAssumption DEF SequenceTick, SlotsInv, Older
<1> QED
    BY <1>1, <1>3, <1>4, <1>5, <1>6 DEF SlotsInv

(* Firmware starts with no slot running.                                   *)
LEMMA SequenceInvInit ==
  ASSUME SlotsInit
  PROVE  SequenceInv
<1>1. EngineInv /\ owner = None
      BY EngineInvInit DEF SlotsInit, EngineOnlyInit
<1>2. PICK table \in Programs :
        /\ ~Rejected(table)
        /\ defs = Parsed(table)
        /\ runtime = [s \in Slots |-> FreshRuntime(Parsed(table)[s])]
        /\ activeSlot = 0 /\ runAge = 0 /\ stepAge = 0
      BY DEF SlotsInit, SequenceInit
<1>3. /\ runtime \in [Slots -> Runtime]
      /\ \A s \in Slots : runtime[s].state \notin Running
      BY <1>2, FreshRuntimeType
<1>4. RunningSlotHoldsArbiter
      BY <1>1, <1>2, <1>3, OwnersDiffer DEF RunningSlotHoldsArbiter, Slots
<1>5. SlotsInv
      BY <1>2, <1>3, <1>4, ParsedType, SequenceAssumption, SlotCountAssumption
         DEF SlotsInv, RunHasStep
<1> QED
    BY <1>1, <1>5 DEF SequenceInv

-----------------------------------------------------------------------------
(* Theorems                                                                *)

(* Engine and slots together keep their invariant.                         *)
THEOREM SequenceInvariant == SlotsSpec => []SequenceInv
<1>1. SlotsInit => SequenceInv
      BY SequenceInvInit
<1>2. SequenceInv /\ [SlotsNext]_slotsAll => SequenceInv'
  <2> SUFFICES ASSUME SequenceInv, [SlotsNext]_slotsAll
               PROVE  SequenceInv'
      OBVIOUS
  <2>1. CASE EngineStep /\ UNCHANGED sequenceVars
    <3>1. EngineInv' /\ (owner' # owner => {owner, owner'} \subseteq {None, Manual, StopReplay})
          BY <2>1, EngineInvStep DEF SequenceInv
    <3> QED
        BY <2>1, <3>1, OwnersDiffer, SlotsUntouched DEF SequenceInv
  <2>2. CASE CameraStep /\ UNCHANGED sequenceVars
        BY <2>2, CameraInvStep, SlotsUntouched DEF SequenceInv
  <2>3. CASE EngineTick /\ SequenceTick
        BY <2>3, EngineTickInv, SequenceTickInv DEF SequenceInv
  <2>4. CASE UNCHANGED slotsAll
    <3>1. EngineInv'
          BY <2>4 DEF slotsAll, SequenceInv, EngineInv, EngineTypeOK, MacroHoldsArbiter,
                      CallerOwnsArbiter, CpuFree
    <3> QED
        BY <2>4, <3>1, SlotsUntouched DEF slotsAll, sequenceVars, SequenceInv
  <2> QED
      BY <2>1, <2>2, <2>3, <2>4, SequenceInvStep, ReloadInv DEF SlotsNext
<1> QED
    BY <1>1, <1>2, PTL DEF SlotsSpec

(* Engine and slots are always in states of their types.                   *)
THEOREM SequenceTypesHold == SlotsSpec => []SequenceTypeOK
<1>1. SequenceInv => SequenceTypeOK
      BY DEF SequenceInv, SlotsInv, EngineInv, SequenceTypeOK
<1> QED
    BY <1>1, SequenceInvariant, PTL

(* A slot is shown as running exactly while it is active and holds the     *)
(* camera, whatever its program, its commands and the link do.             *)
THEOREM RunningSlotAlwaysHoldsArbiter == SlotsSpec => []RunningSlotHoldsArbiter
<1>1. SequenceInv => RunningSlotHoldsArbiter
      BY DEF SequenceInv, SlotsInv
<1> QED
    BY <1>1, SequenceInvariant, PTL

(* loop() never reads past the program of the running slot.                *)
THEOREM RunAlwaysHasStep == SlotsSpec => []RunHasStep
<1>1. SequenceInv => RunHasStep
      BY DEF SequenceInv, SlotsInv
<1> QED
    BY <1>1, SequenceInvariant, PTL

-----------------------------------------------------------------------------
(* Waits for ready                                                         *)

ReadyWait(step) == step.type = "wait_state" /\ step.stateId = "ready" /\ step.equals = "true"

(* A wait for ready directly follows a command that starts no recording,   *)
(* as in the sequence the firmware ships.                                  *)
WaitsAfterCommand(steps) ==
  \A i \in DOMAIN steps : ReadyWait(steps[i]) =>
    /\ i - 1 \in DOMAIN steps
    /\ steps[i - 1].type = "command" /\ steps[i - 1].command \notin Starts

ReadyFollowsCommand ==
  \A table \in Programs : ~Rejected(table) =>
    \A s \in Slots : WaitsAfterCommand(Parsed(table)[s].steps)

ProgramsInv ==
  \A s \in Slots : /\ WaitsAfterCommand(defs[s].steps)
                   /\ \A i \in DOMAIN defs[s].steps : defs[s].steps[i].freshMs < SampleHorizon

(* A running slot's call is its current step.                              *)
CallIsStep ==
  activeSlot # 0 /\ ~CpuFree => CurrentStep.type = "command" /\ call.id = CurrentStep.command

(* A dry run starts no recording: ready was, and stays, true.              *)
NewsOfDryRun ==
  config.dryRun => (sample["ready"].valid /\ sample["ready"].raw = "true" => ~Unsettled)

(* Since a wait for ready began, only the truth could satisfy it.          *)
NewsOfWait ==
  WaitsForReady =>
    (FreshSince("ready", CurrentStep.freshMs, stepAge) /\ sample["ready"].raw = "true"
       => ~Unsettled)

WaitInv ==
  /\ AnswerInv /\ StandbyPassed /\ NewsOfCall
  /\ ProgramsInv /\ CallIsStep /\ NewsOfDryRun /\ NewsOfWait

(* While a slot waits no call is under way.                                *)
LEMMA WaitsAlone ==
  ASSUME CallIsStep, WaitsForReady
  PROVE  CpuFree /\ ~StartUnderWay
BY DEF CallIsStep, WaitsForReady, CpuFree, NoCall, StartUnderWay

(* The current step is one of the slot's program.                          *)
LEMMA CurrentStepOf ==
  ASSUME SequenceInv, ProgramsInv, activeSlot # 0
  PROVE  /\ runtime[activeSlot].currentStep \in Nat
         /\ runtime[activeSlot].currentStep + 1 \in DOMAIN Active.steps
         /\ CurrentStep.freshMs < SampleHorizon
         /\ WaitsAfterCommand(Active.steps)
<1>1. activeSlot \in Slots /\ Active \in Definition
      /\ runtime[activeSlot].currentStep < Len(Active.steps)
      BY ActiveSlot
<1>2. runtime[activeSlot].currentStep \in Nat
      BY <1>1 DEF SequenceInv, SlotsInv, Runtime
<1>3. Active.steps \in Seq(Step)
      BY <1>1 DEF Definition
<1>4. runtime[activeSlot].currentStep + 1 \in DOMAIN Active.steps
      BY <1>1, <1>2, <1>3
<1> QED
    BY <1>1, <1>2, <1>4 DEF ProgramsInv, CurrentStep, Active

(* A step that stays is the same step.                                     *)
LEMMA SameStep ==
  ASSUME UNCHANGED <<defs, activeSlot>>,
         runtime'[activeSlot].currentStep = runtime[activeSlot].currentStep
  PROVE  CurrentStep' = CurrentStep
BY DEF CurrentStep, Active

LEMMA StaySame ==
  ASSUME SequenceInv, activeSlot # 0, UNCHANGED defs, NEW state, Stay(state)
  PROVE  CurrentStep' = CurrentStep /\ UNCHANGED <<activeSlot, stepAge>>
         /\ runtime'[activeSlot].currentStep = runtime[activeSlot].currentStep
<1>1. activeSlot \in Slots /\ runtime[activeSlot].state \in Running
      BY ActiveSlot
<1>2. Settled[activeSlot] = runtime[activeSlot] /\ Settled \in [Slots -> Runtime]
      BY <1>1, SettledType DEF SequenceInv, SlotsInv
<1>3. runtime'[activeSlot].currentStep = runtime[activeSlot].currentStep
      BY <1>1, <1>2 DEF Stay, Runtime
<1> QED
    BY <1>3, SameStep DEF Stay

(* The step that begins when another is done.                              *)
LEMMA NextStep ==
  ASSUME SequenceInv, ProgramsInv, activeSlot # 0, UNCHANGED defs,
         NEW slots \in [Slots -> Runtime], slots[activeSlot] = runtime[activeSlot], Advance(slots)
  PROVE  \/ activeSlot' = 0
         \/ /\ stepAge' = 0
            /\ ReadyWait(CurrentStep') =>
                 CurrentStep.type = "command" /\ CurrentStep.command \notin Starts
<1> DEFINE done == runtime[activeSlot].currentStep + 1
<1>1. /\ activeSlot \in Slots /\ Active \in Definition /\ done \in Nat \ {0}
      /\ WaitsAfterCommand(Active.steps)
      BY ActiveSlot, CurrentStepOf
<1>2. CASE done < Len(Active.steps) /\ runtime' = [slots EXCEPT ![activeSlot].state = "Active",
                                                          ![activeSlot].currentStep = done]
           /\ stepAge' = 0 /\ UNCHANGED activeSlot
  <2>1. runtime'[activeSlot].currentStep = done
        BY <1>1, <1>2 DEF Runtime
  <2>2. CurrentStep' = Active.steps[done + 1] /\ CurrentStep = Active.steps[done]
        BY <1>2, <2>1 DEF CurrentStep, Active
  <2>3. done + 1 \in DOMAIN Active.steps /\ (done + 1) - 1 = done
        BY <1>1, <1>2 DEF Definition
  <2> QED
      BY <1>1, <1>2, <2>2, <2>3 DEF WaitsAfterCommand
<1>3. CASE EndRun
      BY <1>3 DEF EndRun
<1> QED
    BY <1>2, <1>3 DEF Advance

(* The steps of the engine, the camera and the clock.                      *)
LEMMA CallIsStepKept ==
  ASSUME SequenceInv, EngineInv', CallIsStep,
         \/ /\ EngineStep \/ CameraStep \/ UNCHANGED slotsAll
            /\ UNCHANGED sequenceVars
         \/ EngineTick /\ SequenceTick
  PROVE  CallIsStep'
<1>0. call \in Call
      BY DEF SequenceInv, EngineInv, EngineTypeOK
<1>1. activeSlot' = activeSlot /\ defs' = defs
      BY DEF sequenceVars, SequenceTick
<1>2. activeSlot # 0 => CurrentStep' = CurrentStep
  <2>1. CASE UNCHANGED sequenceVars
        BY <2>1 DEF sequenceVars, CurrentStep, Active
  <2>2. CASE SequenceTick /\ activeSlot # 0
    <3>1. activeSlot \in Slots /\ runtime[activeSlot] \in Runtime
          BY <2>2, ActiveSlot DEF SequenceInv, SlotsInv
    <3>2. runtime'[activeSlot].currentStep = runtime[activeSlot].currentStep
          BY <2>2, <3>1 DEF SequenceTick, CompleteFor, Runtime
    <3> QED
        BY <1>1, <3>2, SameStep
  <2> QED
      BY <2>1, <2>2
<1>3. ASSUME call'.id = call.id, CpuFree => CpuFree'
      PROVE  CallIsStep'
      BY <1>1, <1>2, <1>3 DEF CallIsStep
<1>4. CASE EngineStep /\ activeSlot # 0
  <2>1. owner \in Owners \ {None, Manual, StopReplay}
        BY <1>4, ActiveSlot
  <2>2. owner' = owner
        BY <1>4, <2>1, EngineInvStep DEF SequenceInv
  <2>3. call' = NoCall \/ call'.by = owner
        BY <2>2 DEF EngineInv, CallerOwnsArbiter, CpuFree
  <2>4. call' = NoCall \/ UNCHANGED call \/ \E id : Send(Manual, id) \/ Send(StopReplay, id)
        BY <1>4
           DEF EngineStep, CommandReturns, ManualReturn, StopReturns, ReviewReturns, ManualCommand,
               StopReplayCommand, AbortStopReplay, IdlePass, MacroLoop, MacroLinkLost,
               MacroTimesOut, MacroReview, MacroHoldsBack, MacroWatches, MacroLive, MacroPass
  <2>5. call' = NoCall \/ UNCHANGED call
        BY <2>1, <2>3, <2>4 DEF Send
  <2> QED
      BY <1>3, <2>5 DEF CallIsStep, CpuFree
<1>5. CASE CameraStep
  <2>1. UNCHANGED call \/ (~CpuFree /\ call' = [call EXCEPT !.obeyed = TRUE])
        BY <1>5 DEF CameraStep, CameraObeys, ProbeAnswered
  <2> QED
      BY <1>0, <1>3, <2>1 DEF Call, CpuFree
<1>6. CASE EngineTick
      BY <1>0, <1>3, <1>6 DEF EngineTick, Call, CpuFree
<1>7. CASE UNCHANGED slotsAll
      BY <1>3, <1>7 DEF slotsAll, CpuFree
<1>8. CASE activeSlot = 0
      BY <1>1, <1>8 DEF CallIsStep
<1> QED
    BY <1>4, <1>5, <1>6, <1>7, <1>8

LEMMA NewsOfDryRunKept ==
  ASSUME EngineInv, AnswerInv, StandbyPassed, NewsOfDryRun, [EngineOnlyNext]_engineAll
  PROVE  NewsOfDryRun'
<1>1. "ready" \in StateIds /\ EngineTypeOK
      BY DEF StateIds, EngineInv
<1>2. UNCHANGED config
      BY DEF EngineOnlyNext, EngineStep, CameraStep, EngineTick, engineAll
<1>3. CASE ~config.dryRun
      BY <1>2, <1>3 DEF NewsOfDryRun
<1>4. CASE config.dryRun
  <2>1. CASE EngineTick
        BY <1>1, <1>2, <2>1, NothingIsNow DEF NewsOfDryRun, EngineTick, Unsettled
  <2>2. CASE UNCHANGED sample /\ (camera' = camera \/ camera' = "Standby")
        BY <1>2, <2>2 DEF NewsOfDryRun, Unsettled
  <2>3. CASE ReadNotification
    <3>1. ~StartUnderWay
          BY <1>4 DEF AnswerInv, StartUnderWay
    <3>2. sample'["ready"].raw = "true" => ~Unsettled
          BY <1>1, <2>3, <3>1, NotificationIsNews
    <3> QED
        BY <2>3, <3>2 DEF NewsOfDryRun, ReadNotification, Unsettled
  <2>4. CASE PollState
    <3>1. PICK id \in Polled : \E raw \in PollAnswers(id) : Poll(id, raw)
          BY <2>4 DEF PollState
    <3>2. PICK raw \in PollAnswers(id) : Poll(id, raw)
          BY <3>1
    <3>3. UNCHANGED camera /\ id \in StateIds
          /\ sample' = [i \in StateIds |-> IF i = id THEN [valid |-> TRUE, raw |-> raw, age |-> 0]
                                                   ELSE sample[i]]
          BY <3>2, FeedbackAssumption DEF Poll, StoreSet
    <3>4. sample'["ready"] = sample["ready"] \/ (id = "ready" /\ sample'["ready"].raw = raw)
          BY <1>1, <3>3
    <3>5. id = "ready" /\ raw = "true" => ~Unsettled
          BY PollIsTrue
    <3> QED
        BY <1>2, <3>3, <3>4, <3>5 DEF NewsOfDryRun, Unsettled
  <2> QED
      BY <1>4, <2>1, <2>2, <2>3, <2>4
         DEF EngineOnlyNext, EngineStep, CameraStep, CameraObeys, ProbeAnswered, CameraSettles,
             LinkChanges, SessionEnds, Notify, engineAll
<1> QED
    BY <1>3, <1>4

LEMMA NewsOfWaitKept ==
  ASSUME SequenceInv, WaitInv,
         \/ /\ EngineStep \/ CameraStep \/ UNCHANGED slotsAll
            /\ UNCHANGED sequenceVars
         \/ EngineTick /\ SequenceTick,
         WaitsForReady'
  PROVE  NewsOfWait'
<1>0. EngineTypeOK /\ "ready" \in StateIds
      BY DEF SequenceInv, EngineInv, StateIds
<1>1. activeSlot # 0 /\ activeSlot' = activeSlot /\ activeSlot \in Slots
      BY ActiveSlot DEF sequenceVars, SequenceTick, WaitsForReady
<1>2. CurrentStep' = CurrentStep
  <2>1. CASE UNCHANGED sequenceVars
        BY <2>1 DEF sequenceVars, CurrentStep, Active
  <2>2. CASE SequenceTick
    <3>1. runtime[activeSlot] \in Runtime
          BY <1>1 DEF SequenceInv, SlotsInv
    <3>2. runtime'[activeSlot].currentStep = runtime[activeSlot].currentStep
          BY <1>1, <2>2, <3>1 DEF SequenceTick, CompleteFor, Runtime
    <3> QED
        BY <1>1, <2>2, <3>2, SameStep DEF SequenceTick
  <2> QED
      BY <2>1, <2>2
<1>3. WaitsForReady
      BY <1>1, <1>2 DEF WaitsForReady
<1>4. CpuFree /\ ~StartUnderWay
      BY <1>3, WaitsAlone DEF WaitInv
<1>5. ASSUME UNCHANGED <<sample, stepAge>>, camera' = camera \/ camera' = "Standby"
      PROVE  NewsOfWait'
      BY <1>2, <1>3, <1>5 DEF NewsOfWait, WaitInv, FreshSince, Fresh, Unsettled
<1>6. CASE EngineTick /\ SequenceTick
  <2> DEFINE age == sample["ready"].age
             fresh == CurrentStep.freshMs
  <2>1. age \in Nat /\ age <= SampleHorizon /\ SampleHorizon \in Nat
        BY <1>0, SampleTypes, SampleHorizonAssumption
  <2>2. fresh \in Nat /\ fresh < SampleHorizon
        BY <1>1, ActiveSlot, CurrentStepOf DEF WaitInv, Step, StepFields
  <2>3. stepAge \in Nat /\ stepAge <= RunHorizon /\ RunHorizon \in Nat
        /\ stepAge' = Older(stepAge, RunHorizon)
        BY <1>1, <1>6, SequenceAssumption DEF SequenceInv, SlotsInv, SequenceTick
  <2>4. /\ sample'["ready"].valid = sample["ready"].valid
        /\ sample'["ready"].raw = sample["ready"].raw
        /\ sample["ready"].valid => sample'["ready"].age = Older(age, SampleHorizon)
        BY <1>0, <1>6, NothingIsNow
  <2>5. ASSUME FreshSince("ready", CurrentStep.freshMs, stepAge)'
        PROVE  FreshSince("ready", CurrentStep.freshMs, stepAge)
    <3>1. /\ sample["ready"].valid
          /\ Older(age, SampleHorizon) <= fresh
          /\ Older(age, SampleHorizon) <= Older(stepAge, RunHorizon)
          BY <1>2, <2>3, <2>4, <2>5 DEF FreshSince, Fresh
    <3>2. age <= fresh /\ age <= stepAge
          BY <2>1, <2>2, <2>3, <3>1 DEF Older
    <3> QED
        BY <3>1, <3>2 DEF FreshSince, Fresh
  <2>6. Unsettled' = Unsettled
        BY <1>6 DEF EngineTick, Unsettled
  <2> QED
      BY <1>3, <2>4, <2>5, <2>6 DEF NewsOfWait, WaitInv
<1>7. CASE CameraStep /\ UNCHANGED sequenceVars
  <2>1. UNCHANGED stepAge
        BY <1>7 DEF sequenceVars
  <2>2. CASE ReadNotification
    <3>1. sample'["ready"].raw = "true" => ~Unsettled
          BY <1>0, <1>4, <2>2, NotificationIsNews DEF WaitInv
    <3> QED
        BY <2>2, <3>1 DEF NewsOfWait, ReadNotification, Unsettled
  <2>3. CASE PollState
    <3>1. PICK id \in Polled : \E raw \in PollAnswers(id) : Poll(id, raw)
          BY <2>3 DEF PollState
    <3>2. PICK raw \in PollAnswers(id) : Poll(id, raw)
          BY <3>1
    <3>3. UNCHANGED camera /\ id \in StateIds
          /\ sample' = [i \in StateIds |-> IF i = id THEN [valid |-> TRUE, raw |-> raw, age |-> 0]
                                                   ELSE sample[i]]
          BY <3>2, FeedbackAssumption DEF Poll, StoreSet
    <3>4. CASE id = "ready"
      <4>1. sample'["ready"].raw = raw
            BY <1>0, <3>3, <3>4
      <4> QED
          BY <3>3, <3>4, <4>1, PollIsTrue DEF NewsOfWait, Unsettled
    <3>5. CASE sample'["ready"] = sample["ready"]
          BY <1>2, <1>3, <2>1, <3>3, <3>5 DEF NewsOfWait, WaitInv, FreshSince, Fresh, Unsettled
    <3> QED
        BY <1>0, <3>3, <3>4, <3>5
  <2>4. CASE UNCHANGED sample /\ (camera' = camera \/ camera' = "Standby")
        BY <1>5, <2>1, <2>4
  <2> QED
      BY <1>4, <1>7, <2>2, <2>3, <2>4
         DEF CameraStep, CameraObeys, ProbeAnswered, CameraSettles, LinkChanges, SessionEnds, Notify
<1>8. CASE (EngineStep \/ UNCHANGED slotsAll) /\ UNCHANGED sequenceVars
      BY <1>5, <1>8 DEF EngineStep, slotsAll, sequenceVars
<1> QED
    BY <1>6, <1>7, <1>8

(* Commands that start no recording have no mapping that does.             *)
LEMMA StartsNothing ==
  ASSUME StopsAreMapped, EngineTypeOK, NEW id, id \notin Starts
  PROVE  ActualId(id) \notin Starts
BY DEF StopsAreMapped, EngineTypeOK, ActualId, Fallback, Starts

(* A pass of loop() that is not a call's return.                           *)
LEMMA SequencePassWaits ==
  ASSUME SequenceInv, WaitInv, UNCHANGED <<camera, sample>>,
         (\E s \in Slots : Trigger(s)) \/ AbortSequence \/ SequenceIdlePass \/ SequenceLoop,
         UNCHANGED defs
  PROVE  CallIsStep' /\ NewsOfWait'
<1>0. runtime \in [Slots -> Runtime] /\ ProgramsInv /\ CallIsStep /\ NewsOfWait
      BY DEF SequenceInv, SlotsInv, WaitInv
<1>1. ASSUME CpuFree', ~ReadyWait(CurrentStep') \/ activeSlot' = 0
      PROVE  CallIsStep' /\ NewsOfWait'
      BY <1>1 DEF CallIsStep, NewsOfWait, WaitsForReady, ReadyWait
<1>2. ASSUME NEW s \in Slots, Trigger(s) PROVE CallIsStep' /\ NewsOfWait'
  <2>1. activeSlot' = s /\ runtime'[s].currentStep = 0 /\ CpuFree'
        BY <1>0, <1>2 DEF Trigger, CpuFree
  <2>2. CurrentStep' = defs[s].steps[1] /\ defs[s].steps # <<>> /\ defs[s].steps \in Seq(Step)
        BY <1>2, <2>1 DEF CurrentStep, Active, Trigger, Runnable, SequenceInv, SlotsInv, Definition
  <2>3. 1 \in DOMAIN defs[s].steps /\ 1 - 1 \notin DOMAIN defs[s].steps
        BY <2>2
  <2>4. ~ReadyWait(CurrentStep')
        BY <1>0, <2>2, <2>3 DEF ProgramsInv, WaitsAfterCommand
  <2> QED
      BY <1>1, <2>1, <2>4
<1>3. CASE AbortSequence
      BY <1>1, <1>3 DEF AbortSequence, EndRun, CpuFree
<1>4. CASE SequenceIdlePass
      BY <1>1, <1>4 DEF SequenceIdlePass, CpuFree
<1>5. CASE SequenceLoop
  <2>1. activeSlot # 0 /\ CpuFree
        BY <1>5 DEF SequenceLoop, SequenceGivesUp, CommandStep, WaitMsStep, WaitStateStep,
                    SequenceLive, SequencePass
  <2>2. Settled \in [Slots -> Runtime] /\ Settled[activeSlot] = runtime[activeSlot]
        BY <1>0, <2>1, ActiveSlot, SettledType
  <2>3. CASE SequenceGivesUp
        BY <1>1, <2>1, <2>3 DEF SequenceGivesUp, Fail, EndRun, CpuFree
  <2>4. CASE CommandStep
    <3>1. CurrentStep.type = "command" /\ CurrentStep' = CurrentStep
          /\ call'.id = CurrentStep.command
          BY <2>1, <2>4, StaySame DEF CommandStep, SequenceLive, Send
    <3> QED
        BY <3>1 DEF CallIsStep, NewsOfWait, WaitsForReady
  <2>5. CASE (WaitMsStep \/ WaitStateStep) /\ Advance(Settled)
    <3>1. CpuFree' /\ CurrentStep.type # "command"
          BY <2>1, <2>5 DEF WaitMsStep, WaitStateStep, SequenceLive, CpuFree
    <3>2. activeSlot' = 0 \/ ~ReadyWait(CurrentStep')
          BY <1>0, <2>1, <2>2, <2>5, <3>1, NextStep
    <3> QED
        BY <1>1, <3>1, <3>2
  <2>6. CASE WaitStateStep /\ Fail(Settled)
        BY <1>1, <2>1, <2>6 DEF WaitStateStep, Fail, EndRun, CpuFree
  <2>7. ASSUME NEW state, WaitMsStep \/ WaitStateStep, Stay(state)
        PROVE  CallIsStep' /\ NewsOfWait'
    <3>1. CurrentStep' = CurrentStep /\ UNCHANGED <<activeSlot, stepAge>> /\ CpuFree'
          BY <2>1, <2>7, StaySame DEF WaitMsStep, WaitStateStep, CpuFree
    <3>2. CallIsStep'
          BY <3>1 DEF CallIsStep
    <3>3. NewsOfWait'
          BY <1>0, <3>1 DEF NewsOfWait, WaitsForReady, FreshSince, Fresh, Unsettled
    <3> QED
        BY <3>2, <3>3
  <2>8. WaitMsStep => Advance(Settled) \/ Stay("Waiting")
        BY DEF WaitMsStep
  <2>9. WaitStateStep => Advance(Settled) \/ Fail(Settled) \/ Stay(WaitingFor)
        BY DEF WaitStateStep
  <2> QED
      BY <1>5, <2>3, <2>4, <2>5, <2>6, <2>7, <2>8, <2>9 DEF SequenceLoop
<1> QED
    BY <1>2, <1>3, <1>4, <1>5

(* The return of a slot's call.                                            *)
LEMMA CommandStepWaits ==
  ASSUME StopsAreMapped, SequenceInv, WaitInv, UNCHANGED <<camera, sample, config>>,
         CommandStepReturns
  PROVE  CallIsStep' /\ NewsOfWait'
<1>0. /\ runtime \in [Slots -> Runtime] /\ ProgramsInv /\ CallIsStep /\ ~CpuFree
      /\ EngineTypeOK /\ "ready" \in StateIds /\ UNCHANGED defs
      BY DEF SequenceInv, EngineInv, SlotsInv, WaitInv, CommandStepReturns, StateIds
<1>1. CpuFree' /\ CallIsStep'
      BY DEF CommandStepReturns, CpuFree, CallIsStep
<1>2. activeSlot # 0
  <2>1. IsSequence(call.by) /\ call.by = owner /\ owner # None
        BY <1>0 DEF CommandStepReturns, SequenceInv, EngineInv, CallerOwnsArbiter
  <2>2. PICK r \in Slots : owner = SequenceOwner(r)
        BY <1>0, <2>1, SequenceOwners DEF EngineTypeOK
  <2> QED
      BY <2>2 DEF SequenceInv, SlotsInv, RunningSlotHoldsArbiter, Slots
<1>3. CASE CallFails /\ Fail(runtime)
      BY <1>1, <1>3 DEF Fail, EndRun, NewsOfWait, WaitsForReady
<1>4. CASE CallSucceeds /\ Advance(runtime)
  <2>1. CASE activeSlot' = 0
        BY <1>1, <2>1 DEF NewsOfWait, WaitsForReady
  <2>2. CASE /\ stepAge' = 0
             /\ ReadyWait(CurrentStep') =>
                  CurrentStep.type = "command" /\ CurrentStep.command \notin Starts
    <3> SUFFICES ASSUME WaitsForReady', sample["ready"].raw = "true",
                        FreshSince("ready", CurrentStep.freshMs, stepAge)'
                 PROVE  ~Unsettled'
        BY <1>0, <1>1 DEF NewsOfWait
    <3>1. call.id = CurrentStep.command /\ CurrentStep.command \notin Starts
          BY <1>0, <1>2, <2>2 DEF CallIsStep, WaitsForReady, ReadyWait
    <3>2. ActualId(call.id) \notin Starts
          BY <1>0, <3>1, StopsAreMapped, StartsNothing
    <3>3. sample["ready"].valid /\ sample["ready"].age <= 0
          BY <2>2 DEF FreshSince, Fresh
    <3>4. Now("ready")
          BY <1>0, <3>3, SampleTypes DEF Now
    <3>5. config.dryRun \/ call.elapsed
          BY <1>4 DEF CallSucceeds
    <3>6. ~Unsettled
          BY <1>0, <3>2, <3>3, <3>4, <3>5 DEF WaitInv, NewsOfCall, NewsOfDryRun
    <3> QED
        BY <3>6 DEF Unsettled
  <2> QED
      BY <1>0, <1>2, <1>4, <2>1, <2>2, NextStep
<1> QED
    BY <1>1, <1>3, <1>4 DEF CommandStepReturns

(* The slots' steps and a reload leave the rest alone.                     *)
LEMMA SequenceStepFeedback ==
  ASSUME StartsOverLinear, SequenceInv, WaitInv,
         SequenceStep \/ \E table \in Programs : Reload(table)
  PROVE  AnswerInv' /\ StandbyPassed' /\ NewsOfCall' /\ NewsOfDryRun'
<1>0. /\ UNCHANGED <<config, camera, sample>> /\ EngineTypeOK /\ AnswerInv /\ StandbyPassed
      /\ ~NoCall.obeyed /\ ~NoCall.elapsed
      BY DEF SequenceStep, Reload, SequenceInv, EngineInv, WaitInv, NoCall
<1>1. NewsOfDryRun'
      BY <1>0 DEF WaitInv, NewsOfDryRun, Unsettled
<1>2. CASE SequenceStep /\ CommandStepReturns
  <2>1. call' = NoCall /\ (CallSucceeds \/ CallFails)
        BY <1>2 DEF CommandStepReturns
  <2>2. AnswerInv'
        BY <1>0, <2>1, ReturnTakesAnswer DEF AnswerInv
  <2>3. Unsettled => NoStandby(wire')
        BY <1>0, <2>1, StartsOverLinear, ReturnPassesStandby
  <2>4. StandbyPassed'
        BY <1>0, <2>3 DEF StandbyPassed, NoStandby, Unsettled
  <2>5. NewsOfCall'
        BY <2>1 DEF NewsOfCall, CpuFree
  <2> QED
      BY <1>1, <2>2, <2>4, <2>5
<1>3. CASE /\ UNCHANGED wire
           /\ \/ (\E s \in Slots : Trigger(s)) \/ AbortSequence \/ SequenceIdlePass \/ SequenceLoop
              \/ \E table \in Programs : Reload(table)
  <2>1. CpuFree /\ (UNCHANGED call \/ \E by, id : Send(by, id))
        BY <1>3 DEF Trigger, AbortSequence, SequenceIdlePass, SequenceLoop, Reload, SequenceGivesUp,
                    CommandStep, WaitMsStep, WaitStateStep, SequenceLive, SequencePass
  <2>2. ~call'.obeyed /\ ~call'.elapsed /\ ~call.obeyed
        BY <1>0, <2>1 DEF CpuFree, Send
  <2>3. ~AnswerWaits /\ ~StartUnderWay
        BY <1>0, <2>2 DEF AnswerInv, StartUnderWay
  <2>4. AnswerInv'
        BY <1>0, <1>3, <2>2, <2>3 DEF AnswerInv, AnswerWaits, OneAnswer
  <2>5. StandbyPassed'
        BY <1>0, <1>3, <2>3 DEF StandbyPassed, NoStandby, Unsettled
  <2>6. NewsOfCall'
        BY <2>2 DEF NewsOfCall
  <2> QED
      BY <1>1, <2>4, <2>5, <2>6
<1> QED
    BY <1>2, <1>3 DEF SequenceStep, Reload

LEMMA WaitInvStep ==
  ASSUME StopsAreMapped, StartsOverLinear, ReadyFollowsCommand, SequenceInv, SequenceInv', WaitInv,
         [SlotsNext]_slotsAll
  PROVE  WaitInv'
<1>1. CASE \/ /\ EngineStep \/ CameraStep \/ UNCHANGED slotsAll
              /\ UNCHANGED sequenceVars
           \/ EngineTick /\ SequenceTick
  <2>1. [EngineOnlyNext]_engineAll
        BY <1>1 DEF EngineOnlyNext, engineAll, slotsAll
  <2>2. AnswerInv' /\ StandbyPassed' /\ NewsOfCall' /\ NewsOfDryRun'
        BY <2>1, StartsOverLinear, AnswerInvStep, StandbyPassedStep, NewsOfCallStep, NewsOfDryRunKept
           DEF WaitInv, SequenceInv, EngineInv
  <2>3. ProgramsInv'
        BY <1>1 DEF WaitInv, ProgramsInv, sequenceVars, SequenceTick
  <2>4. CallIsStep'
        BY <1>1, CallIsStepKept DEF WaitInv, SequenceInv
  <2>5. NewsOfWait'
    <3>1. WaitsForReady' => NewsOfWait'
          BY <1>1, NewsOfWaitKept
    <3> QED
        BY <3>1 DEF NewsOfWait
  <2> QED
      BY <2>2, <2>3, <2>4, <2>5 DEF WaitInv
<1>2. CASE SequenceStep
  <2>1. ProgramsInv' /\ UNCHANGED <<defs, camera, sample, config>>
        BY <1>2 DEF WaitInv, ProgramsInv, SequenceStep, Trigger, AbortSequence, SequenceLoop,
                    CommandStepReturns
  <2>2. CallIsStep' /\ NewsOfWait'
        BY <1>2, <2>1, StopsAreMapped, SequencePassWaits, CommandStepWaits DEF SequenceStep
  <2> QED
      BY <1>2, <2>1, <2>2, StartsOverLinear, SequenceStepFeedback DEF WaitInv
<1>3. ASSUME NEW table \in Programs, Reload(table)
      PROVE  WaitInv'
  <2>1. ProgramsInv'
        BY <1>3, ReadyFollowsCommand, SequenceAssumption DEF ReadyFollowsCommand, ProgramsInv, Reload, Load
  <2>2. CallIsStep' /\ NewsOfWait'
        BY <1>3 DEF Reload, Load, CallIsStep, NewsOfWait, WaitsForReady
  <2> QED
      BY <1>3, <2>1, <2>2, StartsOverLinear, SequenceStepFeedback DEF WaitInv
<1> QED
    BY <1>1, <1>2, <1>3 DEF SlotsNext, slotsAll, sequenceVars

(* Where STOP has a mapping, what starts a recording goes over /linear and *)
(* a wait for ready directly follows another command, no delayed, stale or *)
(* garbled feedback lets a slot go on before the camera closed the clip.   *)
THEOREM WaitForReadyAlwaysOutlastsClip ==
  ASSUME StopsAreMapped, StartsOverLinear, ReadyFollowsCommand
  PROVE  SlotsSpec => WaitForReadyOutlastsClip
<1> DEFINE Passed == /\ WaitsForReady
                     /\ runtime'[activeSlot].currentStep > runtime[activeSlot].currentStep
<1>1. SlotsInit => WaitInv
  <2> SUFFICES ASSUME SlotsInit PROVE WaitInv
      OBVIOUS
  <2>1. PICK table \in Programs : ~Rejected(table) /\ defs = Parsed(table) /\ activeSlot = 0
        BY DEF SlotsInit, SequenceInit
  <2>2. ProgramsInv
        BY <2>1, ReadyFollowsCommand, SequenceAssumption DEF ReadyFollowsCommand, ProgramsInv
  <2>3. /\ wire = <<>> /\ call = NoCall /\ ~NoCall.obeyed
        /\ sample = [id \in StateIds |-> NoSample] /\ "ready" \in StateIds /\ ~NoSample.valid
        BY DEF SlotsInit, EngineOnlyInit, EngineInit, CameraInit, StoreInit, NoCall, StateIds, NoSample
  <2>4. AnswerInv /\ StandbyPassed /\ NewsOfCall
        BY <2>3 DEF AnswerInv, AnswerWaits, OneAnswer, StandbyPassed, NoStandby, NewsOfCall, CpuFree
  <2>5. CallIsStep /\ NewsOfWait /\ NewsOfDryRun
        BY <2>1, <2>3 DEF CallIsStep, NewsOfWait, WaitsForReady, NewsOfDryRun
  <2> QED
      BY <2>2, <2>4, <2>5 DEF WaitInv
<1>2. SequenceInv /\ SequenceInv' /\ WaitInv /\ [SlotsNext]_slotsAll => WaitInv'
      BY StopsAreMapped, StartsOverLinear, ReadyFollowsCommand, WaitInvStep
<1>3. ASSUME SequenceInv, WaitInv, [SlotsNext]_slotsAll, Passed
      PROVE  camera \notin {"Recording", "Writing"}
  <2>1. activeSlot # 0 /\ CpuFree /\ activeSlot \in Slots
        BY <1>3, WaitsAlone, ActiveSlot DEF WaitInv, WaitsForReady
  <2>2. runtime[activeSlot].currentStep \in Nat /\ runtime \in [Slots -> Runtime]
        /\ ~(runtime[activeSlot].currentStep > runtime[activeSlot].currentStep)
        BY <1>3, <2>1, CurrentStepOf DEF WaitInv, SequenceInv, SlotsInv
  <2>3. runtime'[activeSlot].currentStep # runtime[activeSlot].currentStep
        BY <1>3, <2>2
  <2>4. Settled[activeSlot] = runtime[activeSlot] /\ Settled \in [Slots -> Runtime]
        BY <1>3, <2>1, <2>2, ActiveSlot, SettledType
  <2>5. SequenceLoop
    <3>1. ~UNCHANGED runtime
          BY <2>3
    <3>2. ~(EngineTick /\ SequenceTick)
          BY <2>1, <2>2, <2>3 DEF SequenceTick, CompleteFor, Runtime
    <3>3. ~AbortSequence
          BY <2>1, <2>2, <2>3 DEF AbortSequence, Runtime
    <3> QED
        BY <1>3, <2>1, <3>1, <3>2, <3>3
           DEF SlotsNext, slotsAll, sequenceVars, SequenceStep, Reload, Trigger, SequenceIdlePass,
               CommandStepReturns
  <2>6. ~Fail(Settled)
        BY <2>1, <2>2, <2>3, <2>4 DEF Fail, Runtime
  <2>7. ASSUME NEW state, Stay(state) PROVE FALSE
        BY <1>3, <2>1, <2>3, <2>5, <2>7, StaySame DEF SequenceLoop
  <2>8. WaitStateStep /\ StateMatches
        BY <1>3, <2>5, <2>6, <2>7
           DEF SequenceLoop, SequenceGivesUp, CommandStep, WaitMsStep, WaitStateStep, SequenceLive,
               WaitsForReady
  <2> QED
      BY <1>3, <2>8 DEF StateMatches, NewsOfWait, WaitInv, WaitsForReady, Unsettled
<1>4. SequenceInv /\ WaitInv /\ [SlotsNext]_slotsAll
        => [Passed => camera \notin {"Recording", "Writing"}]_slotsAll
      BY <1>3
<1> QED
    BY <1>1, <1>2, <1>4, SequenceInvariant, PTL DEF SlotsSpec, WaitForReadyOutlastsClip
=============================================================================
