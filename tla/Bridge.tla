------------------------------- MODULE Bridge -------------------------------
(***************************************************************************)
(* The whole bridge as loop() runs it: the command engine, the sequence    *)
(* slots and the web application's updates and settings share one CPU and  *)
(* one camera lock.  Settings survive a restart, everything else is lost.  *)
(***************************************************************************)
EXTENDS SequenceEngine, FirmwareUpdate

bridgeVars == <<slotsAll, otaVars>>

(* The variables only the web application's own handlers leave alone. *)
cameraSide == <<call, display, engineVars, camera, link, wire, sample>>

BridgeInit == SlotsInit /\ FirmwareInit

(* Slip: only automation keeps settings from being saved. *)
SaveConfigUnlessAutomation ==
  /\ CpuFree
  /\ ~AutomationActive
  /\ config' \in Configs
  /\ UNCHANGED <<owner, cameraSide, sequenceVars, otaVars>>

(* Saving waits for a free camera: requireAutomationIdle. *)
SaveConfig ==
  /\ CpuFree
  /\ ~Busy
  /\ config' \in Configs
  /\ UNCHANGED <<owner, cameraSide, sequenceVars, otaVars>>

SaveSequences(table) ==
  /\ ~Busy
  /\ Reload(table)
  /\ UNCHANGED otaVars

(* RAM is lost; the camera, the saved settings and the table are not. *)
Boot ==
  /\ owner' = None
  /\ call' = NoCall
  /\ macroState' = "Idle" /\ macroAge' = 0 /\ minReview' = 0
  /\ macroPhase' = "READY" /\ macroBusy' = FALSE
  /\ display' = BlankDisplay
  /\ sample' = [id \in StateIds |-> NoSample]
  /\ link' = FALSE /\ wire' = <<>>
  /\ runtime' = [s \in Slots |-> FreshRuntime(defs[s])]
  /\ activeSlot' = 0 /\ runAge' = 0 /\ stepAge' = 0
  /\ FirmwareBoot
  /\ UNCHANGED <<camera, config, defs>>

RebootCommand == CpuFree /\ ~Busy /\ Boot

OtaReboot == CpuFree /\ RebootDue /\ Boot

PowerLoss == Boot

BridgeTick == EngineTick /\ SequenceTick /\ FirmwareTick

BridgeNext ==
  \/ EngineStep /\ UNCHANGED <<sequenceVars, otaVars>>
  \/ CameraStep /\ UNCHANGED <<sequenceVars, otaVars>>
  \/ SequenceStep /\ UNCHANGED otaVars
  \/ CpuFree /\ FirmwareStep /\ UNCHANGED <<config, cameraSide, sequenceVars>>
  \/ SaveConfig
  \/ \E table \in Programs : SaveSequences(table)
  \/ RebootCommand
  \/ OtaReboot
  \/ PowerLoss
  \/ BridgeTick

BridgeSpec == BridgeInit /\ [][BridgeNext]_bridgeVars

-----------------------------------------------------------------------------
(* Properties                                                              *)

BridgeTypeOK == SequenceTypeOK /\ FirmwareTypeOK

(* Everything that believes it has the camera holds the one lock, and the  *)
(* lock's owner is really at work: across every return path of a blocking  *)
(* call, every failure, abort, timeout, upload callback and restart.       *)
Ownership ==
  /\ MacroHoldsArbiter
  /\ CallerOwnsArbiter
  /\ RunningSlotHoldsArbiter
  /\ UpdateHoldsArbiter

(* An operation ends under the settings and the program it began with.     *)
OperationKeepsItsSettings == [][Busy => UNCHANGED <<config, defs>>]_bridgeVars

(* Who works with the camera, by the state of the parts, not by the lock.  *)
AtWork ==
  (IF macroState # "Idle" \/ call.by = StopReplay THEN {StopReplay} ELSE {})
    \cup (IF call.by = Manual THEN {Manual} ELSE {})
    \cup {SequenceOwner(s) : s \in {r \in Slots : runtime[r].state \in Running}}
    \cup (IF otaInProgress \/ otaRebootPending THEN {FirmwareUpdate} ELSE {})

Exclusive == INSTANCE ExclusiveOperation WITH Operations <- Owners \ {None}, active <- AtWork

(* Operations on the camera never overlap, whoever asks for them.          *)
OperationsAreExclusive == Exclusive!Spec
=============================================================================
