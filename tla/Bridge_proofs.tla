--------------------------- MODULE Bridge_proofs ---------------------------
(***************************************************************************)
(* Proofs about the whole bridge, for any number of slots, any programs,   *)
(* configurations, timeouts and camera feedback.                           *)
(***************************************************************************)
EXTENDS Bridge, SequenceEngine_proofs

-----------------------------------------------------------------------------
(* The inductive invariant                                                 *)

(* When an upload may still be in progress, by what the server is doing.   *)
UpdateWindows ==
  /\ otaSuccess => ~otaInProgress
  /\ otaError /\ ~otaRejectedBusy => ~otaInProgress
  /\ upload = "finishing" /\ ~otaRejectedBusy => ~otaInProgress
  /\ ~SilentDrops /\ (upload = "none" \/ otaRejectedBusy) => ~otaInProgress

UpdateInv == FirmwareTypeOK /\ UpdateHoldsArbiter /\ UpdateWindows

BridgeInv == SequenceInv /\ UpdateInv

(* Uploads always end in END or ABORTED, or nobody posts without a file.   *)
UploadsAreTracked == ~(SilentDrops /\ BareRequests)

(* How every step may treat the lock: it never passes from owner to owner. *)
LockStep == owner = None \/ owner' = None \/ owner' = owner

-----------------------------------------------------------------------------
(* The firmware update                                                     *)

(* The ways out of an upload leave it failed and the lock not the update's.*)
LEMMA FailUploadInv ==
  ASSUME UpdateInv, FailUpload, UNCHANGED otaRejectedBusy, upload' \in {"none", "receiving", "finishing"}
  PROVE  UpdateInv' /\ (owner' # owner => owner = FirmwareUpdate /\ owner' = None)
<1>1. /\ otaError' \in BOOLEAN /\ otaSuccess' \in BOOLEAN /\ otaInProgress' \in BOOLEAN
      /\ otaRebootPending' \in BOOLEAN /\ otaRejectedBusy' \in BOOLEAN
      /\ ~otaSuccess' /\ ~otaInProgress' /\ ~otaRebootPending'
      BY Zenon DEF FailUpload, UpdateInv, FirmwareTypeOK
<1>2. otaIdle' \in 0..OtaTimeout + 1 /\ rebootIn' \in 0..RebootDelay
      BY FirmwareAssumption DEF FailUpload
<1>3. FirmwareTypeOK'
      BY <1>1, <1>2 DEF FirmwareTypeOK
<1>4. UpdateHoldsArbiter' /\ UpdateWindows'
      BY <1>1 DEF UpdateHoldsArbiter, UpdateWindows
<1> QED
    BY <1>3, <1>4 DEF UpdateInv, FailUpload, Release

(* An update's step moves the lock only between free and the update.       *)
LEMMA UpdateInvStep ==
  ASSUME UploadsAreTracked, UpdateInv, owner \in Owners, FirmwareStep
  PROVE  UpdateInv' /\ (owner' # owner => {owner, owner'} = {None, FirmwareUpdate})
<1> USE DEF UpdateInv, FirmwareTypeOK, UpdateHoldsArbiter, UpdateWindows
<1> USE OwnersDiffer, FirmwareAssumption
<1> DEFINE Goal == UpdateInv' /\ (owner' # owner => {owner, owner'} = {None, FirmwareUpdate})
<1>1. CASE UploadStart
  <2>1. /\ ~otaSuccess' /\ ~otaRebootPending' /\ otaSuccess' \in BOOLEAN /\ otaRebootPending' \in BOOLEAN
        /\ upload = "none" /\ upload' = "receiving"
        BY <1>1, Zenon DEF UploadStart
  <2>2. otaIdle' \in 0..OtaTimeout + 1 /\ rebootIn' \in 0..RebootDelay
        BY <1>1 DEF UploadStart
  <2>3. CASE Busy /\ otaRejectedBusy' = TRUE /\ otaError' = TRUE /\ UNCHANGED <<otaInProgress, owner>>
    <3>1. otaRejectedBusy' /\ otaRejectedBusy' \in BOOLEAN /\ otaError' \in BOOLEAN
          BY <2>3, Zenon
    <3> QED
        BY <2>1, <2>2, <2>3, <3>1
  <2>4. CASE /\ otaRejectedBusy' = FALSE /\ otaError' = TRUE
             /\ otaInProgress' = FALSE /\ UNCHANGED owner
    <3>1. /\ ~otaInProgress' /\ otaInProgress' \in BOOLEAN
          /\ otaRejectedBusy' \in BOOLEAN /\ otaError' \in BOOLEAN
          BY <2>4, Zenon
    <3> QED
        BY <2>1, <2>2, <2>4, <3>1
  <2>5. CASE /\ Acquire(FirmwareUpdate)
             /\ otaRejectedBusy' = FALSE /\ otaError' = FALSE /\ otaInProgress' = TRUE
    <3>1. /\ ~otaRejectedBusy' /\ ~otaError' /\ otaInProgress'
          /\ otaInProgress' \in BOOLEAN /\ otaRejectedBusy' \in BOOLEAN /\ otaError' \in BOOLEAN
          BY <2>5, Zenon
    <3>2. owner = None /\ owner' = FirmwareUpdate
          BY <2>5 DEF Acquire
    <3> QED
        BY <2>1, <2>2, <3>1, <3>2
  <2> QED
      BY <1>1, <2>3, <2>4, <2>5 DEF UploadStart
<1>2. CASE UploadWrite
  <2>1. CASE otaIdle' = 0 /\ UNCHANGED <<otaFlags, rebootIn, owner>>
        BY <1>2, <2>1 DEF UploadWrite, otaFlags
  <2>2. CASE FailUpload /\ UNCHANGED otaRejectedBusy
        BY <1>2, <2>2, FailUploadInv DEF UploadWrite
  <2> QED
      BY <1>2, <2>1, <2>2 DEF UploadWrite
<1>3. CASE UploadAborted
      BY <1>3, FailUploadInv DEF UploadAborted, otaFlags, Ignored
<1>4. CASE UploadEnd
  <2>1. upload' = "finishing"
        BY <1>4 DEF UploadEnd
  <2>2. CASE (Ignored \/ ~otaInProgress) /\ UNCHANGED <<otaFlags, otaIdle, rebootIn, owner>>
        BY <2>1, <2>2 DEF Ignored, otaFlags
  <2>3. CASE /\ ~Ignored /\ otaInProgress
             /\ otaInProgress' = FALSE /\ otaSuccess' = TRUE /\ otaRebootPending' = TRUE
             /\ rebootIn' = RebootDelay /\ otaIdle' = 0
             /\ UNCHANGED <<otaError, otaRejectedBusy, owner>>
    <3>1. /\ ~otaInProgress' /\ otaSuccess' /\ otaRebootPending'
          /\ otaInProgress' \in BOOLEAN /\ otaSuccess' \in BOOLEAN /\ otaRebootPending' \in BOOLEAN
          BY <2>3, Zenon
    <3> QED
        BY <2>1, <2>3, <3>1
  <2>4. CASE FailUpload /\ UNCHANGED otaRejectedBusy
        BY <2>1, <2>4, FailUploadInv
  <2> QED
      BY <1>4, <2>2, <2>3, <2>4 DEF UploadEnd
<1>5. CASE FinishRequest
  <2>1. upload' = "none" /\ (upload = "finishing" \/ ~SilentDrops)
        /\ UNCHANGED <<otaInProgress, otaSuccess, otaRebootPending, otaIdle, rebootIn>>
        BY <1>5 DEF FinishRequest, otaFlags, UploadsAreTracked
  <2>2. upload = "none" \/ upload = "finishing"
        BY <1>5 DEF FinishRequest
  <2>3. CASE /\ otaRejectedBusy
             /\ otaRejectedBusy' = FALSE /\ otaError' = FALSE /\ UNCHANGED owner
    <3>1. ~otaRejectedBusy' /\ ~otaError' /\ otaRejectedBusy' \in BOOLEAN /\ otaError' \in BOOLEAN
          BY <2>3, Zenon
    <3> QED
        BY <2>1, <2>3, <3>1
  <2>4. CASE /\ ~otaRejectedBusy /\ ~otaSuccess
             /\ Release(FirmwareUpdate) /\ UNCHANGED otaFlags
    <3>1. ~otaInProgress /\ ~otaRebootPending
          BY <2>1, <2>2, <2>4
    <3> QED
        BY <2>1, <2>4, <3>1 DEF Release, otaFlags
  <2>5. CASE ~otaRejectedBusy /\ otaSuccess /\ UNCHANGED <<otaFlags, owner>>
        BY <2>1, <2>5 DEF otaFlags
  <2> QED
      BY <1>5, <2>3, <2>4, <2>5 DEF FinishRequest
<1>6. CASE UploadDropped
      BY <1>6 DEF UploadDropped, otaFlags
<1>7. CASE OtaBackstop
      BY <1>7, FailUploadInv DEF OtaBackstop
<1> QED
    BY <1>1, <1>2, <1>3, <1>4, <1>5, <1>6, <1>7 DEF FirmwareStep

(* Steps of the others leave the update alone if they leave its lock.      *)
LEMMA UpdateUntouched ==
  ASSUME UpdateInv, UNCHANGED otaVars, owner' = owner \/ owner # FirmwareUpdate
  PROVE  UpdateInv'
BY DEF UpdateInv, FirmwareTypeOK, UpdateHoldsArbiter, UpdateWindows, otaVars, otaFlags

(* Time moves the update's two clocks and nothing else.                    *)
LEMMA UpdateTickInv ==
  ASSUME UpdateInv, FirmwareTick, UNCHANGED owner
  PROVE  UpdateInv'
<1>1. UNCHANGED <<upload, otaFlags>>
      BY DEF FirmwareTick
<1>2. otaIdle' \in 0..OtaTimeout + 1 /\ rebootIn' \in 0..RebootDelay
      BY FirmwareAssumption DEF FirmwareTick, UpdateInv, FirmwareTypeOK
<1> QED
    BY <1>1, <1>2 DEF UpdateInv, FirmwareTypeOK, UpdateHoldsArbiter, UpdateWindows, otaFlags

(* The firmware boots with no update.                                      *)
LEMMA UpdateInvBoot ==
  ASSUME FirmwareBoot
  PROVE  UpdateInv'
<1>1. /\ ~otaInProgress' /\ ~otaSuccess' /\ ~otaError' /\ ~otaRejectedBusy' /\ ~otaRebootPending'
      /\ otaInProgress' \in BOOLEAN /\ otaSuccess' \in BOOLEAN /\ otaError' \in BOOLEAN
      /\ otaRejectedBusy' \in BOOLEAN /\ otaRebootPending' \in BOOLEAN
      /\ upload' = "none"
      BY Zenon DEF FirmwareBoot
<1>2. otaIdle' \in 0..OtaTimeout + 1 /\ rebootIn' \in 0..RebootDelay
      BY FirmwareAssumption DEF FirmwareBoot
<1> QED
    BY <1>1, <1>2 DEF UpdateInv, FirmwareTypeOK, UpdateHoldsArbiter, UpdateWindows

(* ... and so it starts.                                                    *)
LEMMA UpdateInvInit ==
  ASSUME FirmwareInit
  PROVE  UpdateInv
<1>1. /\ ~otaInProgress /\ ~otaSuccess /\ ~otaError /\ ~otaRejectedBusy /\ ~otaRebootPending
      /\ otaInProgress \in BOOLEAN /\ otaSuccess \in BOOLEAN /\ otaError \in BOOLEAN
      /\ otaRejectedBusy \in BOOLEAN /\ otaRebootPending \in BOOLEAN
      /\ upload = "none"
      BY Zenon DEF FirmwareInit
<1>2. otaIdle \in 0..OtaTimeout + 1 /\ rebootIn \in 0..RebootDelay
      BY FirmwareAssumption DEF FirmwareInit
<1> QED
    BY <1>1, <1>2 DEF UpdateInv, FirmwareTypeOK, UpdateHoldsArbiter, UpdateWindows

-----------------------------------------------------------------------------
(* The steps of the bridge                                                 *)

(* A restart from any state keeps the saved settings and forgets the rest. *)
LEMMA BootInv ==
  ASSUME BridgeInv, Boot
  PROVE  BridgeInv' /\ owner' = None
<1>1. /\ owner' = None /\ UNCHANGED <<camera, config, defs>>
      /\ call' = NoCall /\ NoCall \in Call /\ NoCall.by = None
      BY OwnersDiffer DEF Boot, NoCall, Call
<1>2. /\ macroState' = "Idle" /\ macroState' \in MacroStates /\ ~macroBusy' /\ macroBusy' \in BOOLEAN
      /\ link' \in BOOLEAN
      BY Zenon DEF Boot, MacroStates
<1>3. /\ macroPhase' \in Phases /\ display' \in Display /\ macroAge' \in 0..MacroHorizon
      /\ minReview' \in Nat
      BY CommandAssumption DEF Boot, Phases, Display, BlankDisplay, NoDeadline
<1>4. sample' \in [StateIds -> Sample] /\ wire' \in Seq(Conditions \cup {Answer})
      BY SampleHorizonAssumption DEF Boot, NoSample, Sample, Raws
<1>5. EngineInv'
      BY <1>1, <1>2, <1>3, <1>4, OwnersDiffer
         DEF BridgeInv, SequenceInv, EngineInv, EngineTypeOK, MacroHoldsArbiter, CallerOwnsArbiter, CpuFree
<1>6. /\ runtime' \in [Slots -> Runtime]
      /\ \A s \in Slots : runtime'[s].state \notin Running
      /\ activeSlot' = 0 /\ runAge' = 0 /\ stepAge' = 0
      BY FreshRuntimeType DEF Boot
<1>7. RunningSlotHoldsArbiter'
      BY <1>1, <1>6, OwnersDiffer DEF RunningSlotHoldsArbiter, Slots
<1>8. SlotsInv'
      BY <1>1, <1>6, <1>7, SequenceAssumption, SlotCountAssumption
         DEF BridgeInv, SequenceInv, SlotsInv, RunHasStep
<1>9. UpdateInv'
      BY UpdateInvBoot DEF Boot
<1> QED
    BY <1>1, <1>5, <1>8, <1>9 DEF BridgeInv, SequenceInv

(* Every step keeps the invariant and never passes the lock on directly.   *)
LEMMA BridgeInvStep ==
  ASSUME UploadsAreTracked, BridgeInv, BridgeNext
  PROVE  BridgeInv' /\ LockStep
<1>1. SequenceInv /\ UpdateInv /\ EngineInv /\ SlotsInv /\ owner \in Owners
      /\ call \in Call /\ display \in Display
      BY DEF BridgeInv, SequenceInv, EngineInv, EngineTypeOK
<1>2. CASE EngineStep /\ UNCHANGED <<sequenceVars, otaVars>>
  <2>1. /\ EngineInv' /\ LockStep
        /\ owner' # owner => {owner, owner'} \subseteq {None, Manual, StopReplay}
        BY <1>1, <1>2, EngineInvStep DEF LockStep
  <2>2. SlotsInv'
        BY <1>1, <1>2, <2>1, OwnersDiffer, SlotsUntouched
  <2>3. UpdateInv'
        BY <1>1, <1>2, <2>1, OwnersDiffer, UpdateUntouched
  <2> QED
      BY <2>1, <2>2, <2>3 DEF BridgeInv, SequenceInv
<1>3. CASE CameraStep /\ UNCHANGED <<sequenceVars, otaVars>>
  <2>1. EngineInv' /\ UNCHANGED owner
        BY <1>1, <1>3, CameraInvStep
  <2> QED
      BY <1>1, <1>3, <2>1, SlotsUntouched, UpdateUntouched DEF BridgeInv, SequenceInv, LockStep
<1>4. CASE SequenceStep /\ UNCHANGED otaVars
  <2>1. /\ SequenceInv' /\ LockStep
        /\ owner' # owner => {owner, owner'} \subseteq {None} \cup {SequenceOwner(s) : s \in Slots}
        BY <1>1, <1>4, SequenceInvStep DEF LockStep
  <2>2. owner' = owner \/ owner # FirmwareUpdate
        BY <2>1, OwnersDiffer
  <2> QED
      BY <1>1, <1>4, <2>1, <2>2, UpdateUntouched DEF BridgeInv
<1>5. CASE CpuFree /\ FirmwareStep /\ UNCHANGED <<config, cameraSide, sequenceVars>>
  <2>1. UpdateInv' /\ (owner' # owner => {owner, owner'} = {None, FirmwareUpdate})
        BY <1>1, <1>5, UpdateInvStep
  <2>2. wire' \in Seq(Messages) /\ UNCHANGED <<config, call, display, engineVars, camera, link, wire, sample>>
        BY <1>1, <1>5 DEF cameraSide, EngineInv, EngineTypeOK, Messages
  <2>3. CASE owner' = owner
    <3>1. EngineInv'
          BY <1>1, <2>2, <2>3 DEF EngineInv, EngineTypeOK, MacroHoldsArbiter, CallerOwnsArbiter, CpuFree, engineVars
    <3>2. SlotsInv'
          BY <1>1, <1>5, <2>3, SlotsUntouched
    <3> QED
        BY <2>1, <2>3, <3>1, <3>2 DEF BridgeInv, SequenceInv, LockStep
  <2>4. CASE owner' # owner
    <3>1. {owner, owner'} = {None, FirmwareUpdate}
          BY <2>1, <2>4
    <3>2. {owner, owner'} \subseteq Owners \ {Manual, StopReplay}
          BY <3>1, OwnersDiffer
    <3>3. call' = NoCall /\ call' \in Call /\ display' \in Display
          BY <1>1, <1>5, <2>2 DEF CpuFree
    <3>4. EngineInv'
          BY <1>1, <2>2, <3>2, <3>3, EngineUntouched
    <3>5. SlotsInv'
          BY <1>1, <1>5, <3>1, OwnersDiffer, SlotsUntouched
    <3> QED
        BY <2>1, <3>1, <3>4, <3>5 DEF BridgeInv, SequenceInv, LockStep
  <2> QED
      BY <2>3, <2>4
<1>6. CASE SaveConfig
  <2>1. EngineInv' /\ UNCHANGED owner
        BY <1>1, <1>6 DEF SaveConfig, cameraSide, EngineInv, EngineTypeOK, MacroHoldsArbiter,
                          CallerOwnsArbiter, CpuFree, engineVars
  <2> QED
      BY <1>1, <1>6, <2>1, SlotsUntouched, UpdateUntouched
         DEF SaveConfig, BridgeInv, SequenceInv, LockStep
<1>7. ASSUME NEW table \in Programs, SaveSequences(table)
      PROVE  BridgeInv' /\ LockStep
  <2>1. SequenceInv' /\ UNCHANGED owner
        BY <1>1, <1>7, ReloadInv DEF SaveSequences
  <2> QED
      BY <1>1, <1>7, <2>1, UpdateUntouched DEF SaveSequences, BridgeInv, LockStep
<1>8. CASE RebootCommand \/ OtaReboot \/ PowerLoss
      BY <1>8, BootInv DEF RebootCommand, OtaReboot, PowerLoss, LockStep
<1>9. CASE BridgeTick
  <2>1. EngineInv' /\ UNCHANGED owner
        BY <1>1, <1>9, EngineTickInv DEF BridgeTick
  <2> QED
      BY <1>1, <1>9, <2>1, SequenceTickInv, UpdateTickInv
         DEF BridgeTick, BridgeInv, SequenceInv, LockStep
<1> QED
    BY <1>2, <1>3, <1>4, <1>5, <1>6, <1>7, <1>8, <1>9 DEF BridgeNext

(* Standing still keeps the invariant.                                     *)
LEMMA BridgeInvStutter ==
  ASSUME BridgeInv, UNCHANGED bridgeVars
  PROVE  BridgeInv' /\ LockStep
<1>1. EngineInv' /\ UNCHANGED owner
      BY DEF bridgeVars, slotsAll, BridgeInv, SequenceInv, EngineInv, EngineTypeOK,
             MacroHoldsArbiter, CallerOwnsArbiter, CpuFree
<1>2. UNCHANGED <<sequenceVars, otaVars>>
      BY DEF bridgeVars, slotsAll, sequenceVars
<1> QED
    BY <1>1, <1>2, SlotsUntouched, UpdateUntouched DEF BridgeInv, SequenceInv, LockStep

-----------------------------------------------------------------------------
(* Theorems                                                                *)

(* The whole bridge keeps its invariant, restarts and power losses included*)
THEOREM BridgeInvariant ==
  ASSUME UploadsAreTracked
  PROVE  BridgeSpec => []BridgeInv
<1>1. BridgeInit => BridgeInv
      BY SequenceInvInit, UpdateInvInit DEF BridgeInit, BridgeInv
<1>2. BridgeInv /\ [BridgeNext]_bridgeVars => BridgeInv'
      BY BridgeInvStep, BridgeInvStutter
<1> QED
    BY <1>1, <1>2, PTL DEF BridgeSpec

(* The state of the bridge is always of its type.                          *)
THEOREM BridgeTypesHold ==
  ASSUME UploadsAreTracked
  PROVE  BridgeSpec => []BridgeTypeOK
<1>1. BridgeInv => BridgeTypeOK
      BY DEF BridgeInv, SequenceInv, SlotsInv, EngineInv, UpdateInv, BridgeTypeOK, SequenceTypeOK
<1> QED
    BY <1>1, BridgeInvariant, PTL

(* Whoever believes it has the camera holds the lock, and the lock's owner *)
(* is at work, for the macro, commands, slots and firmware updates.        *)
THEOREM OwnershipAlways ==
  ASSUME UploadsAreTracked
  PROVE  BridgeSpec => []Ownership
<1>1. BridgeInv => Ownership
      BY DEF BridgeInv, SequenceInv, SlotsInv, EngineInv, UpdateInv, Ownership
<1> QED
    BY <1>1, BridgeInvariant, PTL

(* No operation sees its configuration or its program change under it.     *)
THEOREM OperationAlwaysKeepsItsSettings == BridgeSpec => OperationKeepsItsSettings
<1>1. [BridgeNext]_bridgeVars => [Busy => UNCHANGED <<config, defs>>]_bridgeVars
  <2> SUFFICES ASSUME BridgeNext, Busy
               PROVE  UNCHANGED <<config, defs>>
      OBVIOUS
  <2>1. CASE EngineStep /\ UNCHANGED <<sequenceVars, otaVars>>
        BY <2>1 DEF EngineStep, sequenceVars
  <2>2. CASE CameraStep /\ UNCHANGED <<sequenceVars, otaVars>>
        BY <2>2 DEF CameraStep, sequenceVars
  <2>3. CASE SequenceStep /\ UNCHANGED otaVars
        BY <2>3 DEF SequenceStep, Trigger, AbortSequence, SequenceLoop, CommandStepReturns
  <2>4. CASE CpuFree /\ FirmwareStep /\ UNCHANGED <<config, cameraSide, sequenceVars>>
        BY <2>4 DEF sequenceVars
  <2>5. CASE SaveConfig \/ \E table \in Programs : SaveSequences(table)
        BY <2>5 DEF SaveConfig, SaveSequences
  <2>6. CASE RebootCommand \/ OtaReboot \/ PowerLoss
        BY <2>6 DEF RebootCommand, OtaReboot, PowerLoss, Boot
  <2>7. CASE BridgeTick
        BY <2>7 DEF BridgeTick, EngineTick, SequenceTick
  <2> QED
      BY <2>1, <2>2, <2>3, <2>4, <2>5, <2>6, <2>7 DEF BridgeNext
<1> QED
    BY <1>1, PTL DEF BridgeSpec, OperationKeepsItsSettings

(* What the slots run is always a table an operator may save.              *)
TableLoaded == \E table \in Programs : ~Rejected(table) /\ defs = Parsed(table)

(* Only a saved table and a restart give a slot its state anew.            *)
LEMMA SlotsStay ==
  ASSUME BridgeNext, ~SequenceStep
  PROVE  \/ /\ UNCHANGED <<defs, activeSlot>>
            /\ \/ UNCHANGED runtime
               \/ runtime' = [s \in Slots |-> CompleteFor(runtime[s])]
         \/ \E table \in Programs : ~Rejected(table) /\ Load(table)
         \/ UNCHANGED defs /\ Boot
<1>1. CASE EngineStep /\ UNCHANGED <<sequenceVars, otaVars>>
      BY <1>1 DEF sequenceVars
<1>2. CASE CameraStep /\ UNCHANGED <<sequenceVars, otaVars>>
      BY <1>2 DEF sequenceVars
<1>3. CASE CpuFree /\ FirmwareStep /\ UNCHANGED <<config, cameraSide, sequenceVars>>
      BY <1>3 DEF sequenceVars
<1>4. CASE SaveConfig
      BY <1>4 DEF SaveConfig, sequenceVars
<1>5. CASE \E table \in Programs : SaveSequences(table)
      BY <1>5 DEF SaveSequences, Reload
<1>6. CASE RebootCommand \/ OtaReboot \/ PowerLoss
  <2>1. Boot
        BY <1>6 DEF RebootCommand, OtaReboot, PowerLoss
  <2> QED
      BY <2>1 DEF Boot
<1>7. CASE BridgeTick
      BY <1>7 DEF BridgeTick, SequenceTick
<1> QED
    BY <1>1, <1>2, <1>3, <1>4, <1>5, <1>6, <1>7 DEF BridgeNext

LEMMA TableStays ==
  ASSUME TableLoaded, [BridgeNext]_bridgeVars
  PROVE  TableLoaded'
<1>1. UNCHANGED defs \/ \E table \in Programs : ~Rejected(table) /\ defs' = Parsed(table)
  <2>1. CASE UNCHANGED bridgeVars
        BY <2>1 DEF bridgeVars, slotsAll
  <2>2. CASE SequenceStep
        BY <2>2 DEF SequenceStep, Trigger, AbortSequence, SequenceLoop, CommandStepReturns
  <2>3. CASE BridgeNext /\ ~SequenceStep
        BY <2>3, SlotsStay DEF Load
  <2> QED
      BY <2>1, <2>2, <2>3
<1> QED
    BY <1>1 DEF TableLoaded

(* A restart loads the saved table like a reload does.                     *)
LEMMA BootLoads ==
  ASSUME TableLoaded, Boot
  PROVE  \E table \in Programs : ~Rejected(table) /\ Load(table)
<1>1. PICK table \in Programs : ~Rejected(table) /\ defs = Parsed(table)
      BY DEF TableLoaded
<1> QED
    BY <1>1 DEF Boot, Load

(* A failure that an operator has not seen stays on display until its slot *)
(* is triggered, a table is saved or the bridge restarts.                  *)
THEOREM FailureAlwaysStaysShown ==
  ASSUME UploadsAreTracked
  PROVE  BridgeSpec => FailureStaysShown
<1> DEFINE StaysShown(s) ==
             runtime[s].state \in {"Error", "Aborted"} /\ runtime'[s].state # runtime[s].state
               => activeSlot' = s \/ \E table \in Programs : ~Rejected(table) /\ Load(table)
<1>1. BridgeInit => TableLoaded
      BY DEF BridgeInit, SlotsInit, SequenceInit, TableLoaded
<1>2. BridgeInv /\ TableLoaded /\ [BridgeNext]_bridgeVars => [\A s \in Slots : StaysShown(s)]_slotsAll
  <2> SUFFICES ASSUME BridgeInv, TableLoaded, BridgeNext, NEW s \in Slots,
                      runtime[s].state \in {"Error", "Aborted"},
                      runtime'[s].state # runtime[s].state
               PROVE  activeSlot' = s \/ \E table \in Programs : ~Rejected(table) /\ Load(table)
      BY DEF bridgeVars
  <2>1. CASE SequenceStep
        BY <2>1, FailureKept DEF BridgeInv
  <2>2. CASE ~SequenceStep
    <3>1. CompleteFor(runtime[s]).state = runtime[s].state
          BY DEF CompleteFor, BridgeInv, SequenceInv, SlotsInv, Runtime
    <3> QED
        BY <2>2, <3>1, SlotsStay, BootLoads
  <2> QED
      BY <2>1, <2>2
<1>3. TableLoaded /\ [BridgeNext]_bridgeVars => TableLoaded'
      BY TableStays
<1> QED
    BY <1>1, <1>2, <1>3, BridgeInvariant, PTL DEF BridgeSpec, FailureStaysShown

-----------------------------------------------------------------------------
(* Refinement                                                              *)

(* At most the owner of the lock is at work.                               *)
LEMMA OnlyTheOwnerWorks ==
  ASSUME BridgeInv
  PROVE  AtWork = {} \/ (owner # None /\ owner \in Owners /\ AtWork = {owner})
<1>1. /\ owner \in Owners
      /\ owner = StopReplay <=> macroState # "Idle" \/ call.by = StopReplay
      /\ owner = Manual <=> call.by = Manual
      /\ \A s \in Slots : owner = SequenceOwner(s) <=> runtime[s].state \in Running
      /\ otaInProgress \/ otaRebootPending => owner = FirmwareUpdate
      BY DEF BridgeInv, SequenceInv, EngineInv, EngineTypeOK, SlotsInv, UpdateInv,
             MacroHoldsArbiter, CallerOwnsArbiter, RunningSlotHoldsArbiter, UpdateHoldsArbiter
<1>2. \A o \in AtWork : o = owner /\ o # None
      BY <1>1, OwnersDiffer DEF AtWork
<1> QED
    BY <1>1, <1>2

(* Every step of the bridge begins one operation, ends one or does neither.*)
LEMMA OneAtATime ==
  ASSUME BridgeInv, BridgeInv', LockStep
  PROVE  [Exclusive!Next]_AtWork
<1>1. AtWork = {} \/ (owner # None /\ owner \in Owners /\ AtWork = {owner})
      BY OnlyTheOwnerWorks
<1>2. AtWork' = {} \/ (owner' # None /\ owner' \in Owners /\ AtWork' = {owner'})
  <2>1. /\ owner' \in Owners
        /\ owner' = StopReplay <=> macroState' # "Idle" \/ call'.by = StopReplay
        /\ owner' = Manual <=> call'.by = Manual
        /\ \A s \in Slots : owner' = SequenceOwner(s) <=> runtime'[s].state \in Running
        /\ otaInProgress' \/ otaRebootPending' => owner' = FirmwareUpdate
        BY DEF BridgeInv, SequenceInv, EngineInv, EngineTypeOK, SlotsInv, UpdateInv,
               MacroHoldsArbiter, CallerOwnsArbiter, RunningSlotHoldsArbiter, UpdateHoldsArbiter
  <2>2. \A o \in AtWork' : o = owner' /\ o # None
        BY <2>1, OwnersDiffer DEF AtWork
  <2> QED
      BY <2>1, <2>2
<1>3. CASE AtWork' = {}
      BY <1>3 DEF Exclusive!Next, Exclusive!End
<1>4. CASE AtWork = {} /\ AtWork' = {owner'} /\ owner' \in Owners \ {None}
      BY <1>4 DEF Exclusive!Next, Exclusive!Begin
<1>5. CASE AtWork = {owner} /\ AtWork' = {owner'} /\ owner # None /\ owner' # None
      BY <1>5 DEF LockStep
<1> QED
    BY <1>1, <1>2, <1>3, <1>4, <1>5

(* The bridge implements one-operation-at-a-time: whatever commands, slots,*)
(* macros, uploads and restarts interleave.                                *)
THEOREM OperationsAreAlwaysExclusive ==
  ASSUME UploadsAreTracked
  PROVE  BridgeSpec => OperationsAreExclusive
<1>1. BridgeInit => Exclusive!Init
  <2> SUFFICES ASSUME BridgeInit
               PROVE  AtWork = {}
      BY DEF Exclusive!Init
  <2>1. BridgeInv /\ owner = None
        BY SequenceInvInit, UpdateInvInit
           DEF BridgeInit, BridgeInv, SlotsInit, EngineOnlyInit
  <2> QED
      BY <2>1, OnlyTheOwnerWorks
<1>2. BridgeInv /\ BridgeInv' /\ [BridgeNext]_bridgeVars => [Exclusive!Next]_AtWork
      BY BridgeInvStep, BridgeInvStutter, OneAtATime
<1> QED
    BY <1>1, <1>2, BridgeInvariant, PTL DEF BridgeSpec, OperationsAreExclusive, Exclusive!Spec
=============================================================================
