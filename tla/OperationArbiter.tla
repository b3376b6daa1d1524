-------------------------- MODULE OperationArbiter --------------------------
(***************************************************************************)
(* The lock that serialises everything the bridge does to the camera:      *)
(* manual commands, the Stop + Replay macro, the sequence slots and the    *)
(* firmware update.  Owners are numbered as the C++ enumeration numbers    *)
(* them; slots are numbered from 1, as the HTTP interface names them.      *)
(***************************************************************************)
EXTENDS Integers

CONSTANT SlotCount        \* number of sequence slots, 8 in the firmware

ASSUME SlotCountAssumption == SlotCount \in Nat \ {0}

VARIABLE owner            \* the operation that holds the camera

Slots == 1..SlotCount

None == 0
Manual == 1
StopReplay == 2
SequenceOwner(slot) == StopReplay + slot
FirmwareUpdate == SequenceOwner(SlotCount) + 1

Owners == None..FirmwareUpdate

IsSequence(o) == o \in SequenceOwner(1)..SequenceOwner(SlotCount)

Busy == owner # None

AutomationActive == owner = StopReplay \/ IsSequence(owner)

(* A refused acquire changes nothing, so only the successful one is a step. *)
Acquire(o) ==
  /\ o # None
  /\ owner = None
  /\ owner' = o

(* Releasing a lock somebody else holds leaves it alone. *)
Release(o) == owner' = IF owner = o THEN None ELSE owner
=============================================================================
