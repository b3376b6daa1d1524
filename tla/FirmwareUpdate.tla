--------------------------- MODULE FirmwareUpdate ---------------------------
(***************************************************************************)
(* The web firmware update.  The HTTP server (external) hands an upload to *)
(* the callback handleFirmwareUpload piece by piece, START, WRITE..., END  *)
(* or ABORTED, and after END calls finishFirmwareUploadRequest.  It serves *)
(* one client at a time.  The update holds the camera lock until it fails  *)
(* or the bridge reboots into the new image.                               *)
(***************************************************************************)
EXTENDS OperationArbiter

CONSTANTS OtaTimeout,     \* idle time after which an upload fails, 120 s
          RebootDelay,    \* from success to the reboot, 1.5 s
          SilentDrops,    \* the server may drop a client without ABORTED
          BareRequests    \* clients may post to the update URL without a file

ASSUME FirmwareAssumption ==
  /\ OtaTimeout \in Nat /\ RebootDelay \in Nat
  /\ SilentDrops \in BOOLEAN /\ BareRequests \in BOOLEAN

VARIABLES upload,         \* what the HTTP server is doing with an upload
          otaInProgress, otaSuccess, otaError, otaRejectedBusy, otaRebootPending,
          otaIdle,        \* ticks since otaLastActivityMs
          rebootIn        \* ticks until otaRebootAtMs

otaFlags == <<otaInProgress, otaSuccess, otaError, otaRejectedBusy, otaRebootPending>>
otaVars == <<upload, otaFlags, otaIdle, rebootIn>>

FirmwareTypeOK ==
  /\ upload \in {"none", "receiving", "finishing"}
  /\ otaInProgress \in BOOLEAN /\ otaSuccess \in BOOLEAN /\ otaError \in BOOLEAN
  /\ otaRejectedBusy \in BOOLEAN /\ otaRebootPending \in BOOLEAN
  /\ otaIdle \in 0..OtaTimeout + 1 /\ rebootIn \in 0..RebootDelay

FirmwareInit ==
  /\ upload = "none"
  /\ otaInProgress = FALSE /\ otaSuccess = FALSE /\ otaError = FALSE
  /\ otaRejectedBusy = FALSE /\ otaRebootPending = FALSE
  /\ otaIdle = 0 /\ rebootIn = 0

-----------------------------------------------------------------------------
(* failFirmwareUpload releases the lock only if the update holds it.       *)
FailUpload ==
  /\ otaError' = TRUE
  /\ otaSuccess' = FALSE /\ otaInProgress' = FALSE /\ otaRebootPending' = FALSE
  /\ otaIdle' = 0 /\ rebootIn' = 0
  /\ Release(FirmwareUpdate)

(* Every START first forgets the previous upload, then looks at the lock.  *)
UploadStart ==
  /\ upload = "none"
  /\ upload' = "receiving"
  /\ otaSuccess' = FALSE /\ otaRebootPending' = FALSE
  /\ otaIdle' = 0 /\ rebootIn' = 0
  /\ \/ /\ Busy
        /\ otaRejectedBusy' = TRUE /\ otaError' = TRUE
        /\ UNCHANGED <<otaInProgress, owner>>
     \/ /\ ~Busy                              \* wrong file, no partition or begin failed
        /\ otaRejectedBusy' = FALSE /\ otaError' = TRUE
        /\ otaInProgress' = FALSE
        /\ UNCHANGED owner
     \/ /\ Acquire(FirmwareUpdate)
        /\ otaRejectedBusy' = FALSE /\ otaError' = FALSE
        /\ otaInProgress' = TRUE

Ignored == otaRejectedBusy \/ otaError

UploadWrite ==
  /\ upload = "receiving"
  /\ ~Ignored /\ otaInProgress
  /\ \/ otaIdle' = 0 /\ UNCHANGED <<otaFlags, rebootIn, owner>>
     \/ FailUpload /\ UNCHANGED otaRejectedBusy
  /\ UNCHANGED upload

UploadAborted ==
  /\ upload = "receiving"
  /\ upload' = "none"
  /\ \/ Ignored /\ UNCHANGED <<otaFlags, otaIdle, rebootIn, owner>>
     \/ ~Ignored /\ FailUpload /\ UNCHANGED otaRejectedBusy

UploadEnd ==
  /\ upload = "receiving"
  /\ upload' = "finishing"
  /\ \/ /\ Ignored \/ ~otaInProgress
        /\ UNCHANGED <<otaFlags, otaIdle, rebootIn, owner>>
     \/ /\ ~Ignored /\ otaInProgress
        /\ otaInProgress' = FALSE /\ otaSuccess' = TRUE /\ otaRebootPending' = TRUE
        /\ rebootIn' = RebootDelay /\ otaIdle' = 0
        /\ UNCHANGED <<otaError, otaRejectedBusy, owner>>
     \/ /\ ~Ignored /\ otaInProgress
        /\ FailUpload /\ UNCHANGED otaRejectedBusy

(* Slip: the request's end releases the lock after a success, too. *)
FinishRequestReleases ==
  /\ upload = "finishing"
  /\ upload' = "none"
  /\ Release(FirmwareUpdate)
  /\ UNCHANGED <<otaFlags, otaIdle, rebootIn>>

FinishRequest ==
  /\ \/ upload = "finishing"
     \/ upload = "none" /\ BareRequests
  /\ upload' = "none"
  /\ \/ /\ otaRejectedBusy
        /\ otaRejectedBusy' = FALSE /\ otaError' = FALSE
        /\ UNCHANGED <<otaInProgress, otaSuccess, otaRebootPending, owner>>
     \/ /\ ~otaRejectedBusy /\ ~otaSuccess
        /\ Release(FirmwareUpdate)
        /\ UNCHANGED otaFlags
     \/ /\ ~otaRejectedBusy /\ otaSuccess
        /\ UNCHANGED <<otaFlags, owner>>
  /\ UNCHANGED <<otaIdle, rebootIn>>

(* The client is gone and no callback says so. *)
UploadDropped ==
  /\ SilentDrops
  /\ upload = "receiving"
  /\ upload' = "none"
  /\ UNCHANGED <<otaFlags, otaIdle, rebootIn, owner>>

(* WebApp::loop: the inactivity backstop and the scheduled reboot. *)
OtaBackstop ==
  /\ otaInProgress
  /\ otaIdle > OtaTimeout
  /\ FailUpload
  /\ UNCHANGED <<upload, otaRejectedBusy>>

RebootDue == otaRebootPending /\ rebootIn = 0

FirmwareStep ==
  \/ UploadStart
  \/ UploadWrite
  \/ UploadAborted
  \/ UploadEnd
  \/ FinishRequest
  \/ UploadDropped
  \/ OtaBackstop

FirmwareTick ==
  /\ otaIdle' = IF otaInProgress /\ otaIdle <= OtaTimeout THEN otaIdle + 1 ELSE otaIdle
  /\ rebootIn' = IF otaRebootPending /\ rebootIn > 0 THEN rebootIn - 1 ELSE rebootIn
  /\ UNCHANGED <<upload, otaFlags>>

FirmwareBoot ==
  /\ upload' = "none"
  /\ otaInProgress' = FALSE /\ otaSuccess' = FALSE /\ otaError' = FALSE
  /\ otaRejectedBusy' = FALSE /\ otaRebootPending' = FALSE
  /\ otaIdle' = 0 /\ rebootIn' = 0
-----------------------------------------------------------------------------
(* The update beside one other operation, a manual command                 *)

updateAll == <<owner, otaVars>>

UpdateInit == owner = None /\ FirmwareInit

Reboot == RebootDue /\ FirmwareBoot /\ owner' = None

OtherOperation ==
  /\ Acquire(Manual) \/ (owner = Manual /\ Release(Manual))
  /\ UNCHANGED otaVars

UpdateNext ==
  \/ FirmwareStep
  \/ FirmwareTick /\ UNCHANGED owner
  \/ Reboot
  \/ OtherOperation

(* The loop and the clock run, and the server finishes a received request. *)
UpdateSpec ==
  /\ UpdateInit /\ [][UpdateNext]_updateAll
  /\ WF_updateAll(FirmwareTick /\ UNCHANGED owner)
  /\ WF_updateAll(OtaBackstop)
  /\ WF_updateAll(Reboot)
  /\ WF_updateAll(upload = "finishing" /\ FinishRequest)

-----------------------------------------------------------------------------
(* Properties                                                              *)

(* While flash is written, and from then to the reboot, nothing else may   *)
(* have the camera: a reboot must not cut a recording command or a macro.  *)
UpdateHoldsArbiter ==
  /\ otaInProgress \/ otaRebootPending => owner = FirmwareUpdate
  /\ otaRebootPending => otaSuccess /\ ~otaInProgress

(* "every terminal path releases ownership" (docs/ARCHITECTURE.md:34).     *)
UpdateReleasesArbiter == owner = FirmwareUpdate ~> owner # FirmwareUpdate
=============================================================================
