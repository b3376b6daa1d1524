-------------------------- MODULE MCFirmwareUpdate --------------------------
(* Values for model-checking the firmware update on its own. *)
EXTENDS FirmwareUpdate
=============================================================================
