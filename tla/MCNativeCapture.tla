-------------------------- MODULE MCNativeCapture --------------------------
(* A ring of two entries, so that it wraps, and frames of one and two      *)
(* parts, so that a capture can begin or end inside one.                   *)
EXTENDS NativeCapture
=============================================================================
