---------------------------- MODULE MCScanPolicy ----------------------------
(* Model checking of ScanPolicy: constants are set in the .cfg file. *)
EXTENDS ScanPolicy
=============================================================================
