---------------------------- MODULE MCScanCapture ----------------------------
(* Model checking of ScanCapture: constants are set in the .cfg files. *)
EXTENDS ScanCapture
=============================================================================
