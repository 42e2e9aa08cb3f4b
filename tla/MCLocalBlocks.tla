--------------------------- MODULE MCLocalBlocks ---------------------------
(* Model values for the local backend: see the configurations.              *)
EXTENDS LocalBlocks
============================================================================
