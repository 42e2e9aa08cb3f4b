---------------------------- MODULE MCVisitQueue ----------------------------
(* Model checking of VisitQueueCalls: constants are set in the .cfg files. *)
EXTENDS VisitQueueCalls, TLC

Symmetry == Permutations(Token)
=============================================================================
