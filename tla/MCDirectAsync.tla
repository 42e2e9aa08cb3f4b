--------------------------- MODULE MCDirectAsync ---------------------------
(* Model checking of DirectAsync: constants are set in the .cfg files. *)
EXTENDS DirectAsync
=============================================================================
