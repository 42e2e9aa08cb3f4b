--------------------------- MODULE MCSharedBuffer ---------------------------
(* Model checking of SharedBuffer: constants are set in the .cfg files. *)
EXTENDS SharedBuffer, TLC

CONSTANTS c1, c2, c3, voltage0, voltage1

\* One client wants both channels, the others one each.
Masks == [c \in Client |-> CASE c = c1 -> {voltage0} [] c = c2 -> {voltage0, voltage1}
                              [] c = c3 -> {voltage1}]
=============================================================================
