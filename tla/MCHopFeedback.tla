---------------------------- MODULE MCHopFeedback ----------------------------
\* An adaptive hop on two profiles.  The host's batch can meet a dwell without
\* a recall only when four dwells follow each other.
EXTENDS HopFeedback
MCDwells == [m \in Modes |-> IF m = "host" THEN 4 ELSE 3]
=============================================================================
