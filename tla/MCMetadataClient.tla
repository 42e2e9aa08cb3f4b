------------------------- MODULE MCMetadataClient -------------------------
(* Model values for the client of a metadata capture.                       *)
EXTENDS MetadataClient
============================================================================
