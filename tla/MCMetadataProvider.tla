------------------------ MODULE MCMetadataProvider ------------------------
(* A small instance of the metadata provider.                               *)
EXTENDS MetadataProvider
============================================================================
