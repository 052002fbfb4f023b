--------------------------- MODULE MCMetadataCache ---------------------------
(***************************************************************************)
(* Instance of MetadataCache: a reader and two updates of a mint that has   *)
(* metadata in both sources.                                                *)
(***************************************************************************)
EXTENDS MetadataCache
=============================================================================
