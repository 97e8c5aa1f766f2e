----------------------------- MODULE MCFilePush -----------------------------
(***************************************************************************)
(* Instances of FilePush for TLC.                                          *)
(***************************************************************************)
EXTENDS FilePush
=============================================================================
