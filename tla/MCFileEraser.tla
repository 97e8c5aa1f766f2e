----------------------------- MODULE MCFileEraser -----------------------------
(***************************************************************************)
(* Instances of FileEraser for TLC.                                        *)
(***************************************************************************)
EXTENDS FileEraser
=============================================================================
