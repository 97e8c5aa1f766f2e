------------------------------ MODULE MCEThread ------------------------------
(***************************************************************************)
(* An instance of EThread for TLC: the owner joins, pthread_create may     *)
(* fail.                                                                   *)
(***************************************************************************)
EXTENDS EThread
=============================================================================
