------------------------- MODULE MCFixedMessagePump -------------------------
(***************************************************************************)
(* Instances of FixedMessagePump for TLC.                                  *)
(***************************************************************************)
EXTENDS FixedMessagePump, TLC

Symmetry == Permutations(Message)
=============================================================================
