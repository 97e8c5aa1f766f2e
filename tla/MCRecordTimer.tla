---------------------------- MODULE MCRecordTimer ----------------------------
(***************************************************************************)
(* Instances of RecordTimer for TLC.                                       *)
(***************************************************************************)
EXTENDS RecordTimer

TwoSpans == {<<1, 2>>, <<2, 4>>}
OneSpan == {<<1, 3>>}
ShortOrLong == {<<1, 1>>, <<0, 2>>}
OnceOrDaily == {{}, 0 .. Week - 1}
Once == {{}}
Symmetry == Permutations(Timer)
=============================================================================
