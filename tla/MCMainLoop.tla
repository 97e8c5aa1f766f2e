------------------------------ MODULE MCMainLoop ------------------------------
EXTENDS MainLoop, TLC

(* n1 and n2 have the same descriptor number, n3 another one.                   *)
CONSTANTS t1, t2, n1, n2, n3

MCFD == n1 :> 3 @@ n2 :> 3 @@ n3 :> 4
===============================================================================
