--------------------------- MODULE MCResourceManager ---------------------------
EXTENDS ResourceManager, TLC

(* Two linked tuners: the first, which gives the second its voltage, receives  *)
(* ch1, the second ch2 and, better than the first, ch1.  While one is in use    *)
(* the other receives what the switches are set for: everything when they suit, *)
(* nothing when they were turned or are unknown.                              *)
CONSTANTS c1, c2, ch1, ch2, o1, o2, o3, suits, turned

MCScore ==
  LET Alone == ch1 :> <<1, 2>> @@ ch2 :> <<0, 1>>
      Other(f) == 3 - f
  IN [s \in {suits, turned} |-> [S \in SUBSET {1, 2} |-> [id \in {ch1, ch2} |->
        [f \in 1 .. 2 |-> IF s = suits \/ Other(f) \in S THEN Alone[id][f] ELSE 0]]]]
MCNextLinked == <<{2}, {}>>
MCSatposDepends == <<None, None>>
===============================================================================
