------------------------------ MODULE MCFleetCap ------------------------------
(* One instance of FleetCap: two live bots that ask the cap, one that does *)
(* not, and one on paper.                                                  *)
EXTENDS FleetCap, TLC

CONSTANTS a, b, c, p, a1, b1, c1, p1

MCOwnerOf    == a1 :> a @@ b1 :> b @@ c1 :> c @@ p1 :> p
MCNotionalOf == a1 :> 2 @@ b1 :> 2 @@ c1 :> 1 @@ p1 :> 1
=============================================================================
