---------------------------- MODULE MCMakerLive ----------------------------
(* One instance of MakerLive: two quotes in one market, one in another.    *)
EXTENDS MakerLive, TLC

CONSTANTS m1, m2, m3, k1, k2

MCTokenOf == m1 :> k1 @@ m2 :> k1 @@ m3 :> k2
MCSideOf  == m1 :> "BUY" @@ m2 :> "BUY" @@ m3 :> "BUY"
MCSizeOf  == m1 :> 2 @@ m2 :> 1 @@ m3 :> 2
=============================================================================
