---------------------------- MODULE MCLiveLedger ----------------------------
(* Instances of LiveLedger: constant functions over named orders.          *)
EXTENDS LiveLedger, TLC

CONSTANTS b1, b2, s1, x1, k1, k2

\* Two buys of the bot, one sell, one order of the wallet's other bot.
MCTokenOf == b1 :> k1 @@ b2 :> k1 @@ s1 :> k1 @@ x1 :> k2
MCSideOf  == b1 :> "BUY" @@ b2 :> "BUY" @@ s1 :> "SELL" @@ x1 :> "BUY"
MCSizeOf  == b1 :> 2 @@ b2 :> 1 @@ s1 :> 1 @@ x1 :> 1
=============================================================================
