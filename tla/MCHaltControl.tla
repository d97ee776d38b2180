--------------------------- MODULE MCHaltControl ---------------------------
(* Instances of HaltControl: one bot under two checks.                     *)
EXTENDS HaltControl, TLC

CONSTANTS p, drawdown, vpn

OneBotScope == drawdown :> {p} @@ vpn :> {p}
=============================================================================
