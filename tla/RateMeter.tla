----------------------------- MODULE RateMeter -----------------------------
(***************************************************************************)
(* What a rate limiter promises, without saying how: a meter rises by Cost *)
(* with every grant and falls by one with every unit of time, and no grant *)
(* takes it over Capacity.  So no window of d units of time, wherever it   *)
(* starts, holds more than (Capacity + d) / Cost grants.                   *)
(***************************************************************************)
EXTENDS Integers

CONSTANTS
  Capacity,  \* the burst, in units of time
  Cost       \* units of time that pay for one grant

VARIABLE level

Init  == level = 0
Drain == level > 0 /\ level' = level - 1
Grant == level + Cost =< Capacity /\ level' = level + Cost

Spec == Init /\ [][Drain \/ Grant]_level
=============================================================================
