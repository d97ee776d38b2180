----------------------------- MODULE MCLongshot -----------------------------
(* Instances of Longshot: the modes a run starts the bot in, its bounds.   *)
EXTENDS Longshot, TLC

CONSTANTS k1, k2

OneDaily == [b \in BOOLEAN |-> 1]
TwoDaily == [b \in BOOLEAN |-> 2]

TakerModes == BOOLEAN \X {FALSE}
MakerModes == BOOLEAN \X {TRUE}

\* One paper order; two live orders.
PlacedBounds == TRUE :> (0 .. 1) \X {0} @@ FALSE :> (0 .. 2) \X {0}
\* Two orders, or one with a match or two prints, one of them earlier or not.
FilledBounds ==
  LET few == {<<0, 0>>, <<1, 0>>, <<2, 0>>, <<1, 1>>}
  IN  TRUE :> (few \cup {<<0, 1>>, <<1, 2>>}) @@ FALSE :> few
MarketSymmetry == Permutations(Markets)
=============================================================================
