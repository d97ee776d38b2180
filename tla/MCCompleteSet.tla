--------------------------- MODULE MCCompleteSet ---------------------------
(* One instance of CompleteSet: two bundles of one market, two signals.    *)
EXTENDS CompleteSet, TLC

CONSTANTS y1, n1, y2, n2, yes, no

MCBundles == {<<y1, n1>>, <<y2, n2>>}
MCTokenOf == [o \in Orders |-> IF o \in {y1, y2} THEN yes ELSE no]
MCSideOf  == [o \in Orders |-> "BUY"]
MCSizeOf  == [o \in Orders |-> 2]
=============================================================================
