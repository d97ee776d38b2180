--------------------------- MODULE MCWeatherLive ---------------------------
(* One instance of WeatherLive: one market, entries and exits of its token. *)
EXTENDS WeatherLive, TLC

CONSTANTS b1, b2, s1, s2, k1

MCTokenOf == [o \in Orders |-> k1]
MCSideOf  == [o \in Orders |-> IF o \in {b1, b2} THEN "BUY" ELSE "SELL"]
MCSizeOf  == [o \in Orders |-> IF o = b2 THEN 1 ELSE 2]
=============================================================================
