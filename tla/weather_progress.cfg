CONSTANTS
  b1 = b1  b2 = b2  s1 = s1  s2 = s2  k1 = k1
  Orders = {b1, s1, s2}
  Mine = {b1, s1, s2}
  Tokens = {k1}
  TokenOf <- MCTokenOf
  SideOf <- MCSideOf
  SizeOf <- MCSizeOf
  RequireKnown = TRUE
  FillsPerSecond = 2
  MaxFills = 3
  MaxClock = 2
SPECIFICATION FairWeather
INVARIANTS FilledMeansBooked
PROPERTIES ExitNotDoubled WeatherBooksLikeJournal GhostRowCloses GoneExitCloses EveryTradePassed
