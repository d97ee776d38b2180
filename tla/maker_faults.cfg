CONSTANTS
  m1 = m1  m2 = m2  m3 = m3  k1 = k1  k2 = k2
  Orders = {m1, m2, m3}
  Mine = {m1, m2, m3}
  Tokens = {k1, k2}
  TokenOf <- MCTokenOf
  SideOf <- MCSideOf
  SizeOf <- MCSizeOf
  RequireKnown = TRUE
  FillsPerSecond = 2
  MaxFills = 3
  MaxClock = 2
  MaxOpenExposure = 4
  MaxDailyGross = 5
  MaxConcurrent = 2
SPECIFICATION MakerSpec
INVARIANTS OneQuotePerMarket SharesNotUnderstated
PROPERTIES QuoteWithinCap
