CONSTANTS
  y1 = y1  n1 = n1  y2 = y2  n2 = n2  yes = yes  no = no
  Orders = {y1, n1, y2, n2}
  Mine = {y1, n1, y2, n2}
  Tokens = {yes, no}
  TokenOf <- MCTokenOf
  SideOf <- MCSideOf
  SizeOf <- MCSizeOf
  RequireKnown = TRUE
  FillsPerSecond = 2
  MaxFills = 2
  MaxClock = 2
  Bundles <- MCBundles
  DailyCap = 5
  OpenCap = 6
  MaxSignals = 2
  MaxDay = 2
SPECIFICATION SetSpec
INVARIANTS SignalBoughtOnce DailyCapHolds OpenCapHolds LegNotWrittenOff
