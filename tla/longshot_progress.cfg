CONSTANTS
  k1 = k1  k2 = k2
  Markets = {k1}
  FixedSize = 2
  MaxConcurrent = 2
  MaxDaily <- TwoDaily
  MaxGross = 3
  Modes <- MakerModes
  Bounds <- FilledBounds
  MaxDay = 1
  MaxRows = 2
SPECIFICATION FairSpec
INVARIANTS PaperEntersOnce PositionsMatchTrades FillsFitOrder MakerFillsHavePrints
PROPERTIES ResolvedIsBooked GoneRowCloses
