CONSTANTS
  k1 = k1  k2 = k2
  Markets = {k1, k2}
  FixedSize = 2
  MaxConcurrent = 2
  MaxDaily <- OneDaily
  MaxGross = 3
  Modes <- TakerModes
  Bounds <- PlacedBounds
  MaxDay = 2
  MaxRows = 0
SPECIFICATION Spec
SYMMETRY MarketSymmetry
INVARIANTS RecordedWithinDailyCaps
