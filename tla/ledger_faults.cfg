CONSTANTS
  b1 = b1  b2 = b2  s1 = s1  x1 = x1  k1 = k1  k2 = k2
  Orders = {b1, b2, s1, x1}
  Mine = {b1, b2, s1}
  Tokens = {k1, k2}
  TokenOf <- MCTokenOf
  SideOf <- MCSideOf
  SizeOf <- MCSizeOf
  RequireKnown = FALSE
  FillsPerSecond = 2
  MaxFills = 3
  MaxClock = 3
SPECIFICATION Spec
INVARIANTS TypeOK BookedBehindCursor EachBuyInOneRow OnlyOwnFillsBooked RestingRowIsOpen SkippedSharesItsSecond
PROPERTIES FilledIsFinal BooksLikeJournal
