CONSTANTS
  t1 = t1  t2 = t2  t3 = t3
  Threads = {t1, t2, t3}
  Capacity = 5
  Cost = 2
  Timeout = 4
  Nap = 1
SPECIFICATION FairSpec
INVARIANTS TypeOK
PROPERTIES GrantsKeepToMeter AcquireReturns
