SPECIFICATION FairSpec
CONSTANTS
  r1 = r1
  r2 = r2
  r3 = r3
  w1 = w1
  w2 = w2
  k1 = k1
  k2 = k2
  k3 = k3
  Runner = {w1}
  Receipt = {r1, r2}
  Row = {k1, k2}
  MaxTries = 2
  MaxRuns = 2
  MaxFaults = 2
  MaxReplays = 1
  NoProduct = {}
  ReadMayFail = TRUE
CHECK_DEADLOCK FALSE
INVARIANTS
  ProcessedIsObserved
PROPERTIES
  ReceiptsSettle
