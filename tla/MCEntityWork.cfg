SPECIFICATION Spec
CONSTANTS
  r1 = r1
  r2 = r2
  r3 = r3
  w1 = w1
  w2 = w2
  k1 = k1
  k2 = k2
  k3 = k3
  Runner = {w1, w2}
  Receipt = {r1, r2}
  Row = {k1, k2, k3}
  MaxTries = 2
  MaxRuns = 2
  MaxFaults = 1
  MaxReplays = 1
  NoProduct = {r2}
  ReadMayFail = TRUE
CHECK_DEADLOCK FALSE
SYMMETRY Symmetric
INVARIANTS
  TypeOK
PROPERTIES
  ProcessedIsFinal
