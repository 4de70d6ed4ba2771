SPECIFICATION CacheSpec
CONSTANTS
  p1 = p1
  p2 = p2
  f1 = f1
  f2 = f2
  r1 = r1
  Product = {p1}
  Scanner = {f1, f2}
  Reader = {r1}
  MaxVer = 3
  MaxScan = 3
  MaxLock = 1
CHECK_DEADLOCK FALSE
SYMMETRY Symmetric
PROPERTY SeenIsKept
