SPECIFICATION Spec
CONSTANTS
  Worker = {w1, w2}
  NoWorker = none
  o1 = o1
  o2 = o2
  Order = {o1, o2}
  OrderOf <- MCOrderOf
  Cancellation = {3}
  MaxEvent = 3
  PageSize = 2
  MaxFaults = 0
  TimeLimit = TRUE
INVARIANT
  RecordedIsApplied
