SPECIFICATION WorkSpec
CONSTANTS
  Worker = {w1, w2}
  NoWorker = none
  o1 = o1
  o2 = o2
  Order = {o1, o2}
  OrderOf <- MCOrderOf
  Cancellation = {3}
  MaxEvent = 3
  PageSize = 2
  MaxFaults = 1
  TimeLimit = FALSE
  s1 = s1
  s2 = s2
  s3 = s3
  Session = {s1, s2, s3}
  Kind = {"replace", "full", "resume"}
  MaxJob = 3
  MaxRunFaults = 1
CHECK_DEADLOCK FALSE
INVARIANTS
  JobsTypeOK
  OneMarketplaceOwner
PROPERTIES
  ImplementsLedger
  OnlyTheHolderCommits
  MarketplaceSettlesOwnJob
  EventsArrive
  RunningEnds
