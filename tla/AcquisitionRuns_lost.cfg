SPECIFICATION AcquisitionSpec
CONSTANTS
    Executor = {e1, e2}
    Key = {k1, k2}
    MaxRuns = 2
    MaxContent = 1
    MaxRunLosses = 2
CHECK_DEADLOCK FALSE
PROPERTY
    LostRunEnds
