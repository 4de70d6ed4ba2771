SPECIFICATION RequestsSpec
CONSTANTS
    ra = ra
    rb = rb
    rc = rc
    pa = pa
    pc = pc
    pab = pab
    pbc = pbc
    Worker = {w1, w2}
    NoWorker = none
    Payload = {pab, pa, pbc, pc}
    Request = {ra, rb, rc}
    RequestIds <- MCRequestIds
    OccurredAt <- MCOccurredAt
    ReceiptBatch = 1
    MaxDeliveries = 3
    MaxRunFaults = 2
    Session = {s1, s2}
    NoSession = none
    Item = {i, j}
    Selectable <- SelectEach
    MaxSelections = 2
    MaxDryRuns = 2
CHECK_DEADLOCK FALSE
INVARIANTS
    RequestsTypeOK
    ProposedOnce
    OneCurrentDryRun
PROPERTIES
    DispatchedAsConfirmed
    AcknowledgedIsProcessed
    RequestEnds
