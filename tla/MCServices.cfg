SPECIFICATION ServicesSpec
CONSTANTS
    Executor = {f1, f2}
    Key = {k1, k2}
    MaxRuns = 2
    MaxContent = 1
    MaxRunLosses = 2
    FirstProduct = p
    User = {f1, f2}
    NoUser = none
    CanonicalProduct = {p, q}
    NoProduct = none
    MaxVersion = 3
    MaxEvidence = 2
    MaxRemaps = 1
    Admin = {f1, f2}
    MaxPolicyEvents = 2
    MaxAuthorityEvents = 4
    MaxUnits = 2
    Product = {p1}
    Scanner = {f1, f2}
    Reader = {r1}
    MaxVer = 3
    MaxScan = 2
    MaxLock = 1
    Editor = {f1, f2}
    Cell = {c1, c2}
    Target = {0, 1}
    MaxDraft = 2
    MaxCacheWrites = 1
    Caller = {f1, f2}
    NoCaller = none
    SafeLimit = 2
    MaxDay = 2
    OutlivesMidnight = FALSE
    Worker = {f1, f2}
    NoWorker = none
    o1 = o1
    o2 = o2
    Order = {o1, o2}
    OrderOf <- MCOrderOf
    Cancellation = {3}
    MaxEvent = 3
    PageSize = 2
    MaxFaults = 2
    TimeLimit = TRUE
CHECK_DEADLOCK FALSE
SYMMETRY Symmetric
INVARIANTS
    ServicesTypeOK
    ObservationsAreChanges
    RetiredIsQuiet
    RevisionsAreAChain
    LogsAreLinear
    GoneIsMarked
    NoEditIsLost
    BudgetIsKept
    NothingSkipped
PROPERTIES
    RunEndsAsDecided
    WorkspaceIsCurrent
    ApprovedWasCurrent
    NewestIsKept
    StoredIsKept
