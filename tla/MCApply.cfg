SPECIFICATION FairSpec
CONSTANTS
    j1 = j1
    j2 = j2
    l1 = l1
    l2 = l2
    c1 = c1
    c2 = c2
    s1 = s1
    s2 = s2
    NoJob = NoJob
    Job = {j1, j2}
    Listing = {l1, l2}
    Channel = {c1, c2}
    Session = {s1, s2}
    Scope <- MCScope
    ChannelOf <- MCChannelOf
    Reported = {l2}
    Stall <- StallChecked
    MaxFence <- MCMaxFence
CHECK_DEADLOCK FALSE
INVARIANTS
    TypeOK
    SentAtMostOnce
    
    UncertainAttemptHoldsLock
    FinishedIsSettled
    
PROPERTIES
    RequestsEnd
    SettledItemIsFinal
    
