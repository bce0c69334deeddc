SPECIFICATION FairSpec
CONSTANTS
    Procs = {p1, p2}
    Crashy = {p1}
    Burst = 1
    Refill = 2
    StaleAfter = 2
    LastCrash = 2
    MaxCalls = 2
    MaxGrants = 3
    MaxTime = 6
INVARIANTS
    Exclusive
    HonorsBurst
PROPERTIES
    IsTokenBucket
    LockRecovered
CHECK_DEADLOCK FALSE
