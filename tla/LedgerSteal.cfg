SPECIFICATION Spec
CONSTANTS
    Procs = {p1, p2, p3}
    Crashy = {p1}
    Burst = 1
    Refill = 2
    StaleAfter = 2
    LastCrash = 2
    MaxCalls = 1
    MaxGrants = 4
    MaxTime = 5
INVARIANTS
    HonorsBurst
CHECK_DEADLOCK FALSE
