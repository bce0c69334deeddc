SPECIFICATION FairSpec
CONSTANTS
    Reads = {r1}
    Writes = {w1}
    MaxRetries = 1
    RetryBudget = 1
    Deadline = 3
    Waits = {0, 1}
INVARIANTS
    TypeOK
    EffectsBounded
    ReportsAreTrue
    StaleOnlyAfterRace
PROPERTY
    CallsReturn
CHECK_DEADLOCK FALSE
