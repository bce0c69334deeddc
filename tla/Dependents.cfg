SPECIFICATION FairSpec
CONSTANTS
    Parents = {a, b}
    Kids = {1, 2}
    Workers = {w1, w2}
    Limit = 1
    MaxPages = {0, 1}
    Scoped = {1}
    InitialKids = {{1}}
    Changing = {a}
    Faults = {"lost_items", "non_json", "reconcile_error", "state_error", "parents_error"}
INVARIANTS
    TypeOK
PROPERTIES
    ResultHonest
    CompleteCovers
    CompleteMirrorsDeletions
    SweepsOnlyGone
    RunReturns
CHECK_DEADLOCK FALSE
