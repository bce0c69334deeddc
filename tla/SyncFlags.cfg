SPECIFICATION FairSpec
CONSTANTS
    Rows = {1, 2}
    Procs = {p1}
    Limit = 1
    Options <- OtherFlags
    SortBy = "ultima_modifica"
    Positions = {0}
    InitialRows = {{1}, {1, 2}}
    Deletable = {1, 2}
    Faults = {"upsert_error"}
    MaxVer = 2
    MaxClock = 2
INVARIANTS
    LagHasACause
PROPERTIES
    RunsReturn
CHECK_DEADLOCK FALSE
