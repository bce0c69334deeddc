SPECIFICATION MirrorSpec
CONSTANTS
    Rows = {1, 2}
    Procs = {p1}
    Lookups = {q1}
    Limit = 1
    Options <- PlainAndFull
    SortBy = "ordinamento"
    Positions = {0, 1}
    InitialRows = {{1},{1,2}}
    Deletable = {1}
    Faults = {"error", "upsert_error", "reconcile_error"}
    MaxVer = 2
    MaxClock = 2
CONSTRAINT OnlyFirstMoves
INVARIANTS
    LagHasACause
PROPERTIES
    GoesBackOnlyAhead
    FullWalkIsExact
CHECK_DEADLOCK FALSE
