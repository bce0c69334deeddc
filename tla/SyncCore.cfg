SPECIFICATION Spec
CONSTANTS
    Rows = {1, 2, 3}
    Procs = {p1, p2}
    p2 = p2
    Limit = 2
    Options <- PlainAndFull
    SortBy = "ordinamento"
    Positions = {0, 1}
    InitialRows = {{1}, {1, 2}}
    Deletable = {1, 2}
    Faults = {"upsert_error", "lost_items", "reconcile_error", "error"}
    MaxVer = 2
    MaxClock = 2
CONSTRAINT PairOverOneRow
INVARIANTS
    LagHasACause
PROPERTIES
    PrunesOnlyGone
    FullWalkIsExact
    WatermarkMoves
CHECK_DEADLOCK FALSE
