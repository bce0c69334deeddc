SPECIFICATION ArchiveSpec
CONSTANTS
    Rows = {1, 2, 3}
    Procs = {p1}
    Limit = 2
    Options <- PlainSync
    SortBy = "id"
    Positions = {0}
    InitialRows = {{1, 2, 3}}
    Deletable = {}
    Faults = {}
    MaxVer = 2
    MaxClock = 2
    ArchivePages = {0}
INVARIANTS
    ArchiveLeavesNoGap
CHECK_DEADLOCK FALSE
