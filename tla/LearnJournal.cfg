SPECIFICATION Spec
CONSTANTS
    Procs = {p1, p2, p3}
    Sessions = {s1}
    Nobody = Nobody
    Window = 0
    DayLength = 1
    KeepDays = 0
    MaxLines = 2
    PassLimit = 2
    MaxNow = 1
    MaxFaults = 1
SYMMETRY Symmetry
INVARIANTS
    CountedAtMostOnce
    SightingsAreReal
    CorrectionsAreCounted
PROPERTIES
    OwnLineRead
    VerdictsHold
CHECK_DEADLOCK FALSE
