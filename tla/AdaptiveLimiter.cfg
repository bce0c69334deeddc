SPECIFICATION Spec
CONSTANTS
    Callers = {c1, c2, c3}
    Second = 6
    Floor = 2
    StartRate = 3
    RampAfter = 2
    Remainings = {0, 5, 8}
    Resets = {2}
    TopRate = 4
    MaxTime = 7
    Horizon = 10
SYMMETRY Symmetry
INVARIANTS
    RateInBounds
    SlotsApart
    TipIsOwned
CHECK_DEADLOCK FALSE
