SPECIFICATION Spec
CONSTANTS
    A = A
    B = B
    a1 = a1
    a2 = a2
    b1 = b1
    w1 = w1
    w2 = w2
    d = d
    l1 = l1
    l2 = l2
    l3 = l3
    None = None
    Blank = Blank
    Shared = Shared
    Sites = {A, B}
    Tokens = {a1, a2, b1}
    SiteOf <- MCSiteOf
    Commands = {w1, w2, d}
    SiteFor <- MCSiteFor
    Logins = {l1, l2, l3}
    Records = 2
    Casts <- MCCasts
INVARIANTS TypeOK PublishedTokenStays PairKept StoresArePure ClaimHolds ReadsOwnSite OneStore RepeatsExplained
SYMMETRY MCSymmetry
CHECK_DEADLOCK FALSE
