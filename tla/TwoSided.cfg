CONSTANTS
    p1 = p1
    t1 = t1
    t2 = t2
    k1 = k1
    k2 = k2
    NoVal = NoVal
SPECIFICATION SpecApps
INVARIANT TwoSidedMatch
CHECK_DEADLOCK FALSE
