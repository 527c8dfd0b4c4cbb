SPECIFICATION LimbsSpec
CONSTANTS
    Half = 4
    NLIMBS = 2
    P = 59
INVARIANT CompareIsOrder
CHECK_DEADLOCK FALSE
