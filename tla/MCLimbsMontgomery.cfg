SPECIFICATION LimbsSpec
CONSTANTS
    Half = 4
    NLIMBS = 2
    P = 59
INVARIANT FromMontgomeryNormal
CHECK_DEADLOCK FALSE
