SPECIFICATION MCSpec
CONSTANTS
    MaxCons = 2
    MaxVars = 3
    MaxIO = 3
    MaxEntries = 3
    NumberP = 257
    LimbWidth = 2
    NLimbs = 2
    NumLimbs = 5
    Moduli = {11, 13}
    Factors = {0, 6, 15}
    CurveP = 13
    A = 0
    B = 2
    Order = 19
    Points <- MCPoints
    MaxBits = 5
    P = 11
    Coefficients = {0, 1, 10}
    MaxAux = 3
    MaxInputs = 1
    MaxTerms = 3
    MaxConstraints = 1
INVARIANTS
    GadgetsExact
    BigNatExact
    EccExact
    FrontendAgrees
    NewChecksEveryEntry
    PadExact
CHECK_DEADLOCK FALSE
