SPECIFICATION MCSpec
CONSTANTS
    Modulus = 5
    MaxEll = 3
    ONE = 1
    Scalar <- ModScalar
    times <- ModMul
    minus <- ModSub
    Half = 4
    NLIMBS = 2
    P = 59
    Tried = {0, 1, 50}
    Inputs <- MCInputs
INVARIANTS
    NoRace
    TableIsEq
    LimbsExact
PROPERTIES
    ImplementsEqTable
    Returns
CHECK_DEADLOCK FALSE
