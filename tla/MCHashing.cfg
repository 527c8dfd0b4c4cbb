SPECIFICATION MCSpec
CONSTANTS
    Rate = 2
    MaxCount = 3
    MaxOps = 3
    MaxItems = 6
    P = 13
    T = 3
    HalfFull = 2
    Partial = 3
    Matrices <- MCMatrices
    RoundConstants <- MCRoundConstants
    Preimages <- MCPreimages
    Byte = {"N", "o", "T", "R", "D", "S", "a", "b", "c"}
    Labels <- MCLabels
    Data <- MCData
    MaxRound = 2
    MaxCalls = 4
    WordP = 2039
    W = 2
    ShaRounds = 17
    LengthBits = 8
    ByteBits = 8
    Inputs <- MCInputs
    IV <- MCIV
    ROUND_CONSTANTS <- MCSchedule
INVARIANTS
    SqueezeDepends
    FinishExact
    TagDecides
    CircuitAgrees
    OracleDepends
    PermutationAgrees
    TranscriptBinds
    CircuitIsSha256
CHECK_DEADLOCK FALSE
