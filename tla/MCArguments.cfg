SPECIFICATION MCSpec
CONSTANTS
    P = 1009
    Threads = 2
    ScalarBits = 10
    Tau = 321
    KeySize = 65
    ck <- MCKey
    TargetChunks = 3
    Shapes <- MCShapes
    Assignments <- MCAssignments
    SparseShapes <- MCSparseShapes
    SparseAssignments <- MCSparseAssignments
    Challenges = {2, 700}
    Taus <- MCTaus
    Rhos <- MCRhos
    Gammas = {5}
    Rs = {77, 994}
    Engines = {"hyperkzg", "mercury", "ipa"}
    Claims <- MCClaims
    Oracles <- MCOracles
    Vectors <- MCVectors
    SmallVectors <- MCSmallVectors
    Blinds = {9}
INVARIANTS
    SpartanExact
    PPSnarkExact
    EvaluationExact
    CommitmentsExact
CHECK_DEADLOCK FALSE
