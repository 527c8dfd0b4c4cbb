SPECIFICATION MCSpec
CONSTANTS
    P = 7
    Blinds = {1}
    WrongBlinds = {0, 2}
    Witnesses = {1, 2}
    PublicValues = {1, 4}
    Ell = 2
    Vars = {"w"}
    IO = {"x"}
    UCol = "u"
    Zero = 0
    One = 1
    Scalar <- ModScalar
    FieldAdd <- ModAdd
    FieldMul <- ModMul
    FieldNeg <- ModNeg
    FieldInv <- ModInv
    RowA <- MCRowA
    RowB <- MCRowB
    RowC <- MCRowC
    Incoming <- MCIncoming
    Blind = {1}
    Taus = {1, 3}
    Rhos = {0, 2, 6}
    Rbs = {0, 2, 3, 6}
    MaxFolds = 2
    Slot = {s1, s2}
    PP = {p1, p2}
    State = {0, 1}
    MaxDraws = 3
SYMMETRY Symmetric
INVARIANTS
    ZeroFoldComplete
    ZeroFoldAgree
    NeutronSound
    NeutronComplete
PROPERTIES
    ZeroFoldSound
    NeutronIsIncremental
CHECK_DEADLOCK FALSE
