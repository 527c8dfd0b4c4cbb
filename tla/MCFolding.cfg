SPECIFICATION Spec
CONSTANTS
    P = 5
    Blinds = {1}
    WrongBlinds = {0, 2}
    PublicValues = {1}
    Vars = {"w"}
    IO = {"x"}
    Cons = {"c"}
    UCol = "u"
    Zero = 0
    One = 1
    Scalar <- ModScalar
    FieldAdd <- ModAdd
    FieldMul <- ModMul
    FieldNeg <- ModNeg
    RowA <- MCRowA
    RowB <- MCRowB
    RowC <- MCRowC
    Incoming <- MCIncoming
    Sampled <- MCSampled
    Blind = {1}
    Challenge = {0, 1, 2, 3}
INVARIANTS
    TypeOK
    Completeness
    Agreement
    OpensUnblinded
PROPERTIES
    FoldSound
    DerandomizeExact
CHECK_DEADLOCK FALSE
