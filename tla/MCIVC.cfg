SPECIFICATION Spec
CONSTANTS
    Slot = {s1, s2}
    PP = {p1, p2}
    State = {0, 1}
    MaxDraws = 3
SYMMETRY Symmetric
INVARIANTS
    VerifySound
    VerifyComplete
    CompressedSound
PROPERTIES
    CompressedComplete
    IsIncremental
