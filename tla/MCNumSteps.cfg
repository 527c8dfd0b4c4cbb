SPECIFICATION Spec
CONSTANTS
    Slot = {s1, s2}
    PP = {p1, p2}
    State = {0, 1}
    MaxDraws = 2
SYMMETRY Symmetric
INVARIANT NumStepsExecuted
