SPECIFICATION Spec
CONSTANTS
    MaxCons = 3
    MaxVars = 4
    MaxIO = 2
    MaxEntries = 2
INVARIANT PaddedHasItsRows
CHECK_DEADLOCK FALSE
