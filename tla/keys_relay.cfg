CONSTANTS
    Node = {a, b, c}
    NoKey = NoKey
    MaxMsg = 3
    MaxSlow = 0
    MaxCrash = 0
    MaxRace = 1
SPECIFICATION Spec
INVARIANTS EndToEnd
SYMMETRY NodeSymmetry
CHECK_DEADLOCK FALSE
