CONSTANTS
    Node = {a, b, c}
    NoKey = NoKey
    MaxMsg = 3
    MaxSlow = 1
    MaxCrash = 1
    MaxRace = 1
SPECIFICATION Spec
INVARIANTS CacheFresh OnlyRecipientReads
SYMMETRY NodeSymmetry
CHECK_DEADLOCK FALSE
