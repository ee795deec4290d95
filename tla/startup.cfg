CONSTANTS
    Proc = {p1, p2}
    MaxKey = 2
    MaxStart = 4
    Foreign = 0
    NoFile = NoFile
    Torn = Torn
    None = None
SYMMETRY Symmetry
SPECIFICATION Spec
INVARIANTS PhraseRestores EncryptionKept
PROPERTIES KeysKept
