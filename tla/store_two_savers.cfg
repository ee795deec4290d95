CONSTANTS
    Id = {m1}
    Own = {}
    Saver = {autosave, close}
    Inode = {f1, f2, f3, f4}
    NoFile = NoFile
    Torn = Torn
    MaxArrive = 1
    MaxFault = 0
    MaxCrash = 1
SPECIFICATION Spec
INVARIANTS BackupIntact
