CONSTANTS
    Id = {m1}
    Own = {m1}
    Saver = {autosave}
    Inode = {f1, f2, f3, f4}
    NoFile = NoFile
    Torn = Torn
    MaxArrive = 1
    MaxFault = 2
    MaxCrash = 2
SPECIFICATION FairSpec
INVARIANTS TypeOK BackupIntact
PROPERTIES ImplementsBackup BackupGrows EventuallyBackedUp
