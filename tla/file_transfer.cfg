CONSTANTS
    ChunkSize = 2
    MaxSize = 5
    Window = 2
    MaxFault = 1
    MaxResize = 1
    MaxCancel = 1
    MaxMissed = 1
SPECIFICATION FairSpec
INVARIANTS OutputIntact OnlyIncoming
PROPERTIES  ReceivedMeansSent AppsSeeComplete
CHECK_DEADLOCK FALSE
