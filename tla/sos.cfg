CONSTANTS
    Node = {a, b}
    Owner = a
    NoAlert = NoAlert
    MaxTTL = 3
    ActiveDuration = 2
    MaxRound = 1
    MaxAck = 1
    MaxAge = 9
SPECIFICATION FairSpec
INVARIANTS AlertLifetime
PROPERTIES AlertsDie
CHECK_DEADLOCK FALSE
