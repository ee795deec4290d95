CONSTANTS
    Peer = {p1}
    Conn = {k1, k2}
    Client = {c1}
    BufSize = 2
    MaxStop = 2
SPECIFICATION FairSpec
INVARIANTS NoPanic ViewFollows PeersFollow
PROPERTIES GoneClientsLeave StopDrains
CHECK_DEADLOCK FALSE
