CONSTANTS
    Peer = {1, 2, 3}
    MaxBudget = 3
    MyPs = {0, 1}
    PeerPs = {0, 1}
    Base = 4
    MTU = 2
    NoSample = NoSample
SPECIFICATION ASpec
INVARIANTS ClosedForm RoundTrip TruncationNoticed LooksBinary
CHECK_DEADLOCK FALSE
