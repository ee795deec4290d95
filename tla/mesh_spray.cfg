CONSTANTS
    Node = {1, 2, 3, 4, 5, 6, 7}
    NoNode = NoNode
    Msg = {m1}
    Origin <- ChatOneToSeven
    SprayBudget <- Budget3
    AckTTL = 4
    InitLink <- Tree
    Forgetful = {}
    MaxWindow = 0
    MaxChange = 1
SPECIFICATION FairSpec
INVARIANTS TreeBudget
PROPERTIES EventuallyDelivered EventuallyAcked
CHECK_DEADLOCK FALSE
