CONSTANTS
    Node = {1, 2, 3}
    NoNode = NoNode
    Msg = {m1}
    Origin <- ChatOneToThree
    SprayBudget <- Mixed
    AckTTL = 0
    InitLink <- Triangle
    Forgetful = {3}
    MaxWindow = 1
    MaxChange = 0
SPECIFICATION Spec
INVARIANTS TypeOK HopBudget AtMostOncePerWindow AckAfterDelivery
PROPERTIES ImplementsDelivery
CHECK_DEADLOCK FALSE
