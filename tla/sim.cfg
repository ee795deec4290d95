CONSTANTS
    Nodes = 4
    Messages = 2
    InjectionFrom = 0
    InjectionTo = 1
    Lifetime = 1
    Duration = 3
    Forwarders = {0, 1, 2}
    Scale = 100
    PInit = 75
    Beta = 25
    Gamma = 98
    Pairs <- FarAndBack
    MaxContacts = 2
SPECIFICATION Spec
INVARIANTS OneCopyEach CopiesConserved BudgetKept DeliveriesRecorded HopsNeedCopies
PROPERTIES DeliveryFinal
CHECK_DEADLOCK FALSE
