SPECIFICATION Spec
CONSTANTS
    Widths = {1, 3}
    MaxUses = 2
    Grace = 0
    MaxTime = 3
    MaxRequests = 2
    MaxBoots = 2
INVARIANTS
    TypeOK
    EnginesCloseLast
    BudgetHolds
PROPERTIES
    ShutdownEnds
CHECK_DEADLOCK FALSE
