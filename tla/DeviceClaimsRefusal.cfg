SPECIFICATION Spec
CONSTANTS
    p1 = p1
    p2 = p2
    live = live
    test = test
    other = other
    Projects <- MCProjects
    Environments <- MCEnvironments
    ProjectOf <- MCProjectOf
    ConsentTTL = 2
    Lag = 0
    MaxTime = 3
    MaxTokens = 3
    MaxRetirements = 1
INVARIANTS
    RefusalUndoneOnlyByYes
CHECK_DEADLOCK FALSE
