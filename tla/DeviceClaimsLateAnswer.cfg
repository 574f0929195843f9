SPECIFICATION Spec
CONSTANTS
    p1 = p1
    p2 = p2
    live = live
    test = test
    other = other
    Projects <- MCProjects
    Environments <- MCEnvironments
    ProjectOf <- MCProjectOf
    ConsentTTL = 2
    Lag = 0
    MaxTime = 3
    MaxTokens = 2
    MaxRetirements = 1
INVARIANTS
    LateAnswerRecorded
CHECK_DEADLOCK FALSE
