SPECIFICATION RetirementSpec
CONSTANTS
    p1 = p1
    p2 = p2
    e1 = e1
    e2 = e2
    r1 = r1
    r2 = r2
    Projects <- MCProjects
    Environments <- MCEnvironments
    ProjectOf <- MCProjectOf
    Retirers <- MCOneRetirer
    Overlap = FALSE
    Forgotten = FALSE
    ConsentTTL = 1
    Lag = 0
    MaxTime = 0
    MaxTokens = 1
    MaxRetirements = 1
    MaxEvents = 2
    MaxRestarts = 0
INVARIANTS
    HeldCanPair
CHECK_DEADLOCK FALSE
