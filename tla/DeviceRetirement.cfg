SPECIFICATION RetirementSpec
CONSTANTS
    p1 = p1
    p2 = p2
    e1 = e1
    e2 = e2
    r1 = r1
    r2 = r2
    Projects <- MCProjects
    Environments <- MCEnvironments
    ProjectOf <- MCProjectOf
    Retirers <- MCRetirers
    Overlap = FALSE
    Forgotten = FALSE
    ConsentTTL = 1
    Lag = 0
    MaxTime = 1
    MaxTokens = 1
    MaxRetirements = 2
    MaxEvents = 3
    MaxRestarts = 1
INVARIANTS
    ReservedMeansUnheld
    UnassignedMeansGone
PROPERTIES
    StrandedOnlyByFailure
    Spec
VIEW MCView
SYMMETRY MCSymmetry
CHECK_DEADLOCK FALSE
