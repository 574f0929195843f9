SPECIFICATION Spec
CONSTANTS
    p1 = p1
    p2 = p2
    live = live
    test = test
    other = other
    Projects <- MCProjects
    Environments <- MCEnvironments
    ProjectOf <- MCProjectOf
    ConsentTTL = 2
    Lag = 1
    MaxTime = 3
    MaxTokens = 2
    MaxRetirements = 1
INVARIANTS
    UsableOnlyUnderGrant
    SharedOnlyByAnswer
    TrailExplainsRow
PROPERTIES
    LiveQuestionStands
CHECK_DEADLOCK FALSE
