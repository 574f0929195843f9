SPECIFICATION AckSpec
CONSTANTS
    m1 = m1
    m2 = m2
    Messages <- MCMessages
    AckTimeout = 1
    Limit = 1
    AckAfterRecord = TRUE
    MaxRestarts = 1
INVARIANTS
    UndeliveredMeansAnnounced
PROPERTIES
    HeardIsNotAnnounced
    SilenceIsNoticed
CHECK_DEADLOCK FALSE
