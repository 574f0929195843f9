SPECIFICATION Spec
CONSTANTS
    p1 = p1
    Callers = {p1}
    MaxCalls = 2
    MaxSockets = 3
    MaxQueue = 1
    MaxUpsets = 2
    Codes <- MCCodes
INVARIANTS
    TypeOK
    SendableIsKnown
    OutageIsRetried
PROPERTIES
    Recovers
    KeepsSlot
CHECK_DEADLOCK FALSE
