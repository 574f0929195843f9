SPECIFICATION Spec
CONSTANTS
    p1 = p1
    Callers = {p1}
    MaxCalls = 2
    MaxSockets = 3
    MaxQueue = 1
    MaxUpsets = 2
    Codes <- MCCodes
PROPERTY
    QrIsOfTheLiveSocket
CHECK_DEADLOCK FALSE
