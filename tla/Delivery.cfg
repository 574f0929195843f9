SPECIFICATION Spec
CONSTANTS
    e1 = e1
    e2 = e2
    d1 = d1
    d2 = d2
    d3 = d3
    d4 = d4
    d5 = d5
    d6 = d6
    d7 = d7
    d8 = d8
    d9 = d9
    NoDelivery = none
    none = none
    Environments <- MCEnvironments
    Deliveries <- MCDeliveries
    EnvironmentOf <- MCEnvironmentOf
    Backoff <- MCBackoff
    Jitter = 0
    Batch = 3
    PerEnvironment = 2
    MaxAttempts = 2
    Threshold = 2
    ProbeAfter = 2
    MaxPass = 1
    MaxLate = 1
    MaxUpsets = 1
INVARIANTS
    EndsAreEarned
PROPERTIES
    AnsweredIsNotResent
    SmallBacklogsShare
    QueueDrains
CHECK_DEADLOCK FALSE
