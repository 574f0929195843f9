SPECIFICATION Spec
CONSTANTS
    e1 = e1
    k1 = k1
    t1 = t1
    t2 = t2
    s1 = s1
    s2 = s2
    Envs = {e1}
    Keys = {k1}
    Tickets = {t1, t2}
    Streams = {s1, s2}
    Home <- MCHome
    MaxPending = 1
    MaxEvents = 3
INVARIANTS
    NoGap
PROPERTIES
    TicketBuysOneStream
    OverflowIsTold
    GoneIsReleased
CHECK_DEADLOCK FALSE
