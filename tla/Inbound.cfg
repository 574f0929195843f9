SPECIFICATION Spec
CONSTANTS
    e1 = e1
    e2 = e2
    theirs = theirs
    own = own
    d1 = d1
    d2 = d2
    Envs = {e1, e2}
    Messages = {theirs, own}
    Mine = {own}
    NoPeer = {}
    Retirers = {d1, d2}
    MaxResends = 1
    MaxChanges = 3
    MaxFaults = 1
SYMMETRY MCSymmetry
INVARIANTS
    UnreadIsExact
    EachBindingRecords
    ForgottenIsGone
CHECK_DEADLOCK FALSE
