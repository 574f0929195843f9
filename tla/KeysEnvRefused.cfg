SPECIFICATION Spec
CONSTANTS
    X = X
    Y = Y
    f1 = f1
    f2 = f2
    Values = {X, Y}
    Flows = {}
    MaxRows = 3
    MaxBoots = 3
    Earlier = FALSE
INVARIANT
    EnvKeyAccepted
CHECK_DEADLOCK FALSE
