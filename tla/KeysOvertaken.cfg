SPECIFICATION Spec
CONSTANTS
    X = X
    Y = Y
    f1 = f1
    f2 = f2
    Values = {X}
    Flows = {f1}
    MaxRows = 3
    MaxBoots = 1
    Earlier = FALSE
INVARIANT
    DisabledStaysDisabled
CHECK_DEADLOCK FALSE
