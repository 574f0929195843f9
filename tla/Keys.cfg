SPECIFICATION Spec
CONSTANTS
    X = X
    Y = Y
    f1 = f1
    f2 = f2
    Values = {X, Y}
    Flows = {f1, f2}
    MaxRows = 3
    MaxBoots = 2
    Earlier = TRUE
SYMMETRY MCSymmetry
INVARIANTS
    TypeOK
    EnvKeyAlone
    TokenMintsOnce
    RevokedIsRefused
CHECK_DEADLOCK FALSE
