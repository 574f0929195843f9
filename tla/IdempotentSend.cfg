SPECIFICATION Spec
CONSTANTS
    c1 = c1
    c2 = c2
    c3 = c3
    otp = otp
    notice = notice
    Callers <- MCCallers
    Bodies <- MCBodies
    BodyOf <- MCBodyOf
    TTL = 2
    Prompt = TRUE
    ThrowsAfterTaking = FALSE
    MaxTime = 4
INVARIANTS
    OncePerWindow
PROPERTIES
    SendsOnce
SYMMETRY MCSymmetry
CHECK_DEADLOCK FALSE
