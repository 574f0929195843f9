SPECIFICATION Spec
CONSTANTS
    c1 = c1
    c2 = c2
    c3 = c3
    otp = otp
    notice = notice
    Callers <- MCCallers
    Bodies <- MCBodies
    BodyOf <- MCBodyOf
    TTL = 2
    Prompt = TRUE
    ThrowsAfterTaking = TRUE
    MaxTime = 1
INVARIANTS
    OncePerWindow
SYMMETRY MCSymmetry
CHECK_DEADLOCK FALSE
