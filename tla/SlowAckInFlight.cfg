SPECIFICATION Spec
CONSTANTS
    Messages = {m1, m2}
    MaxHeld = 1
    Prefetch = 2
    Recycle = FALSE
    NoMessage = NoMessage
SYMMETRY Symmetry
INVARIANT HeldInFlightWithinLimit
