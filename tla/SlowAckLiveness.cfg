SPECIFICATION FairSpec
CONSTANTS
    Messages = {m1, m2}
    MaxHeld = 1
    Prefetch = 2
    Recycle = TRUE
    NoMessage = NoMessage
PROPERTIES
    HoldEndsInSettlement
    ProgramEnds
