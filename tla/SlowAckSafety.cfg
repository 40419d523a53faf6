SPECIFICATION Spec
CONSTANTS
    Messages = {m1, m2, m3}
    MaxHeld = 2
    Prefetch = 3
    Recycle = TRUE
    NoMessage = NoMessage
SYMMETRY Symmetry
INVARIANTS
    TypeOK
    HeldWithinLimit
    HeldCountAccurate
    DeliveriesAccounted
    EventsFindTarget
PROPERTIES
    ImplementsLedger
