SPECIFICATION FairSpec
CONSTANTS
    CallbackTags = {c}
    GeneratorTags = {g}
    Timers = {t}
    MaxCalls = 3
    MaxDeliveries = 1
    MaxNotices = 1
    None = None
INVARIANTS
    TypeOK
    CallsCleanUp
    EventsAccounted
PROPERTIES
    CallsEnd
CHECK_DEADLOCK FALSE
