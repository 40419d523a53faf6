SPECIFICATION FairSpec
CONSTANTS
    MaxWritten = 3
    MaxRecords = 4
    MaxConsume = 2
    MaxRoom = 1
    None = None
INVARIANTS
    TypeOK
    OneOutcomeEach
    WatchesAndBuffersAgree
PROPERTIES
    StreamProgresses
CHECK_DEADLOCK FALSE
