SPECIFICATION FairSpec
CONSTANTS
    ChannelMax = 2
    MaxLives = 2
    MaxContents = 1
    MaxBlocks = 1
INVARIANTS
    TypeOK
    EndsOnce
    FramesInPlace
PROPERTIES
    CloseEnds
CHECK_DEADLOCK FALSE
