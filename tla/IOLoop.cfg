SPECIFICATION FairSpec
CONSTANTS
    Timers = {t1, t2, t3}
    Callbacks = {c1}
    MaxTime = 1
    MaxPoll = 1
    GCThreshold = 2
    MaxRaises = 1
    Nothing = Nothing
INVARIANTS
    TypeOK
    NoLostWakeup
    TimeoutsAccounted
PROPERTIES
    RemovedNeverRuns
    EveryCallHasItsTurn
