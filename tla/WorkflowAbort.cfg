SPECIFICATION Spec
CONSTANTS
    Addresses <- OneHost
    Attempts = 1
    MaxAborts = 1
INVARIANTS
    AbortLeavesNoConnection
CHECK_DEADLOCK FALSE
