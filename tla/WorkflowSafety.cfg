SPECIFICATION FairSpec
CONSTANTS
    Addresses <- ThreeHosts
    Attempts = 2
    MaxAborts = 2
INVARIANTS
    TypeOK
    OutcomeReported
    AbandonedConnectionCloses
PROPERTIES
    WorkflowEnds
CHECK_DEADLOCK FALSE
