SPECIFICATION FairSpec
CONSTANTS
    Tags = {a, b}
    MaxCalls = 4
    MaxDeliveries = 1
INVARIANTS
    TypeOK
    RpcInFlight
    ConsumersAgree
PROPERTIES
    CloseCompletes
CHECK_DEADLOCK FALSE
