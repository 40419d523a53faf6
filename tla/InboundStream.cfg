SPECIFICATION Spec
CONSTANTS
    Channels = {c1, c2}
    Arguments = {a, b}
    Workloads <- ThreeWorkloads
    MaxBody = 3
    BodyMax = 2
    Timeout = 2
    Margin = 1
    None = None
SYMMETRY Symmetry
INVARIANTS
    TypeOK
    ContentsInOrder
    UsesCounted
    IdleIsIdle
CHECK_DEADLOCK FALSE
