SPECIFICATION Spec
CONSTANTS
    Fds = {f1, f2}
    MaxObjects = 3
    MaxPolls = 2
    MaxDepth = 2
INVARIANTS
    TypeOK
    ViewsAgree
PROPERTIES
    EventsOfOwnRegistration
