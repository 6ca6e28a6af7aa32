CONSTANTS
    Callers = {c1}
    IdSpace = 4
    MaxCalls = 3
    MaxUnasked = 0
    MaxConnects = 2
SPECIFICATION Spec
CHECK_DEADLOCK FALSE
INVARIANTS
    AbortedByDisconnect
    OwnAnswer
PROPERTIES
    KeepsContract
