CONSTANTS
    Callers = {c1}
    IdSpace = 8
    MaxCalls = 1
    MaxUnasked = 9
    MaxConnects = 1
    Endpoints = {1, other}
    Paths = {home}
    Operations = {"toggle", "query", "misrun"}
    OtherOperations = {"toggle", "misrun"}
    MaxSent = 1
SPECIFICATION SystemSpec
INVARIANTS ShowsStatusInForce
PROPERTIES ServerAsAssumed
CHECK_DEADLOCK FALSE
VIEW View
