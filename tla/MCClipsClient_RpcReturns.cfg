CONSTANTS
    Callers = {c1}
    IdSpace = 8
    MaxCalls = 1
    MaxUnasked = 0
    MaxConnects = 1
SPECIFICATION FairSpec
CHECK_DEADLOCK FALSE
PROPERTIES
    RpcReturns
