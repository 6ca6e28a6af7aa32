CONSTANTS
    Callers = {c1}
    IdSpace = 8
    MaxCalls = 2
    MaxUnasked = 1
    MaxConnects = 1
SPECIFICATION FairSpec
CHECK_DEADLOCK FALSE
INVARIANTS
    WatchSeesItsReport
PROPERTIES
    ReadyCallReturns
    RegisteredCallReturns
    BacklogIsRead
    DisconnectReturns
