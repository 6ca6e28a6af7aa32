CONSTANTS
    Callers = {c1, c2}
    IdSpace = 8
    MaxCalls = 2
    MaxUnasked = 0
    MaxConnects = 2
SPECIFICATION Spec
CHECK_DEADLOCK FALSE
SYMMETRY Symmetry
INVARIANTS
    TypeOK
    NoLostWakeup
    SuccessIsExecuted
    ReaderHasSocket
