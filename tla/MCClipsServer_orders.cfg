SPECIFICATION Spec
CONSTANTS
    e1 = e1
    e2 = e2
    home = home
    work = work
    Endpoints = {e1, e2}
    Paths = {home, work}
    Operations = {"toggle", "path"}
    MaxSent = 2
SYMMETRY Symmetry
INVARIANTS AckedInOrder NothingLost ReportBeforeAck StatusTold
PROPERTIES ServesInOrder
CHECK_DEADLOCK FALSE
