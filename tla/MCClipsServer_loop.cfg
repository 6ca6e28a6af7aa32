SPECIFICATION FairSpec
CONSTANTS
    e1 = e1
    e2 = e2
    home = home
    work = work
    Endpoints = {e1, e2}
    Paths = {home}
    Operations = {"run", "fact", "query", "misrun", "plain"}
    MaxSent = 1
INVARIANTS TypeOK
PROPERTIES EndsOnlyForCause GoneIsRemoved ServesAll
CHECK_DEADLOCK FALSE
