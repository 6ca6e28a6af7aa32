CONSTANTS
    Consumers = {c1, c2, c3}
    MaxProduced = 4
SPECIFICATION FairSpec
INVARIANTS TypeOK NoLostWakeup
PROPERTIES IsFifo
CHECK_DEADLOCK FALSE
