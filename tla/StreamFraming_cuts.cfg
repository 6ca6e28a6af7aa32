SPECIFICATION FairSpec
CONSTANTS
    Receivers = {"client", "session"}
    Sizes = {3, 5}
    MaxMessages = 4
INVARIANTS TypeOK Aligned OneStalled
PROPERTIES PredecessorDelivered
CHECK_DEADLOCK FALSE
