SPECIFICATION FairSpec
CONSTANTS
    e1 = e1
    e2 = e2
    w1 = w1
    w2 = w2
    Events = {e1, e2}
    Workers = {w1, w2}
    Orderings = {"FIFO", "UNORDERED"}
    Readings <- MCReadings
    MaxAttempts = 2
    MaxResubmits = 1
CHECK_DEADLOCK FALSE
INVARIANTS
    ExactlyOnePlace
    NoReadyWorkBesideBlockedWorker
PROPERTIES
    FifoInPublishOrder
    ImplementsBroker
    EventuallySettled
    StopTerminates
