SPECIFICATION Spec
CONSTANTS
    e1 = e1
    e2 = e2
    w1 = w1
    w2 = w2
    Events = {e1, e2}
    Workers = {w1, w2}
    Orderings = {"FIFO"}
    Readings <- MCReadings
    MaxAttempts = 2
    MaxResubmits = 0
CHECK_DEADLOCK FALSE
PROPERTIES
    FifoStrictly
