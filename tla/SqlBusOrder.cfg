SPECIFICATION Spec
CONSTANTS
    n1 = n1
    n2 = n2
    Nodes = {n1, n2}
    Hosts = {n1, n2}
    Messages = {1, 2}
    Publisher <- TakeTurns
    PublishModes = {"open"}
    Faulty = {n1}
    Skew <- Ahead
    Grace = 2
    Lease = 1
    MaxTx = 1
    MaxAttempts = 2
    RetryDelays = {0}
    BatchSize = 1
    Orderings = {"FIFO"}
    Dialect = "sqlite"
    MaxTime = 3
INVARIANTS
    FrontierComplete
    NoLateCommit
    SerialWithinLease
PROPERTIES
    FifoInOrder
