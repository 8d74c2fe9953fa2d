SPECIFICATION Spec
CONSTANTS
    n1 = n1
    n2 = n2
    Nodes = {n1, n2}
    Hosts = {n1, n2}
    Messages = {1, 2}
    Publisher <- FirstPublishes
    PublishModes = {"open"}
    Faulty = {}
    Skew <- Level
    Grace = 1
    Lease = 1
    MaxTx = 1
    MaxAttempts = 1
    RetryDelays = {0}
    BatchSize = 1
    Orderings = {"FIFO"}
    Dialect = "postgres"
    MaxTime = 3
INVARIANTS
    SerialWithinLease
