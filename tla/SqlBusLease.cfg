SPECIFICATION Spec
CONSTANTS
    n1 = n1
    n2 = n2
    Nodes = {n1, n2}
    Hosts = {n1, n2}
    Messages = {1}
    Publisher <- FirstPublishes
    PublishModes = {"open", "auto"}
    Faulty = {n1, n2}
    Skew <- Level
    Grace = 1
    Lease = 1
    MaxTx = 1
    MaxAttempts = 2
    RetryDelays = {1}
    BatchSize = 1
    Orderings = {"UNORDERED", "FIFO"}
    Dialect = "postgres"
    MaxTime = 3
INVARIANTS
    TypeOK
    LeaseProtects
    ExhaustionExact
    RunsPublishedOnly
PROPERTIES
    CompletedIsFinal
