SPECIFICATION FairSpec
CONSTANTS
    n1 = n1
    n2 = n2
    l1 = l1
    Nodes = {n1, n2}
    Steady = {n1}
    Attachments <- OneListener
    Deployments <- MCDeployments
    LastMessage = 2
    Budget = 2
    BatchSize = 1
    MaxBatches = 2
CHECK_DEADLOCK FALSE
INVARIANTS
    StoppedLeavesNoClaim
PROPERTIES
    ImplementsAtLeastOnce
    EventuallySettled
    StopTerminates
