SPECIFICATION Spec
CONSTANTS
    n1 = n1
    n2 = n2
    m1 = m1
    Hosts = {n1, n2}
    Maintainers = {n2}
    Messages = {m1}
    Clusters <- LongClusters
    Grace = 2
    MaxTx = 1
    MaxStall = 1
    Expiry = 3
    Retention = 4
    MaxAge = 5
    LiveDetach = FALSE
CHECK_DEADLOCK FALSE
INVARIANT
    FrontierScanned
