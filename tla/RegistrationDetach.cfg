SPECIFICATION Spec
CONSTANTS
    n1 = n1
    n2 = n2
    m1 = m1
    Hosts = {n1, n2}
    Maintainers = {n2}
    Messages = {m1}
    Clusters <- DetachClusters
    Grace = 1
    MaxTx = 1
    MaxStall = 1
    Expiry = 1
    Retention = 2
    MaxAge = 3
    LiveDetach = TRUE
CHECK_DEADLOCK FALSE
INVARIANT
    ModesAgree
