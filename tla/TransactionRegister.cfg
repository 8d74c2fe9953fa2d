SPECIFICATION Spec
CONSTANTS
    v1 = v1
    v2 = v2
    Values = {v1}
    Orders = {0}
    Kinds = {"beforeCommit", "beforeCompletion", "afterCommit", "afterCompletion",
             "savepoint", "savepointRollback"}
    Recovers = FALSE
    MaxCallbacks = 2
    MaxDepth = 1
CHECK_DEADLOCK FALSE
INVARIANTS
    BeforeCommitRuns
