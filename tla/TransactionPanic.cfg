SPECIFICATION Spec
CONSTANTS
    v1 = v1
    v2 = v2
    Values = {v1}
    Orders = {0}
    Kinds = {"beforeCommit", "beforeCompletion", "afterCommit", "afterCompletion",
             "savepoint", "savepointRollback"}
    Recovers = TRUE
    MaxCallbacks = 1
    MaxDepth = 2
CHECK_DEADLOCK FALSE
INVARIANTS
    PanicAborts
