SPECIFICATION Spec
CONSTANTS
    v1 = v1
    v2 = v2
    Values = {v1, v2}
    Orders = {0, 1}
    Kinds = {"beforeCommit", "beforeCompletion", "afterCommit", "afterCompletion",
             "savepoint", "savepointRollback"}
    Recovers = TRUE
    MaxCallbacks = 2
    MaxDepth = 3
CHECK_DEADLOCK FALSE
INVARIANTS
    OutcomeTruthful
    DoomedNeverCommits
    FailedNestedNeverCommits
    NoLeakedTransaction
    AfterCallbacksRun
    CallbacksInOrder
    HooksTellTheOutcome
