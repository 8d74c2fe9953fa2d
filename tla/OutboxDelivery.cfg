SPECIFICATION FairSpec
CONSTANTS
    e1 = e1
    l1 = l1
    r1 = r1
    r2 = r2
    Events = {e1}
    Listeners = {l1}
    Resubmitters = {r1, r2}
    PublishModes = {"open", "auto"}
    CompletionMode <- Mixed
    MaxFaults = 3
CHECK_DEADLOCK FALSE
INVARIANTS
    OneHolderPerGeneration
    ArchivedOnceSettled
    SettledByItsDelivery
PROPERTIES
    ImplementsAtLeastOnce
    EventuallySettled
