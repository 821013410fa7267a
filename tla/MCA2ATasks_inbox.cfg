\* A task of any kind, with a callback that fails, crashes and restarts.
SPECIFICATION FairSpec
CONSTANTS
    Ids = {t1}
    Kinds = {"sync", "slow", "stream"}
    PushAttempts = 3
    MaxCrashes = 2
INVARIANTS
    TypeOK
    OpenTasksAreOwned
    DeliveredIsNotResent
    
PROPERTIES
    OutcomeIsNotReplaced
    KeepsLifecycle
    TasksEnd
CHECK_DEADLOCK FALSE
