\* A resume requested while the first call of run() is still under way.
SPECIFICATION FairSpec
CONSTANTS
    Tasks <- MCTasks
    Patches <- FewPatches
    Executors = {e1, e2}
    MaxWorkers = 2
    Limits = {Unlimited}
    Unlimited = Unlimited
    MaxActive = 2
INVARIANTS
    FinishedIsQuiescent
    OneOutcomePerTask
    JournalTellsState
PROPERTIES
    KeepsNodeLifecycle
    RunReturns
CHECK_DEADLOCK FALSE
