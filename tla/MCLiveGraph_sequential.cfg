\* Calls of run() one after the other, crashes and exceptions between them;
\* a worker need not end of its own accord.
SPECIFICATION StubbornSpec
CONSTANTS
    Tasks <- MCTasks
    Patches <- AllPatches
    Executors = {e1, e2}
    MaxWorkers = 2
    Limits = {2, Unlimited}
    Unlimited = Unlimited
    MaxActive = 1
INVARIANTS
    TypeOK
    RunningIsOwned
    CancellationReachesWorkers
    OneUnplannedOutcome
    ReturnsLeaveNothingBehind
    SlotsRespected
PROPERTIES
    StopsForACause
    FinishReleases
CHECK_DEADLOCK FALSE
