\* One of two parallel searches fails and the run stops without an answer.
SPECIFICATION PlannerSpec
CONSTANTS
    Tasks <- PlannerTasks
    Patches <- Shapes
    Requests <- Comparisons
    Finds = {2}
    Executors = {e1, e2}
    MaxWorkers = 2
    Limits = {Unlimited}
    Unlimited = Unlimited
    MaxActive = 1
INVARIANTS
    StopsFinishedOrWaiting
CHECK_DEADLOCK FALSE
