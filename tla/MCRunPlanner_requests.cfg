\* Every kind of request, with worker failures, a crash and a resume.
SPECIFICATION PlannerSpec
CONSTANTS
    Tasks <- PlannerTasks
    Patches <- Shapes
    Requests <- AllRequests
    Finds = {0, 1, 2}
    Executors = {e1, e2}
    MaxWorkers = 2
    Limits = {Unlimited}
    Unlimited = Unlimited
    MaxActive = 1
SYMMETRY Interchangeable
INVARIANTS
    PlannerTypeOK
    NeverRefused
    EvidenceBeforeAnswer
    StallsNeedAFailure
    FactLostOnlyToHaste
CHECK_DEADLOCK FALSE
