\* One remote node, dispatched twice, cancelled, and resumed over crashes.
SPECIFICATION BridgeSpec
CONSTANTS
    Tasks = {1}
    Patches = {}
    Executors = {e1, e2}
    MaxWorkers = 1
    Limits = {Unlimited}
    Unlimited = Unlimited
    MaxActive = 1
    remote = 1
    Calls = {c1, c2}
    Nobody = Nobody
SYMMETRY Interchangeable
INVARIANTS
    BridgeTypeOK
    ResultsSurviveButCrashes
    ResumptionFits
    SubscriptionsResume
PROPERTIES
    ResumedForAnEnd
CHECK_DEADLOCK FALSE
