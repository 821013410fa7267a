\* A refused patch aborts run() and leaves its coroutines working beside the next call.
SPECIFICATION Spec
CONSTANTS
    Tasks <- MCTasks
    Patches <- FewPatches
    Executors = {e1, e2}
    MaxWorkers = 2
    Limits = {Unlimited}
    Unlimited = Unlimited
    MaxActive = 1
SYMMETRY Interchangeable
INVARIANTS
    BoundedParallelWork
CHECK_DEADLOCK FALSE
