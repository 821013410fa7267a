\* A streamed task is cancelled while its handler runs.
SPECIFICATION Spec
CONSTANTS
    Ids = {t1}
    Kinds = {"stream"}
    PushAttempts = 1
    MaxCrashes = 0
PROPERTIES
    CanceledStays
CHECK_DEADLOCK FALSE
