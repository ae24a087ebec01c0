SPECIFICATION Spec
CONSTANTS
    h1 = h1
    h2 = h2
    None = None
    Handlers = {h1, h2}
    Plan <- MCShortPlan
    Components <- MCComponents
    Weight <- MCWeight
    Recorded <- MCRecorded
    Interim = 1
    MaxCollections = 2
    Faults = TRUE
INVARIANTS
    LockGuardsSupervisor
    StopReachesProcess
PROPERTY
    ImplementsLifecycle
SYMMETRY Interchangeable
CHECK_DEADLOCK FALSE
