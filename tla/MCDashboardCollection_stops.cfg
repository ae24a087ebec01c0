SPECIFICATION FairSpec
CONSTANTS
    h1 = h1
    h2 = h2
    None = None
    Handlers = {h1, h2}
    Plan <- MCPlan
    Components <- MCComponents
    Weight <- MCWeight
    Recorded <- MCRecorded
    Interim = 2
    MaxCollections = 1
    Faults = FALSE
INVARIANTS
    TypeOK
    CutShortIsRecorded
PROPERTY
    EveryRequestEnds
CHECK_DEADLOCK FALSE
