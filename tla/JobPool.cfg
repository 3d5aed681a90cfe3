SPECIFICATION Spec
CONSTANTS
    NTargets = 4
    Jobs = 2
INVARIANTS
    TypeOK
    PoolBound
    ReportIsComplete
    SyncSeesEveryQueue
PROPERTIES
    FreeSlotIsFilled
    Terminates
CHECK_DEADLOCK FALSE
