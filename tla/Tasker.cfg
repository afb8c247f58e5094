SPECIFICATION FairSpec
CONSTANTS
    Tasks = {t1, t2}
    Workers = {w1, w2}
    None = None
    MaxDbFailures = 1
    MaxStops = 1
INVARIANTS
    TaskerTypeOK
    RunsOnce
    CancelledInQueue
    TableInStep
    NoOrphan
PROPERTIES
    FinalInTable
    TaskEnds
CHECK_DEADLOCK FALSE
