SPECIFICATION FairSpec
CONSTANTS
    Cancellers = {c1, c2}
    NoOne = NoOne
    MaxTries = 2
    MaxBody = 1
    MaxFaults = 0
INVARIANTS
    CancelledOnRequest
    FirstEndingDecides
PROPERTIES
    RunSettles
CHECK_DEADLOCK FALSE
