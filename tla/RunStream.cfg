SPECIFICATION FairSpec
CONSTANTS
    Askers = {a1}
    RunKinds = {"loading", "finished"}
    RunStatuses = {"cancel_requested", "completed"}
    PageLimit = 2
    MaxLog = 3
    MaxTrips = 1
    MaxCuts = 1
    MaxOutages = 1
    MaxExpiries = 1
    MaxOvertakes = 1
    MaxTroubles = 2
INVARIANTS
    StreamTypeOK
    NothingAfterClose
PROPERTIES
    NoGap
    NoReplay
    StopsAtTheEnd
    PageSettles
CHECK_DEADLOCK FALSE
