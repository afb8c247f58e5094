SPECIFICATION Spec
CONSTANTS
    Askers = {}
    RunKinds = {"loading", "finished"}
    RunStatuses = {"completed"}
    PageLimit = 2
    MaxLog = 3
    MaxTrips = 0
    MaxCuts = 0
    MaxOutages = 1
    MaxExpiries = 0
    MaxOvertakes = 0
    MaxTroubles = 1
PROPERTIES
    KeepsFollowing
CHECK_DEADLOCK FALSE
