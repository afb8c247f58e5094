SPECIFICATION Spec
CONSTANTS
    Cancellers = {c1}
    NoOne = NoOne
    MaxTries = 2
    MaxBody = 1
    MaxFaults = 2
INVARIANTS
    TypeOK
    AttemptInv
    AnnouncedFirst
    CancelNotLost
PROPERTIES
    ImplementsLifecycle
CHECK_DEADLOCK FALSE
