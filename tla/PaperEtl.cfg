SPECIFICATION FairSpec
CONSTANTS
    a1 = a1
    a2 = a2
    Authors = {a1, a2}
    NumTitles = 4
    Profile <- SharedProfile
    Paper <- OnePaper
    Indexed = {1, 2}
    Later = {4}
    Completable = {1, 3, 4}
    Limit = 2
    Batch = 1
    CheckpointEvery = 2
    MaxPerRun = 2
    Retries = 1
    MaxFaults = 2
    MaxTriggers = 1
INVARIANTS
    EtlTypeOK
    CoveredAuthor
    OncePerRun
PROPERTIES
    ScopusKept
    PaidWorkKept
    EventuallyLoaded
CHECK_DEADLOCK FALSE
