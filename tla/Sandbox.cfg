SPECIFICATION FairSpec
CONSTANTS
    Procs = {api, worker}
    Closers = {api}
    KeepAlive = 1
    Latency = 1
    Exec = 1
    Idle = 3
    Ports = 3
    MaxFaults = 1
INVARIANTS
    SandboxTypeOK
    NotPickedInUse
    HeldIsKnown
PROPERTIES
    IdleGoesAway
    Recovers
CHECK_DEADLOCK FALSE
