SPECIFICATION FairSpec
CONSTANTS
    Procs = {api}
    Closers = {}
    KeepAlive = 1
    Latency = 1
    Exec = 1
    Idle = 3
    Ports = 2
    MaxFaults = 0
PROPERTIES
    NoRunningCommandReaped
CHECK_DEADLOCK FALSE
