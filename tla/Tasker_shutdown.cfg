SPECIFICATION FairSpec
CONSTANTS
    Tasks = {t1}
    Workers = {w1}
    None = None
    MaxDbFailures = 0
    MaxStops = 1
PROPERTIES
    ShutdownCompletes
CHECK_DEADLOCK FALSE
