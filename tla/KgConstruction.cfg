SPECIFICATION Spec
CONSTANTS
    p = p
    l = l
    A = A
    B = B
    d1 = d1
    d2 = d2
    Nodes = {p, l}
    Graphs <- SmallGraphs
    Passing <- SmallPassing
    Names = {A, B}
    Dims = {d1, d2}
    Nobody = Nobody
    Confs <- SmallConfs
    Retries = 1
    MaxFaults = 2
    MaxRuns = 3
INVARIANTS
    KgTypeOK
    ReportHonest
    RebuildAgrees
CHECK_DEADLOCK FALSE
