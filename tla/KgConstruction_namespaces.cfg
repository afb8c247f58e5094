SPECIFICATION Spec
CONSTANTS
    p = p
    l = l
    A = A
    B = B
    d1 = d1
    d2 = d2
    Nodes = {p, l}
    Graphs <- SmallGraphs
    Passing <- SmallPassing
    Names = {A, B}
    Dims = {d1, d2}
    Nobody = Nobody
    Confs <- VectorConfs
    Retries = 1
    MaxFaults = 0
    MaxRuns = 2
PROPERTIES
    NamespacesSeparate
CHECK_DEADLOCK FALSE
