\* Does disabling a node stop Xray on it?
CONSTANTS
    n1 = n1
    t1 = t1
    t2 = t2
    o1 = o1
    o2 = o2
    o3 = o3
    Nodes = {n1}
    Threads = {t1, t2}
    Objects = {o1, o2, o3}
    None = None
    Permits = 2
    Retries = 1
    MaxReconnects = 1
    MaxAdmin = 1
    MaxBoots = 0
    MaxFaults = 0
    MaxTrouble = 3

SPECIFICATION Spec
SYMMETRY Symmetry
INVARIANT DisabledIsStopped
