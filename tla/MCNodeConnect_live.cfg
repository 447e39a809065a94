\* Recovery from a failure at any point.
CONSTANTS
    n1 = n1
    t1 = t1
    t2 = t2
    o1 = o1
    o2 = o2
    o3 = o3
    Nodes = {n1}
    Threads = {t1, t2}
    Objects = {o1, o2, o3}
    None = None
    Permits = 1
    Retries = 2
    MaxReconnects = 1
    MaxAdmin = 0
    MaxBoots = 0
    MaxFaults = 1
    MaxTrouble = 3

SPECIFICATION FairSpec
PROPERTY NeverGivenUp
