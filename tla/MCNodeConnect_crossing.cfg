\* Two failures or delays, or a failure and a restart of the panel, or one admin
\* request of any kind, crossing the jobs.
CONSTANTS
    n1 = n1
    t1 = t1
    t2 = t2
    o1 = o1
    o2 = o2
    o3 = o3
    Nodes = {n1}
    Threads = {t1, t2}
    Objects = {o1, o2, o3}
    None = None
    Permits = 2
    Retries = 2
    MaxReconnects = 1
    MaxAdmin = 1
    MaxBoots = 1
    MaxFaults = 2
    MaxTrouble = 3

SPECIFICATION Spec
SYMMETRY Symmetry
INVARIANT ConnectedHasVersion
INVARIANT NothingLeaked
PROPERTY SoftKeepsSession
