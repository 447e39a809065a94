SPECIFICATION ServicesSpec
CONSTANTS
    Instances = {j1, j2}
    Final = fin
    Webhooks = {w1, w2}
    Recurrent = 1
    Timeout = 1
    MayHang = FALSE
    MaxSent = 2
    MaxStops = 1
    BsNodes = {n1, n2}
    None = None
    Requests = {r1, r2}
    Health = h
    MaxSaves = 1
    MaxCalls = 2
    MaxDeaths = 1
INVARIANTS AcceptedOnce GivenUpLast CoreAsSaved
PROPERTIES BlocksFollowLimit EverySettles CoreComesBack
CHECK_DEADLOCK FALSE
