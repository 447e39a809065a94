SPECIFICATION SharedSpec
CONSTANTS
    None = None
    NoDoc = NoDoc
    NoCall = NoCall
    \* Three jobs: an owner, the job it lost its slot to, and a third that may
    \* take the slot while both are still running.
    Nodes = {n1, n2}
    Threads = {t1, t2, t3}
    MaxGen = 5
    \* A refresh and a reader, or two refreshes.
    Callers = {c1, c2}
    Catalogs <- TwoCatalogs
    MaxCommits = 2
    \* Two that write at once, or one beside a reader.
    Savers = {s1, s2}
    MaxDocs = 2
    MaxSaves = 3
    ReuseIds = FALSE
    \* A host that gives one of two nodes for two days at a time; the first node
    \* may be used up half way to its limit.
    Hash <- TwoNodeHash
    Smear <- ShiftedByOne
    HostNodes = {1, 2}
    AddressSubset <- OneOfTwo
    Limit = 2
    Cutoff = 50
    Busy = {1}
    MaxUsed = 1
    PinChoices <- FirstPinned
    Ttls = {1}
    MaxDay = 2
    MaxChanges = 2
INVARIANTS
    TypeOK
    SlotHasOneOwner
    TokensDistinct
    CacheSound
    AddressesSound
PROPERTIES
    ImplementsLock
    HostsSavedWhole
    DocumentsSound
    StableWithinEpoch
CHECK_DEADLOCK FALSE
