CONSTANTS
    Nodes = {n1, n2}
    None = None
    Limits = {0, 1}
    MaxMonth = 3
    MaxUsed = 2
    MaxPool = 2
    MaxSettings = 0
    Straddle = FALSE
SPECIFICATION SettledSpec
INVARIANTS RowsBehindPool ReviewAgreesWithApi
PROPERTIES ImplementsEagerPool
SYMMETRY Symmetry
CHECK_DEADLOCK FALSE
