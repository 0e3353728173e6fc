SPECIFICATION Spec
CONSTANTS
    Calls = {c1, c2, c3, c4, c5}
    Clients = {k1, k2}
    MaxRequests = 2
    Window = 2
    MaxDelay = 1
    MaxTime = 4
    NoEntry = NoEntry
SYMMETRY Symmetry
CHECK_DEADLOCK FALSE
INVARIANTS TypeOK QuotaPerWindow WindowsAreDisjoint RejectionsAreEarned BurstBound
PROPERTY WindowOnlyAdvances
