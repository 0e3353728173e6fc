SPECIFICATION Spec
CONSTANTS
    Slots = {c1, c2}
    Calls = {s1, s2, s3, "tables", "views", "columns", "indexes", "constraints",
             "triggers", "routines", "sequences"}
    Probe = Probe
    NoSlot = NoSlot
    NoOutcome = NoOutcome
    Databases <- MCDatabases
    MaxChanges = 2
INVARIANTS
    PoolTypeOK
    ReadOnlyBeforeUse
    StableRelationsAreExact
PROPERTIES
    KeepsBackendContract
    CallsLeaveThePool
CHECK_DEADLOCK FALSE
