SPECIFICATION Spec
CONSTANTS
    NoProfile = NoProfile
    Absent = Absent
    Unreadable = Unreadable
    Unread = Unread
    i1 = i1
    i2 = i2
    t1 = t1
    t2 = t2
    MaxEdits = 1
CONSTANTS
    Tables <- MCTables
    Connections <- MCConnections
    Inits <- MCInits
    Configs <- MCConfigs
    Scenarios <- MCScenarios
INVARIANTS
    TypeOK
    GrantsComeFromTheFile
    OneProfileRules
    BackendIsTheOneAsked
    PoolNeverEmpty
    DoctorForetellsTheStart
    UnforcedInitKeepsTheFile
PROPERTIES
    FailedReloadKeepsPolicy
    StartEnds
CHECK_DEADLOCK FALSE
