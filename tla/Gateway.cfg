SPECIFICATION Spec
CONSTANTS
    r1 = r1
    r2 = r2
    Requests <- MCRequests
    Policies <- MCPolicies
    Sizes = {1, 2}
    Wirings <- MCWirings
    MaxReloads = 1
    NoAnswer = NoAnswer
    Latencies = {1}
    NoSample = NoSample
CHECK_DEADLOCK FALSE
INVARIANTS
    TypeOK
    AuditPrecedesQuery
    AuditTellsWhatWasSent
    RowsFitALimitOfTheirTime
    MetricsMatchAnswers
PROPERTIES
    KeepsContract
    CallsEnd
