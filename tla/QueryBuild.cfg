SPECIFICATION Spec
CONSTANTS
    NoSchema = NoSchema
    Unset = Unset
    Star = Star
    NoKey = NoKey
    Names <- MCNames
    ValidIdentifiers <- MCValidIdentifiers
    Operators <- MCOperators
    Policies <- MCPolicies
    Requests <- MCRequests
    Builders = {b1}
    MaxReloads = 2
CHECK_DEADLOCK FALSE
INVARIANTS
    TypeOK
    UndisturbedBuildIsExact
    PlanCoveredWhileBuilding
    PlaceholdersBindTheirValues
    PanicMeansKeyRemoved
