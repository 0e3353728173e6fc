SPECIFICATION Spec
CONSTANTS
    Launches = {l1, l2, l3}
    LastPart = 2
    NoFile = NoFile
INVARIANTS
    BrokenBinaryTakesTwo
    LeftoversDoNoHarm
PROPERTY
    LaunchEnds
CHECK_DEADLOCK FALSE
