SPECIFICATION Spec
CONSTANTS
    Depth = 1
    FirstPairs <- MCFirstPairs
    LaterPairs <- MCLaterPairs
    MaxCalls = 3
    GroundTypes <- MCGroundTypes
    Instances <- MCInstances
    FirstIndex = 6
INVARIANTS
    Acyclic
    Solves
    MostGeneral
    ConstraintsKept
CHECK_DEADLOCK FALSE
