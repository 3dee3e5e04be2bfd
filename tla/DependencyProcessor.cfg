SPECIFICATION MCSpec
CONSTANTS
    Universe = {1, 2, 3, 4}
    MaxDeps = 2
INVARIANTS
    TypeOK
    GroupsSound
    GroupsComplete
    NoCyclicGroups
    DependenciesFirst
    EachItemOnce
PROPERTIES
    Terminates
    ImplementsOrder
