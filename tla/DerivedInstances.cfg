SPECIFICATION Spec
CONSTANTS
    Declarations <- MCDeclarations
    Classes <- MCClasses
    AutoDerivable <- MCAutoDerivable
    FirstIndex = 10
    Depth = 2
    GroundTypes <- MCGroundTypes
INVARIANTS
    TypeOK
    OneInstance
    RejectedForReason
    DerivedExact
    CacheSound
    TwoPasses
