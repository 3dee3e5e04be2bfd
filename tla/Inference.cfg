SPECIFICATION Spec
CONSTANTS
    TypeDefs <- MCTypeDefs
    Members <- MCMembers
    InstanceMap <- MCInstanceMap
    Programs <- MCPrograms
    DeclaredCache <- MCDeclaredCache
    GroundTypes <- MCGroundTypes
    Instances <- MCInstances
    FirstIndex = 30
    MaxCallDepth = 4
INVARIANTS
    TypeOK
    ConstraintsAgree
    CheckerPanicsKnown
    ConstructorsTyped
    PrincipalTypes
    RunsCleanly
