SPECIFICATION Spec
CONSTANTS
    TypeDefs <- MCTypeDefs
    Members <- MCMembers
    InstanceMap <- MCInstanceMap
    Programs <- LostConstraint
    DeclaredCache <- MCDeclaredCache
    GroundTypes <- MCGroundTypes
    Instances <- MCInstances
    FirstIndex = 30
    MaxCallDepth = 4
INVARIANT InstancesFound
