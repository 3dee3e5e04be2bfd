SPECIFICATION CompilerSpec
CONSTANTS
    Texts <- LeakTexts
    WellFormed <- MCWellFormed
    Capitalised <- MCCapitalised
    Numerals <- MCNumerals
    LiteralIds <- MCLiteralIds
    Places <- MCPlaces
    Spelling <- MCSpelling
    Library <- MCLibrary
    Globals <- MCGlobals
    TypeDefs <- MCTypeDefs
    Members <- MCMembers
    InstanceMap <- MCInstanceMap
    Programs = {}
    DeclaredCache = {}
    GroundTypes = {}
    Instances = {}
    FirstIndex = 30
    MaxCallDepth = 4
INVARIANT NamesBound
