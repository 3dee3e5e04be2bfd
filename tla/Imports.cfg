SPECIFICATION Spec
CONSTANTS
    Programs <- MCPrograms
    ImplicitModules <- MCImplicitModules
INVARIANTS
    TypeOK
    VisibleExact
    VariantsAgree
    ReportsExact
    LookupsSound
