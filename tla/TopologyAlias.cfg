CONSTANTS
    Literals <- MCLiterals
    Templates <- MCTemplates
    Allowed <- MCAllowed
    Wild = "**"
    AnyMethod = "ANY"
    Methods <- MCMethods
    None = None
    Aliases <- MCAliases
    Inventories <- AliasInventories
    FactSets <- MCFactSets
    MaxCalculations = 1
SPECIFICATION Spec
INVARIANT
    UnmatchedCallKeepsItsService
CHECK_DEADLOCK FALSE
