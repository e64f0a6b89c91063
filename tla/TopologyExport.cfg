CONSTANTS
    Literals <- MCLiterals
    Templates <- MCTemplates
    Allowed <- MCAllowed
    Wild = "**"
    AnyMethod = "ANY"
    Methods <- MCMethods
    None = None
    Aliases <- MCAliases
    Inventories <- LinkInventories
    FactSets <- MCFactSets
    MaxCalculations = 1
SPECIFICATION Spec
INVARIANT
    ExportSeesTheSite
CHECK_DEADLOCK FALSE
