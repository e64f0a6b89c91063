CONSTANTS
    Literals <- MCLiterals
    Templates <- MCTemplates
    Allowed <- MCAllowed
    Wild = "**"
    AnyMethod = "ANY"
    Methods <- MCMethods
    None = None
    Aliases <- MCAliases
    Inventories <- WildRoutes
    FactSets <- MCFactSets
    MaxCalculations = 1
SPECIFICATION Spec
INVARIANT
    CompleteMeansDispatched
CHECK_DEADLOCK FALSE
