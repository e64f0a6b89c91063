CONSTANTS
    Literals <- MCLiterals
    Templates <- MCTemplates
    Allowed <- MCAllowed
    Wild = "**"
    AnyMethod = "ANY"
    Methods <- MCMethods
    None = None
    Aliases <- MCAliases
    Inventories <- MCInventories
    FactSets <- MCFactSets
    MaxCalculations = 1
SPECIFICATION Spec
INVARIANTS
    RoutesMatchSharedRequests
    CompleteMeansDispatched
    ExportShowsTheIndexedLinks
CHECK_DEADLOCK FALSE
