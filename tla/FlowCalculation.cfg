CONSTANTS
    r1 = r1
    r2 = r2
    c1 = c1
    source = source
    codeql = codeql
    NoRun = NoRun
    NoEngine = NoEngine
    NoSig = NoSig
    Runs <- OneRun
    Signatures <- EngineOrNone
    Calculators <- OneCalculator
    NFiles = 2
    MaxEdits = 2
    MaxTroubles = 2
    MaxCalculations = 2
    Projects = 1
    EditsDuringRuns = FALSE
    Reverts = FALSE
    ParseBeforeInventory = FALSE
    AllowResume = TRUE
    AllowTimeout = FALSE
    AllowProgressHtml = FALSE
    OtherLimits = FALSE
SPECIFICATION CalculationSpec
INVARIANTS
    SettledMissesNothing
    CheckpointHoldsItsPrefix
PROPERTIES
    ResumeKeepsProgress
    CalculationGivesIndexFlows
