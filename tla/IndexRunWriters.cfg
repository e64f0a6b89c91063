CONSTANTS
    r1 = r1
    r2 = r2
    source = source
    codeql = codeql
    NoRun = NoRun
    NoEngine = NoEngine
    NoSig = NoSig
    Runs <- TwoRuns
    Signatures <- OneEngine
    NFiles = 2
    MaxEdits = 1
    MaxTroubles = 1
    Projects = 2
    EditsDuringRuns = FALSE
    Reverts = TRUE
    ParseBeforeInventory = TRUE
    AllowResume = TRUE
    AllowTimeout = FALSE
    AllowProgressHtml = FALSE
SPECIFICATION Spec
SYMMETRY AnyProcess
INVARIANTS
    CheckpointHoldsItsPrefix
    SettledMissesNothing
