CONSTANTS
    r1 = r1
    r2 = r2
    source = source
    codeql = codeql
    NoRun = NoRun
    NoEngine = NoEngine
    NoSig = NoSig
    Runs <- TwoRuns
    Signatures <- OneEngine
    NFiles = 1
    MaxEdits = 1
    MaxTroubles = 0
    Projects = 2
    EditsDuringRuns = TRUE
    Reverts = FALSE
    ParseBeforeInventory = FALSE
    AllowResume = FALSE
    AllowTimeout = FALSE
    AllowProgressHtml = FALSE
SPECIFICATION Spec
PROPERTIES
    StaleRunNeverPublishes
