CONSTANTS
    r1 = r1
    r2 = r2
    source = source
    codeql = codeql
    NoRun = NoRun
    NoEngine = NoEngine
    NoSig = NoSig
    Runs <- OneRun
    Signatures <- OneEngine
    NFiles = 2
    MaxEdits = 2
    MaxTroubles = 2
    Projects = 2
    EditsDuringRuns = FALSE
    Reverts = FALSE
    ParseBeforeInventory = FALSE
    AllowResume = FALSE
    AllowTimeout = TRUE
    AllowProgressHtml = FALSE
SPECIFICATION Spec
INVARIANTS
    NoCutFlowIsResumable
