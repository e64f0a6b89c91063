CONSTANTS
    r1 = r1
    r2 = r2
    source = source
    codeql = codeql
    NoRun = NoRun
    NoEngine = NoEngine
    NoSig = NoSig
    Runs <- OneRun
    Signatures <- EngineOrNone
    NFiles = 2
    MaxEdits = 2
    MaxTroubles = 2
    Projects = 2
    EditsDuringRuns = FALSE
    Reverts = TRUE
    ParseBeforeInventory = TRUE
    AllowResume = FALSE
    AllowTimeout = TRUE
    AllowProgressHtml = TRUE
SPECIFICATION FairSpec
INVARIANTS
    TypeOK
    SignedSnapshotIsFinished
    FactsAreCurrent
    SettledHasNothingStale
    NoDeletedFileInFlows
PROPERTIES
    PublishesSnapshots
    AlwaysSettlesAgain
