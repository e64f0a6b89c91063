CONSTANTS
    i1 = i1
    i2 = i2
    c1 = c1
    old = old
    new = new
    other = other
    NoRun = NoRun
    None = None
    Broken = Broken
    Indexers <- OneIndexer
    Comparers <- Nobody
    Sources <- TwoSources
    Engines = {"codeql"}
    CrossDevices = {TRUE}
    CleanupFails = TRUE
    MaxEdits = 0
    MaxTroubles = 1
SPECIFICATION Spec
INVARIANTS
    AnswersAreOfProjection
