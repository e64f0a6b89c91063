CONSTANTS
    i1 = i1
    i2 = i2
    c1 = c1
    old = old
    new = new
    other = other
    NoRun = NoRun
    None = None
    Broken = Broken
    Indexers <- OneIndexer
    Comparers <- OneComparer
    Sources <- TwoSources
    Engines = {"codeql"}
    CrossDevices = {FALSE}
    CleanupFails = FALSE
    MaxEdits = 1
    MaxTroubles = 0
SPECIFICATION Spec
INVARIANTS
    AnswersAreOfProjection
