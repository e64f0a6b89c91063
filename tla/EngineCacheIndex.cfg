CONSTANTS
    i1 = i1
    i2 = i2
    c1 = c1
    old = old
    new = new
    other = other
    NoRun = NoRun
    None = None
    Broken = Broken
    Indexers <- TwoIndexers
    Comparers <- Nobody
    Sources <- ThreeSources
    Engines = {"codeql", "joern"}
    CrossDevices = {TRUE, FALSE}
    CleanupFails = FALSE
    MaxEdits = 2
    MaxTroubles = 2
SPECIFICATION Spec
INVARIANTS
    StampVouches
    AnswersAreOfProjection
    OpenedIsThere
SYMMETRY SameRole
