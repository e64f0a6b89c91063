CONSTANTS
    root = root
    a = a
    b = b
    c = c
    none = none
    None = none
    Root = root
    Dirs <- MCDirs
    Above <- MCAbove
    ByDepth <- MCByDepth
    Names <- MCNames
    TestNames <- MCTestNames
    Paths <- MCPaths
    Contents <- MCContents
    Trees <- MCTrees
    MaxEdits = 2
    OutsideInputs = FALSE
SPECIFICATION Spec
INVARIANTS
    RoutesAreCurrent
    ModulesAreCurrent
    SettingsAreCurrent
    AggregatorsDeclareTheirBuild
CHECK_DEADLOCK FALSE
