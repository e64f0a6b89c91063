CONSTANTS
    elastic = elastic
    prometheus = prometheus
    o1 = o1
    o2 = o2
    NoOne = NoOne
    Sources <- BothSources
    Grouping <- OneSource
    Observers <- TwoObservers
    Intervals = {1}
    Keep = 2
    MaxTime = 2
    MaxBatches = 3
    Reports = TRUE
SPECIFICATION Spec
CHECK_DEADLOCK FALSE
SYMMETRY AnyObserver
INVARIANTS
    TypeOK
    HistoryIsWhole
    DepthIsBounded
    PartsOnlyAdvance
PROPERTIES
    OnlyTheOldestLeave
