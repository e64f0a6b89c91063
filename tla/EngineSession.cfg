CONSTANTS
    Timeout = 2
    Slack = 1
    MaxRoots = 2
    Escapes = "briefly"
    Engines <- BothEngines
SPECIFICATION FairSpec
INVARIANTS
    FailureIsItsOwn
    NothingOutlivesItsCommand
    LimitsEndWithPhase
PROPERTIES
    OnlyWholeAnswers
    PassEnds
