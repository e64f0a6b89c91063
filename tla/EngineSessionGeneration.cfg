CONSTANTS
    Timeout = 2
    Slack = 1
    MaxRoots = 1
    Escapes = "never"
    Engines <- OnlyJoern
SPECIFICATION Spec
INVARIANTS
    TimeoutIsSoft
