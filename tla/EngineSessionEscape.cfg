CONSTANTS
    Timeout = 1
    Slack = 1
    MaxRoots = 0
    Escapes = "forever"
    Engines <- OnlyJoern
SPECIFICATION FairSpec
PROPERTIES
    PassEnds
