SPECIFICATION FairBuilt
CONSTANTS
    Char <- Letters
    LONG_MAX = 127
    INT_MAX = 15
    c1 = c1
    c2 = c2
    Client <- Two
    Commands <- FairCommands
    MaxCommands = 3
    MaxKills = 1
PROPERTIES
    CommandReturns
CHECK_DEADLOCK FALSE
