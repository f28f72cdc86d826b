SPECIFICATION SpecFresh
CONSTANTS
    Char <- Letters
    LONG_MAX = 127
    INT_MAX = 15
    c1 = c1
    c2 = c2
    Client <- Two
    Commands <- MakeCommands
    MaxCommands = 0
    MaxKills = 0
INVARIANT RootedWhenCreated
CHECK_DEADLOCK FALSE
