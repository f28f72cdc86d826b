SPECIFICATION SpecBuilt
CONSTANTS
    Char <- Letters
    LONG_MAX = 127
    INT_MAX = 15
    c1 = c1
    c2 = c2
    Client <- Two
    Commands <- OddCommands
    MaxCommands = 3
    MaxKills = 1
SYMMETRY Symmetry
INVARIANT TypeOK
PROPERTY CrashHasCause
CHECK_DEADLOCK FALSE
