SPECIFICATION SpecBuilt
CONSTANTS
    Char <- Letters
    LONG_MAX = 127
    INT_MAX = 15
    c1 = c1
    c2 = c2
    Client <- Two
    Commands <- SharedCommands
    MaxCommands = 4
    MaxKills = 1
SYMMETRY Symmetry
INVARIANTS
    IdsBelowCounter
    ParentBelowChild
    NoDanglingEntry
PROPERTIES
    NothingLost
    CrashHasCause
CHECK_DEADLOCK FALSE
