SPECIFICATION SpecFresh
CONSTANTS
    Char <- Letters
    LONG_MAX = 127
    INT_MAX = 15
    c1 = c1
    c2 = c2
    Client <- One
    Commands <- SoloCommands
    MaxCommands = 4
    MaxKills = 2
INVARIANTS
    UniqueIds
    LinkMatchesParent
    RootedWhenCreated
CHECK_DEADLOCK FALSE
