SPECIFICATION SpecBuilt
CONSTANTS
    Char <- Letters
    LONG_MAX = 127
    INT_MAX = 15
    c1 = c1
    c2 = c2
    Client <- One
    Commands <- PrefixCommands
    MaxCommands = 2
    MaxKills = 0
PROPERTY FolderFoundByName
CHECK_DEADLOCK FALSE
