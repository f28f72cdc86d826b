SPECIFICATION Spec
CONSTANTS
    Char <- Letters
    LONG_MAX = 127
    INT_MAX = 15
    maker = maker
    changer = changer
    reader = reader
    Client <- Three
    Calls <- ThreeProcesses
    MaxCalls = 3
INVARIANTS StableFound StableListed GoneForGood CrashNeedsUnfinished
CHECK_DEADLOCK FALSE
