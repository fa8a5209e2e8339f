SPECIFICATION LoweringSpec
CONSTANTS
    TensPerSec = 3
    MsPerTen = 1
    UsecPerMs = 1
    S12s = {0, 1}
    BufR = 3
    Worlds <- AllWorlds
    Start <- Began
    Horizon = 5
    MaxTyped = 4
    MaxCalls = 2
INVARIANT TypeOK NoEscapeMissed
PROPERTY EscapeIsEarned
CHECK_DEADLOCK FALSE
