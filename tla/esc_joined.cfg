SPECIFICATION Spec
CONSTANTS
    TensPerSec = 3
    MsPerTen = 1
    UsecPerMs = 1
    S12s = {1}
    BufR = 4
    Worlds <- Embedded
    Start <- Began
    Horizon = 7
    MaxTyped = 4
    MaxCalls = 1
PROPERTY EscapeHasWait
CHECK_DEADLOCK FALSE
