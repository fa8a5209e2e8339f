SPECIFICATION Spec
CONSTANTS
    MaxFd = 5
    MaxAddr = 1
    Lists = {"L1", "L2"}
PROPERTY
    FreeReleasesCalls
CHECK_DEADLOCK FALSE
