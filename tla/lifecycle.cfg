SPECIFICATION ProgramSpec
CONSTANTS
    MaxFd = 6
    MaxAddr = 2
    Lists = {"L1", "L2"}
INVARIANTS
    TypeOK
    Accounted
    ListsAreFreed
    RunsAsAsked
PROPERTY
    DialEnds
CHECK_DEADLOCK FALSE
