SPECIFICATION FairSpec
CONSTANTS
    FD = {f1}
    NoFd = NoFd
    MaxAddr = 2
    RingMax = 1
    MaxCallers = 1
    Lines <- LiveLines
    HostCalls = {}
    AppIO = FALSE
    Listening = TRUE
PROPERTY CycleSpec SessionEnds
