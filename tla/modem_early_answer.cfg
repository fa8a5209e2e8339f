SPECIFICATION RungSpec
CONSTANTS
    FD = {f1}
    NoFd = NoFd
    MaxAddr = 1
    RingMax = 2
    MaxCallers = 1
    Lines <- DialLine
    HostCalls = {}
    AppIO = FALSE
    Listening = TRUE
PROPERTY AnsweredOnNthRing
