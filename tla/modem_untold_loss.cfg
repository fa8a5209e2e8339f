SPECIFICATION Spec
CONSTANTS
    FD = {f1}
    NoFd = NoFd
    MaxAddr = 1
    RingMax = 1
    MaxCallers = 1
    Lines <- CallLines
    HostCalls = {"hangup", "escape"}
    AppIO = TRUE
    Listening = FALSE
PROPERTY LossReported
