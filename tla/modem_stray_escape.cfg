SPECIFICATION Spec
CONSTANTS
    FD = {f1, f2}
    NoFd = NoFd
    MaxAddr = 2
    RingMax = 1
    MaxCallers = 1
    Lines <- CallLines
    HostCalls = {"hangup"}
    AppIO = FALSE
    Listening = FALSE
SYMMETRY Symmetric

PROPERTY EscapeWasAsked
