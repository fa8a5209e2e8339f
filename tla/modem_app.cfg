SPECIFICATION Spec
CONSTANTS
    FD = {f1, f2}
    NoFd = NoFd
    MaxAddr = 2
    RingMax = 1
    MaxCallers = 1
    Lines <- CallLines
    HostCalls = {"hangup", "escape", "dtr", "atcmd"}
    AppIO = TRUE
    Listening = TRUE
SYMMETRY Symmetric
INVARIANT EscapeIsForThisCall LastWordIsTrue DialHasAddress
PROPERTY OnlyEscapeHidesLoss CycleSafe
