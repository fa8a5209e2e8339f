SPECIFICATION Spec
CONSTANTS
    FD = {f1, f2}
    NoFd = NoFd
    MaxAddr = 2
    RingMax = 2
    MaxCallers = 1
    Lines <- TtyLines
    HostCalls = {}
    AppIO = FALSE
    Listening = TRUE
SYMMETRY Symmetric
INVARIANT TypeOK NoFdLeak SocketIsCall NothingStuckToLine OffHookNotRinging
PROPERTY LiveCallKept FailureReported ConnectMeansCarrier
