SPECIFICATION Spec
CONSTANTS
    Regs <- UsedRegs
    Addrs = {"host"}
    Ports = {"80"}
    Services = {}
    Telnet = "23"
    PortZero = "0"
    Terms = {"vt100"}
    TERM = "vt100"
    Args <- TermArgs
    BinDefault = FALSE
PROPERTY RefusesTType
