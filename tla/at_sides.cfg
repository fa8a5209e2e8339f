SPECIFICATION Spec
CONSTANTS
    Regs <- UsedRegs
    Addrs = {"host"}
    Ports = {}
    Services = {}
    Telnet = "23"
    PortZero = "0"
    Terms = {"vt100"}
    TERM = "vt100"
    Args <- SideArgs
    BinDefault = FALSE
INVARIANT BinarySides
