SPECIFICATION Spec
CONSTANTS
    Regs <- UsedRegs
    Addrs = {"host"}
    Ports = {"80"}
    Services = {"name"}
    Telnet = "23"
    PortZero = "0"
    Terms = {"vt100"}
    TERM = "vt100"
    Args <- TypedArgs
    BinDefault = FALSE
INVARIANT TypeOK NegotiatedAsSet DialsWhatIsAsked
