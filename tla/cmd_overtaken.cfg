SPECIFICATION Spec
CONSTANTS
    Letters = {"a", "q"}
    CmdMax = 2
    BufR = 3
    Hosts = {FALSE}
    MaxTyped = 4
    MaxCalls = 0
INVARIANT CrEndsLine
