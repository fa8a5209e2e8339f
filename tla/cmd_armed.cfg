SPECIFICATION Spec
CONSTANTS
    Letters = {"q"}
    CmdMax = 1
    BufR = 2
    Hosts = {TRUE}
    MaxTyped = 3
    MaxCalls = 1
PROPERTY QuitNeedsPair
