SPECIFICATION Spec
CONSTANTS
    Letters = {"a", "q"}
    CmdMax = 2
    BufR = 3
    Hosts = {TRUE, FALSE}
    MaxTyped = 4
    MaxCalls = 1
INVARIANT TypeOK LinesAreRun TypeAheadKept
PROPERTY QuitIsAsked
