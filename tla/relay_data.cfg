SPECIFICATION Spec
CONSTANTS
    Data = {a}
    BufR = 3
    Soft = 1
    LineMax = 1
    TermLen = 1
    Raws = {TRUE, FALSE}
    Hosts = {TRUE, FALSE}
    Greeting = 1
    Requests = 1
    Opts = {"OTHER"}
    MaxTyped = 3
    MaxSaid = 3
    MaxBoth = 3
INVARIANT TypeOK TypedGoesOut SaidIsShown LeftoverHasWakeup
