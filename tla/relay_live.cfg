SPECIFICATION FairSpec
CONSTANTS
    Data = {a}
    BufR = 3
    Soft = 1
    LineMax = 1
    TermLen = 1
    Raws = {FALSE}
    Hosts = {FALSE}
    Greeting = 1
    Requests = 0
    Opts = {"SGA"}
    MaxTyped = 2
    MaxSaid = 1
    MaxBoth = 3
PROPERTY TypedIsTaken
