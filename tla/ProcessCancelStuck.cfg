SPECIFICATION FairSpec
CONSTANTS
    Clients = {c1, c2}
    MaxStarts = 1
    MaxRetained = 1
    Streams = {}
    PipeCapacity = 1
    OutputMax = 1
    ChildOutput = 0
    StdinOpen = {TRUE}
    Inputs = {2}
    KillFails = {FALSE}
PROPERTIES CancelReturns
