SPECIFICATION WaitSpec
CONSTANTS
    Clients = {c1, c2}
    MaxStarts = 1
    MaxRetained = 1
    Streams = {"stdout"}
    PipeCapacity = 2
    OutputMax = 1
    ChildOutput = 2
    StdinOpen = {TRUE}
    Inputs = {2}
    KillFails = {FALSE}
    MaxTasks = 2
    RootLimit = 1
    DefaultLimit = 2
    NoEntry = NoEntry
    SocketClients = {c1, c2}
    SocketProtocols = {"tcp", "websocket"}
    MaxConnections = 1
    MaxListeners = 1
    MaxRetainedSockets = 1
    PtyClients = {c1, c2}
    MaxSessions = 1
    MaxRetainedPtys = 1
    TtyCapacity = 1
    PtyOutputMax = 1
    PtyChildOutput = 2
    PtyInputs = {2}
INVARIANTS OutputAccounted
PROPERTIES JobsEnd CallsReturn OutputDrained AwaitsReturn SocketCallsReturn PtysEnd
CHECK_DEADLOCK FALSE
