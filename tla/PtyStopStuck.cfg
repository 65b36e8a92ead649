SPECIFICATION EchoSpec
CONSTANTS
    PtyClients = {c1, c2}
    MaxSessions = 1
    MaxRetainedPtys = 1
    TtyCapacity = 1
    PtyOutputMax = 1
    PtyChildOutput = 2
    PtyInputs = {2}
PROPERTIES StopReturns
CHECK_DEADLOCK FALSE
