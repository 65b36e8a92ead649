SPECIFICATION HostSpec
CONSTANTS
    SocketClients = {c1, c2}
    SocketProtocols = {"tcp", "websocket"}
    MaxConnections = 2
    MaxListeners = 1
    MaxRetainedSockets = 1
    StreamClients = {c1, c2}
    MaxStreams = 1
    MaxRetainedStreams = 1
    BodyMax = 2
    ServerBytes = 3
    ChunkMax = 2
    ReadSizes = {1, 3}
    UploadSize = 2
    PtyClients = {c1, c2}
    MaxSessions = 2
    MaxRetainedPtys = 1
    TtyCapacity = 1
    PtyOutputMax = 1
    PtyChildOutput = 0
    PtyInputs = {2}
    ApprovalClients = {c1, c2}
    ApprovalIds = {a1, a2}
    Tokens = {t1, t2}
    MaxRetainedApprovals = 1
    Lifetimes = {0, NoLifetime}
    MaxClock = 1
    MaxSerial = 2
    NoLifetime = NoLifetime
    WriteClients = {c1, c2}
    Texts = {t1, t2}
    MaxFiles = 3
    Absent = Absent
    Torn = Torn
    Issuers = {c1, c2}
    MaxActions = 3
    MaxDocuments = 3
    MaxPerDocument = 2
    SandboxTools = {"compiler", "linker", "archiver"}
    ToolHelpers <- ToolChain
    HostCommand = "host"
    FailurePlans = {{}, {"cancel", "revocation"}}
    MaxTimestamp = 11
    MaxNumericId = 2
    MaxNativePtyId = 0
    MaxTasks = 3
    RootLimit = 1
    DefaultLimit = 2
    NoEntry = NoEntry
    DbSessions = {c1, c2}
    DbAdapters = {"sqlite", "postgres", "mysql"}
    AbortModes = {TRUE, FALSE}
    MaxWrites = 2
    MaxBegins = 2
    MaxSavepoints = 2
    SharedConn = SharedConn
    Migrators = {c1, c2}
    MaxVersion = 2
    MigrationAdapters = {"sqlite", "postgres", "mysql", "packaged"}
    Repeatable = {2}
    MaxCommands = 4
    Browsers = {c1, c2}
    Viewers = {v1}
    CodeLines = {t1, t2}
    BreakLines = {{}, {t1, t2}}
    FrameNames = {f}
    MaxDebugDepth = 2
    MaxInstructions = 3
    MaxControls = 2
    EventCapacity = 2
    NotSet = NotSet
SYMMETRY HostSymmetry
INVARIANTS SocketsAccounted ReadersComplete PtysAccounted ClaimedOnce
           ActionsPromptOnce ExecutionsControlled PermitsAccounted AwaitsRepeatable
           TransactionsIsolated MigrationsTruthful DebugSessionCoherent
PROPERTIES RegistriesRetained StreamFrozen OpenWorkKept WritesCoordinated
CHECK_DEADLOCK FALSE
