SPECIFICATION SocketSpec
CONSTANTS
    SocketClients = {c1, c2}
    SocketProtocols = {"tcp", "websocket"}
    MaxConnections = 2
    MaxListeners = 1
    MaxRetainedSockets = 1
INVARIANT EmptyRegistryHasRoom
CHECK_DEADLOCK FALSE
