SPECIFICATION DatabaseSpec
CONSTANTS
    DbSessions = {s1, s2, s3}
    DbAdapters = {"sqlite"}
    AbortModes = {FALSE}
    MaxWrites = 1
    MaxBegins = 2
    MaxSavepoints = 0
    SharedConn = SharedConn
PROPERTIES BeginReturns
CHECK_DEADLOCK FALSE
