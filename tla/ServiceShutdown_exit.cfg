\* main returns although a connection is still being served.
SPECIFICATION ServiceSpec
CONSTANTS
    Conns = {c1}
    NoConn = NoConn
    QueueSize = 1
    CacheSize = 1
    MaxInputs = 1
INVARIANT ExitAfterConnections
CHECK_DEADLOCK FALSE
