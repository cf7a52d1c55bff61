\* One connection, every ending of it, without symmetry.
SPECIFICATION FairSpec
CONSTANTS
    Conns = {c1}
    NoConn = NoConn
    QueueSize = 2
    CacheSize = 1
    MaxInputs = 4
PROPERTIES
    ShutdownCompletes
    ConnectionsEnd
CHECK_DEADLOCK FALSE
