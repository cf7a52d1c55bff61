\* Two connections in every phase of their life when the server is closed.
SPECIFICATION Spec
CONSTANTS
    Conns = {c1, c2}
    NoConn = NoConn
    QueueSize = 1
    CacheSize = 1
    MaxInputs = 2
SYMMETRY ConnSymmetry
INVARIANTS
    TypeOK
    HandlersCancelled
    CleanAfterClose
CHECK_DEADLOCK FALSE
