\* Two pages share the registry, and a frame has room for one of the two nodes;
\* no symmetry, since liveness is checked too.
SPECIFICATION FairSpec
CONSTANTS
    Nodes = {n1, n2}
    Conditions = {idle}
    Gone = Gone
    Refreshers = {ticker, command}
    Ticker = ticker
    NoRefresher = NoRefresher
    Clients = {p1, p2}
    Conns = {c1, c2}
    NoConn = NoConn
    QueueSize = 1
    WireSize = 1
    FrameRows = 1
    MaxUpsets = 2
PROPERTIES
    ClientsConverge
    OnlySlowStreamsAreCut
