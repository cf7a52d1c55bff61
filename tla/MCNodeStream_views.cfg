SPECIFICATION Spec
CONSTANTS
    Nodes = {n1, n2}
    Conditions = {idle, drained}
    Gone = Gone
    Refreshers = {ticker, command}
    Ticker = ticker
    NoRefresher = NoRefresher
    Clients = {p1}
    Conns = {c1, c2}
    NoConn = NoConn
    QueueSize = 1
    WireSize = 1
    FrameRows = 2
    MaxUpsets = 3
SYMMETRY StreamSymmetry
INVARIANTS
    TypeOK
    StreamNeverBreaks
    NothingMissed
    ChannelOrTimer
    NoStreamLeaks
PROPERTIES
    CommitsInOrder
    PagesFollowFeed
