\* Two nodes; more channels than clicks and disturbances, so that one is
\* always left to come to rest on.
SPECIFICATION FairSpec
CONSTANTS
    Nodes = {n1, n2}
    MaxChannels = 7
    MaxEvents = 6
INVARIANTS
    NoOverlap
    PendingIsAwaited
PROPERTIES
    CurrentCapabilities
    CapabilitiesSettle
CHECK_DEADLOCK FALSE
