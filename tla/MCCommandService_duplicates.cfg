\* Two handlers send one valid command, and one of them two more requests that
\* only look rows up; no symmetry, since liveness is checked too.
SPECIFICATION FairSpec
CONSTANTS
    h1 = h1
    h2 = h2
    k1 = k1
    k2 = k2
    f1 = f1
    f2 = f2
    Handlers = {h1, h2}
    Keys = {k1, k2}
    Prints = {f1, f2}
    NoPrint = NoPrint
    NoKey = NoKey
    Requests <- Conflicts
    Valid <- OneCommand
    NoHandler = NoHandler
    MaxFaults = 1
    MaxCrashes = 1
    MaxExpiries = 1
INVARIANTS
    AtMostOnce
    NoOrphan
    ExecutionAudited
    HonestRows
    AnswersStand
PROPERTIES
    EveryRequestAnswered
    GateReopens
    GateFreezesRows
    ImplementsContract
