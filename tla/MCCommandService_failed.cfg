\* A timed out execution that Slurm applied is recorded as failed.
SPECIFICATION Spec
CONSTANTS
    h1 = h1
    h2 = h2
    k1 = k1
    k2 = k2
    f1 = f1
    f2 = f2
    Handlers = {h1, h2}
    Keys = {k1}
    Prints = {f1}
    NoPrint = NoPrint
    NoKey = NoKey
    Requests <- Duplicates
    Valid <- OneCommand
    NoHandler = NoHandler
    MaxFaults = 2
    MaxCrashes = 1
    MaxExpiries = 0
SYMMETRY ServiceSymmetry
INVARIANT FailedNeverApplied
