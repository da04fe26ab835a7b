\* A compilation and an analysis that share one thread.
SPECIFICATION Spec
CONSTANTS
    c1 = c1
    c2 = c2
    n1 = n1
    a1 = a1
    NoJob = NoJob
    Jobs = {c1, n1}
    Compile = {c1}
    Artifacts = {a1}
    ArtifactOf <- TwoOnOne
    MaxWorkers = 1
    Capacity = 2
    Chunks = 1
    MaxFaults = 1
    MaxCrashes = 1
CHECK_DEADLOCK FALSE
INVARIANTS
    CancelledWritesNothing
    ReceiptIsComplete
    PermitAccounting
PROPERTY
    SettledStaysSettled
