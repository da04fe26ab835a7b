\* Two compilations of one artifact and a failing journal write.
SPECIFICATION FairSpec
CONSTANTS
    c1 = c1
    c2 = c2
    n1 = n1
    a1 = a1
    NoJob = NoJob
    Jobs = {c1, c2}
    Compile = {c1, c2}
    Artifacts = {a1}
    ArtifactOf <- TwoOnOne
    MaxWorkers = 2
    Capacity = 2
    Chunks = 1
    MaxFaults = 1
    MaxCrashes = 0
CHECK_DEADLOCK FALSE
INVARIANTS
    UnchangedMessageHolds
    DoneHasReceipt
PROPERTY
    AcceptedJobEnds
