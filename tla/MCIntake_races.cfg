\* Two uploads at once, of single files and of two files.
SPECIFICATION Spec
CONSTANTS
    n1 = n1
    n2 = n2
    k1 = k1
    k2 = k2
    k3 = k3
    s1 = s1
    s2 = s2
    s3 = s3
    w1 = w1
    w2 = w2
    r1 = r1
    r2 = r2
    NoWorkspace = NoWorkspace
    NoSource = NoSource
    NoContent = NoContent
    Requests = {r1, r2}
    Workspaces = {w1, w2}
    Sources = {s1, s2, s3}
    Names = {n1, n2}
    Contents = {k1, k2, k3}
    Uploads <- Batches
    RecoverAlone = TRUE
    MaxCrashes = 1
SYMMETRY Symmetry
INVARIANTS
    OneSourcePerContent
    OriginalBehindRecord
    AdmittedWhole
    ReplacedNotCurrent
