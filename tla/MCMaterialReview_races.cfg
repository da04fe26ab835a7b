\* Two requests at once on two versions.
SPECIFICATION Spec
CONSTANTS
    v1 = v1
    v2 = v2
    v3 = v3
    r1 = r1
    r2 = r2
    NoVersion = NoVersion
    Versions = {v1, v2}
    Requests = {r1, r2}
    MaxFindings = 1
    MaxAnalyses = 1
    MaxCrashes = 1
SYMMETRY Symmetry
INVARIANTS
    NothingUndecided
    OnlyConfirmedUsed
PROPERTIES
    ConfirmationStays
    ConfirmsCurrent
    ReplacesCurrent
    RepeatSubmitsNothing
