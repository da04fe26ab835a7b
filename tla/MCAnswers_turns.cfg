\* One turn after the other, beside a review and a compilation.
SPECIFICATION FilledSpec
CONSTANTS
    c1 = c1
    c2 = c2
    i1 = i1
    i2 = i2
    r1 = r1
    s1 = s1
    v1 = v1
    d1 = d1
    NoItem = NoItem
    NoCandidate = NoCandidate
    Candidates = {c1, c2}
    Items = {i1, i2}
    Slots = {s1}
    Meanings = {c1, c2}
    SlotOf <- OneSlot
    Meaning <- OwnValue
    Requests = {r1}
    MaxBatches = 1
    Dialogues = {d1}
    Versions = {v1}
    VersionOf <- OneText
    Addressed = {c2}
    Sensitivity <- AllStandard
    MaxItems = 1
INVARIANTS
    
    DisputedNotShown
    NothingLeftOut
PROPERTY
    EveryTurnTold
