\* Two requests on two candidates of one slot.
SPECIFICATION Spec
CONSTANTS
    c1 = c1
    c2 = c2
    c3 = c3
    i1 = i1
    i2 = i2
    i3 = i3
    r1 = r1
    r2 = r2
    s1 = s1
    NoItem = NoItem
    NoCandidate = NoCandidate
    Candidates = {c1, c2}
    Items = {i1, i2}
    Slots = {s1}
    Meanings = {c1, c2, c3}
    SlotOf <- OneSlot
    Meaning <- OwnValue
    Requests = {r1, r2}
    MaxBatches = 2
SYMMETRY Symmetry
INVARIANTS
    ConfirmedHasItem
PROPERTIES
    DecidedStays
    KeepsAuthority
