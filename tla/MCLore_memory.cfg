\* One request reads the memory while it is written, emptied, filled and removed.
SPECIFICATION FilledSpec
CONSTANTS
    r1 = r1
    r2 = r2
    g = g
    m = m
    p1 = p1
    p2 = p2
    g1 = g1
    m1 = m1
    m2 = m2
    m3 = m3
    s1 = s1
    s2 = s2
    a = a
    b = b
    c = c
    Readers = {r1}
    GroupFiles = {g}
    ProjectFiles = {m, p1, p2}
    MemoryFile = m
    Primary = {p1, p2}
    Documents = {p1}
    TextsOf <- Texts
    Sections = {g1, m1, m2, m3, s1, s2}
    Card <- Cards
    Queries <- SomeQueries
    Strong = {c}
    MaxSections = 2
    MaxChars = 4
    MaxEvidence = 2
    TotalChars = 6
    ReservedChars = 3
    Trusted <- SomeItems
    Lengths <- SomeLengths
    MaxStamp = 5
INVARIANTS
    SelectionSound
    Fresh
    ReserveKept
