CONSTANTS
    Path = {p1, p2}
    p1 = p1
    p2 = p2
    n1 = n1
    n2 = n2
    Name = {n1, n2}
    NameOf <- TwoNames
    GuessOf <- TwoKinds
    Folder <- AnyFolder
    NoLib = NoLib
    Stat = {s1, s2}
    s1 = s1
    s2 = s2
    MaxEdits = 2
    MaxAdmin = 1
    MaxCrashes = 0
    MaxFaults = 0
SPECIFICATION Spec
INVARIANTS ReferencesIntact SkippedIsCurrent
SYMMETRY Stats
CHECK_DEADLOCK FALSE
