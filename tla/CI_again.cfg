CONSTANTS
    Path = {p1}
    p1 = p1
    p2 = p2
    n1 = n1
    n2 = n2
    Name = {n1}
    NameOf <- OneName
    GuessOf <- OneKind
    Folder <- OneFolder
    NoLib = NoLib
    Stat = {s1, s2}
    s1 = s1
    s2 = s2
    MaxEdits = 1
    MaxAdmin = 1
    MaxCrashes = 0
    MaxFaults = 0
SPECIFICATION Spec
INVARIANT CreatedIsPopulated
CHECK_DEADLOCK FALSE
