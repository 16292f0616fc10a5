CONSTANTS
    Path = {p1}
    p1 = p1
    p2 = p2
    n1 = n1
    n2 = n2
    Name = {n1}
    NameOf <- OneName
    GuessOf <- OneKind
    Folder <- OneFolder
    NoLib = NoLib
    Stat = {s1, s2}
    s1 = s1
    s2 = s2
    MaxEdits = 2
    MaxAdmin = 1
    MaxCrashes = 1
    MaxFaults = 1
SPECIFICATION FairSpec
INVARIANTS TypeOK QuietMeansCaughtUp
PROPERTY EventuallyCaughtUp
CONSTRAINT OneMishap
CHECK_DEADLOCK FALSE
