CONSTANTS
    Client = {c1, c2}
    Key = {k1}
    SessionId = {s1, s2}
    NoSession = NoSession
    ConfiguredCap = 1
    LastSegment = 1
    Lookahead = 0
    IdleTimeout = 4
    UnconsumedTimeout = 2
    WaitTimeout = 3
    ReaperPeriod = 2
    MaxLag = 1
    MaxFaults = 0
SYMMETRY Symmetry
SPECIFICATION Spec
INVARIANTS TypeOK TimelyReaping
PROPERTY ReaperSparesWaiters
