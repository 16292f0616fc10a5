CONSTANTS
    Client = {c1, c2}
    Key = {k1, k2}
    SessionId = {s1, s2, s3}
    NoSession = NoSession
    ConfiguredCap = 2
    LastSegment = 0
    Lookahead = 0
    IdleTimeout = 2
    UnconsumedTimeout = 1
    WaitTimeout = 1
    ReaperPeriod = 1
    MaxLag = 0
    MaxFaults = 0
SYMMETRY Symmetry
SPECIFICATION Spec
INVARIANT CapacityRespected
PROPERTY ImplementsPool
