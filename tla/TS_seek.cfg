CONSTANTS
    Client = {c1}
    Key = {k1}
    SessionId = {s1, s2}
    NoSession = NoSession
    ConfiguredCap = 0
    LastSegment = 3
    Lookahead = 1
    IdleTimeout = 2
    UnconsumedTimeout = 1
    WaitTimeout = 1
    ReaperPeriod = 1
    MaxLag = 0
    MaxFaults = 1
SPECIFICATION FairSpec
INVARIANTS ResourcesOwned NoVainWait LatchFaithful
PROPERTY AbandonedReleased
