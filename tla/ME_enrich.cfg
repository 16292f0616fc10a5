CONSTANTS
    f1 = f1
    f2 = f2
    m1 = m1
    m2 = m2
    Match = {m1, m2}
    NoMatch = NoMatch
    Film = {f1, f2}
    Best <- OneKnown
    Pass = {scan}
    Request = {request}
    Backfill = {backfill}
    Sweeper = {sweeper}
    Concurrency = 1
    Batch = 1
    MaxLimit = 1
    MaxTitles = 2
    MaxAsked = 1
    MaxFaults = 1
    MaxCrashes = 1
SPECIFICATION FairSpec
INVARIANTS TypeOK TornNeedsTwoWriters PosterOnDisk
PROPERTY EveryTitleResolved
CHECK_DEADLOCK FALSE
