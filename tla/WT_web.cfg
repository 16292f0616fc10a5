CONSTANTS
    HideAfter = 2
    SeekSettle = 1
    MaxPosition = 3
    Autoplay = FALSE
    Length = 3
    Chapters <- TwoChapters
    Grace = 1
    Saved = {0, 2}
    MinResume = 1
    WriteInterval = 2
    MaxInputs = 2
    MaxFlushes = 1
SPECIFICATION FairSpec
INVARIANTS WebTypeOK FollowsElement PlaceSent
PROPERTY PlayStateRests
CHECK_DEADLOCK FALSE
