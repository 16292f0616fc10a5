CONSTANTS
    Audio = {a1}
    Sub = {ass}
    ClientRendered = {ass}
    Embedded = {ass}
    Length = 2
    MaxRecoveries = 1
    MaxSwitches = 2
    MaxFaults = 1
    None = None
SPECIFICATION FairSpec
INVARIANTS LoadingHasRequest NothingOutlives
PROPERTIES SwitchKeepsPlace SwitchEnds
CHECK_DEADLOCK FALSE
