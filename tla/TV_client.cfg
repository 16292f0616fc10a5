CONSTANTS
    HideAfter = 2
    SeekSettle = 1
    MaxPosition = 2
    Autoplay = TRUE
    Movie = {m1}
    Series = {}
    Pages = 2
    Length = 2
    Mosaic <- Mosaics
    NoMosaic = NoMosaic
    MaxStack = 3
    MaxKeys = 2
    MaxFaults = 1
    Tiles = 3
    Clip = {1, 2}
    Gate = 2
    MaxMoves = 4
    MaxClipFaults = 2
SPECIFICATION TvSpec
INVARIANTS TvTypeOK ControlsTrue ScreensInOrder NoStalePreview
PROPERTIES ScrubSettles DwellPlays
CHECK_DEADLOCK FALSE
