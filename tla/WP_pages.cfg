CONSTANTS
  Slug = {"drama", "ghost"}
  Listed = {"drama"}
  Pages = 3
  MaxChanges = 3
  MaxBrowseFaults = 1
  Film = {f1, f2}
  Plain = {p1}
  MaxWrites = 2
  MaxSteps = 2
  MaxTitleFaults = 1
  Nothing = Nothing
  LibName = {"films", "shows"}
  Folder = {"disk"}
  Title = {t1, t2}
  MaxLibs = 2
  MaxAdminWrites = 2
  MaxAdminSteps = 2
  MaxAdminFaults = 1
  Gone = Gone
  Playable <- Episodes
  Subs <- EpisodeSubs
  Audios <- EpisodeAudios
  Levels = 2
  MaxClicks = 5
  MaxOffset = 1
  Unset = Unset
SPECIFICATION Spec
INVARIANTS PagesTypeOK BrowseIsTrue  NothingDoubled ListIsServers EditorsAreTrue ChoicesKept
PROPERTY GridFills
CHECK_DEADLOCK FALSE
