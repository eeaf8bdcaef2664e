SPECIFICATION Spec
CONSTANTS
    Person      = {p}
    Pre         = 1
    Keep        = 1
    MaxEpisode  = 1
    PostQuiet   = 1
    DropAfter   = 1
    Lag         = 0
    Post        = 1
    MaxQueue    = 2
    None        = None
    MaxTime     = 3
    MaxDeaths   = 1
    MaxEpisodes = 3
INVARIANTS
    OpenEpisodesKeepFootage
    RetentionWindow
    NoRingAfterStop
    NewestGetsIn
PROPERTIES
    BufferSpec
CHECK_DEADLOCK FALSE
