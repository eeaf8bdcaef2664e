SPECIFICATION FairSpec
CONSTANTS
    Person     = {p1, p2}
    Pre        = 1
    Keep       = 1
    MaxEpisode = 1
    PostQuiet  = 1
    DropAfter  = 1
    Lag        = 0
    None       = None
    MaxTime    = 3
    MaxDeaths  = 1
PROPERTIES
    StopEndsRing
CHECK_DEADLOCK FALSE
