\* TLC stops at the first of these that it finds violated; leave one line alone to see its counterexample.
SPECIFICATION Spec
CONSTANTS
    Person      = {p}
    Pre         = 1
    Keep        = 2
    MaxEpisode  = 8
    PostQuiet   = 1
    DropAfter   = 1
    Lag         = 0
    Post        = 2
    MaxQueue    = 1
    None        = None
    MaxTime     = 8
    MaxDeaths   = 0
    MaxEpisodes = 1
INVARIANT
    FootageKeptUntilCut
PROPERTY
    PostRollComplete
CHECK_DEADLOCK FALSE
