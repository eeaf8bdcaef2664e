SPECIFICATION EBSpec
CONSTANTS
    Spot           = {s1}
    Observations   <- HandsAndZones
    Gaps           = {1}
    Absent         = Absent
    Decay          <- Seconds
    Weight         <- DefaultWeight
    MinDur         <- DefaultMinDur
    Interval       <- DefaultInterval
    HoldLatch      = 2
    DropAfter      = 2
    PostQuiet      = 2
    OpenRisk       = 60
    CloseRisk      = 30
    ShelfThreshold = 3
    RequireHolding = FALSE
    Cap            = 4
INVARIANTS
    EpisodesAccounted
PROPERTIES
    ZonesBankInTime
