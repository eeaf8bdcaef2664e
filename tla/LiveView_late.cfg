SPECIFICATION LVSpec
CONSTANTS
    Camera     = {c1, c2}
    SubStream  = {c1}
    Nothing    = Nothing
    MaxVisits  = 1
    MaxFails   = 2
PROPERTY
    PollConfigures
CHECK_DEADLOCK FALSE
