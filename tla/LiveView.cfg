SPECIFICATION LVFairSpec
CONSTANTS
    Camera     = {c1}
    SubStream  = {c1}
    Nothing    = Nothing
    MaxVisits  = 1
    MaxFails   = 2
PROPERTIES
    TileNeverFreezes
    HiddenReleasesCamera
    LeavingEndsReaders
CHECK_DEADLOCK FALSE
