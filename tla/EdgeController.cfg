SPECIFICATION FairSpec
CONSTANTS
    Camera     = {cam1}
    Source     = {lan, hub}
    Worker     = {w1, w2}
    None       = None
    MaxEdits   = 2
    MaxVersion = 2
    MaxFails   = 1
INVARIANTS
    RecordersOwned
    StoppedForGood
    OneConfiguration
PROPERTIES
    SourcesFollowed
    ConfigurationArrives
CHECK_DEADLOCK FALSE
