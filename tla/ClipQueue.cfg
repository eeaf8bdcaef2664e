SPECIFICATION FairSpec
CONSTANTS
    MaxQueue    = 2
    MaxEpisodes = 8
    None        = None
PROPERTIES
    StopReturns
CHECK_DEADLOCK FALSE
