SPECIFICATION Spec
CONSTANTS
    MaxQueue    = 2
    MaxEpisodes = 4
    None        = None
INVARIANT SentinelSurvives
CHECK_DEADLOCK FALSE
