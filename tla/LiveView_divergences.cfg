\* TLC stops at the first of these that it finds violated; leave one line alone to see its counterexample.
SPECIFICATION LVFairSpec
CONSTANTS
    Camera     = {c1}
    SubStream  = {c1}
    Nothing    = Nothing
    MaxVisits  = 2
    MaxFails   = 2
INVARIANTS
    EngineStatusIsTrue
    GlowIsLive
    OneRecorderPerCamera
CHECK_DEADLOCK FALSE
