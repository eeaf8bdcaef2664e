\* TLC stops at the first of these that it finds violated; leave one line alone to see its counterexample.
SPECIFICATION FairSpec
CONSTANTS
    Camera     = {cam1}
    Source     = {lan, hub}
    Worker     = {w1, w2}
    None       = None
    MaxEdits   = 2
    MaxVersion = 1
    MaxFails   = 1
INVARIANT
    OneDecodeLoop
PROPERTIES
    WantedIsAnalysed
    UnpairedStops
CHECK_DEADLOCK FALSE
