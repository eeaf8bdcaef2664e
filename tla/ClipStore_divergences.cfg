\* TLC stops at the first of these that it finds violated; leave one line alone to see its counterexample.
SPECIFICATION Spec
CONSTANTS
    w1         = w1
    w2         = w2
    Worker     = {w1}
    Gui        = Gui
    Store     <- OneStore
    None       = None
    FileName   = {1, 2, 3, 4, 5}
    Name      <- Distinct
    MaxClips   = 2
    MaxAttempts = 2
    N          = 3
    MaxTriages = 1
    MaxCrashes = 1
INVARIANTS
    NothingOrphaned
    OneAlertPerClip
    StatusPersists
CHECK_DEADLOCK FALSE
