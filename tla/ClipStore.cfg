SPECIFICATION Spec
CONSTANTS
    w1         = w1
    w2         = w2
    Worker     = {w1, w2}
    Gui        = Gui
    Store     <- OneStore
    None       = None
    FileName   = {1, 2, 3, 4}
    Name      <- Distinct
    MaxClips   = 2
    MaxAttempts = 2
    N          = 4
    MaxTriages = 1
    MaxCrashes = 1
INVARIANTS
    IndexMatchesFiles
    NoEarlyDeletion
CHECK_DEADLOCK FALSE
