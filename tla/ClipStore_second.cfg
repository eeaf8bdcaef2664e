SPECIFICATION Spec
CONSTANTS
    w1         = w1
    w2         = w2
    Worker     = {w1}
    Gui        = Gui
    Store     <- OneStore
    None       = None
    FileName   = {1, 2, 3, 4, 5}
    Name      <- SameSecond
    MaxClips   = 2
    MaxAttempts = 2
    N          = 2
    MaxTriages = 0
    MaxCrashes = 0
INVARIANT OneFilePerClip
CHECK_DEADLOCK FALSE
