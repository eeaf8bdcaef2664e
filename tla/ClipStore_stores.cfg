\* TLC stops at the first of these that it finds violated; leave one line alone to see its counterexample.
SPECIFICATION Spec
CONSTANTS
    w1         = w1
    w2         = w2
    Worker     = {w1, w2}
    Gui        = Gui
    Store     <- TwoStores
    None       = None
    FileName   = {1, 2, 3, 4, 5}
    Name      <- Distinct
    MaxClips   = 1
    MaxAttempts = 2
    N          = 2
    MaxTriages = 0
    MaxCrashes = 0
INVARIANTS
    UploadFindsFile
    NeverCorrupt
CHECK_DEADLOCK FALSE
