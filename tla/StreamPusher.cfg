SPECIFICATION FairSpec
CONSTANTS
    Path       = {cam}
    Source     = {lan}
    Codec      = {h264, hevc}
    Hevc       = {hevc}
    Relay      = {r1, r2}
    Proc       = {f1, f2}
    None       = None
    RestartMin = 2
    RestartMax = 2
INVARIANTS
    TypeOK
    NoUnsupervisedChild
    StoppedChildIsReaped
    UnstoppedIsRegistered
PROPERTIES
    NoChurn
    StopTakesEffect
