\* TLC stops at the first of these that it finds violated; leave one line alone to see its counterexample.
SPECIFICATION FairSpec
CONSTANTS
    Path   = {cam}
    Source = {lan}
    Codec  = {h264}
    Hevc   = {}
    Relay  = {r1, r2}
    Proc   = {f1, f2}
    None   = None
    RestartMin = 2
    RestartMax = 2
INVARIANTS
    OnePublisherPerPath
PROPERTIES
    WantedIsRelayed
