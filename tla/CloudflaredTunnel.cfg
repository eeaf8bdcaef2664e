SPECIFICATION FairSpec
CONSTANTS
    Child      = {f1, f2}
    None       = None
    Host       = Host
    RestartMin = 2
    RestartMax = 5
INVARIANTS
    UrlOfThisChild
    NoUnsupervisedChild
PROPERTIES
    StopOutsideLaunchEnds
