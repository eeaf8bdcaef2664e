\* TLC stops at the first of these that it finds violated; leave one line alone to see its counterexample.
SPECIFICATION FairSpec
CONSTANTS
    Child      = {f1, f2}
    None       = None
    Host       = Host
    RestartMin = 2
    RestartMax = 5
PROPERTIES
    NothingOutlivesTheApp
    WantedIsServed
