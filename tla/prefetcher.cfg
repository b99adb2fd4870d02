CONSTANTS
    k1 = k1
    k2 = k2
    k3 = k3
    k4 = k4
    Key = {k1, k2, k3, k4}
    MaxReady = 3
    MaxFailures = 1
    MaxTakes = 2
    NoKey = NoKey
SPECIFICATION PrefetchFair
INVARIANT
    ReadsAccounted
PROPERTY
    StableWantFetched
