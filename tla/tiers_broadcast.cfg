CONSTANTS
    e1 = e1
    e2 = e2
    e3 = e3
    e4 = e4
    e5 = e5
    e6 = e6
    Expert = {e1, e2, e3, e4, e5, e6}
    NGpu = 2
    NRam = 2
    World = 2
    Garbage = Garbage
    NoSlot = NoSlot
    TierEnabled = TRUE
    IncrementalMax = 1
    MaxPromote = 2
    MaxFailures = 1
SPECIFICATION Spec
INVARIANTS
    BroadcastSizesAgree
