CONSTANTS
    Off = Off
    Nobody = Nobody
    e1 = e1
    e2 = e2
    e3 = e3
    SlotExperts = {e1, e2, e3}
    SlotGpu = 1
    SlotTopK = 3
    SlotKnobs <- SomeKnobs
    SlotAhead <- SomeAhead
    SlotHit = 2
    SlotGrace = 1
    SlotCap = 2
    LookLayers = 5
    LookFirst = 1
    LookTMax = 2
    LookTokens = {1, 2, 3}
    LookPasses = 3
    LookSetups <- SomeSetups
    ScratchLayers = {1, 2}
    ScratchExperts = {1, 2, 3}
    ScratchGpu = 1
    ScratchCases <- AnyEvicted
    RouteExperts = 4
    RouteSlots = 2
    RouteWeight = 2
    RouteCount = 2
    RouteSettings <- SomeSettings
    Expert = {1, 2, 3, 4}
    NGpu = 2
    NRam = 1
    World = 2
    Garbage = Garbage
    NoSlot = NoSlot
    TierEnabled = TRUE
    IncrementalMax = 0
    MaxEnergy = 1
    Margin <- MCMargin
    GpuMargin <- MCMargin
    GpuEnabled = TRUE
    MaxMisses = 1
    MaxFailures = 1
    MaxFaults = 1
SYMMETRY Symmetry
SPECIFICATION MCSpec
INVARIANTS
    EnergyServes
    LandedOnce
    ScratchServes
    RoutingHonest
CHECK_DEADLOCK FALSE
