CONSTANTS
    Off = Off
    Reqs = {r1, r2, r3}
    DpRanks = {1, 2}
    AttnTp = 2
    AttnCp = 1
    DraftTokens = 3
    DecodeGraph = 2
    VerifyGraph = 1
    MaxDecodes = 3
    MaxVerifies = 2
    MaxForwards = 2
    Archs <- SomeArchs
    AttnLayers = 5
    FirstKDense = 2
    AttnTopk = 2
    Users = {1, 2}
    MaxContext = 4
    Launches <- SomeLaunches
    Tp = 2
    StackLayers = 3
    MegaCap = 2
    TokenCounts = {0, 2, 3}
    MaxStackPasses = 2
    UserPrefill = FALSE
    IndexTopk = 2
    ChunkCap = 3
    PrefillRatio = 2
    MaxKeys = 4
    MaxChoices = 3
    Expert = {e1, e2, e3}
    NGpu = 2
    World = 2
    Garbage = Garbage
    NoSlot = NoSlot
    TierEnabled = FALSE
    IncrementalMax = 1
    MaxSwap = 2
SYMMETRY Symmetry
SPECIFICATION MCSpec
INVARIANTS
    CacheServes
    TierServed
    ReplaySafe
    CollectivesMatch
    PassServesBatch
    ContributionsOnce
    MetadataOfThisBatch
    IndicesFitKernel
    SelectionsOfThisPass
CHECK_DEADLOCK FALSE
