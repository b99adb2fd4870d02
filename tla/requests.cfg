CONSTANTS
    r1 = r1
    r2 = r2
    r3 = r3
    Off = Off
    NoReq = NoReq
    Reqs = {r1, r2, r3}
    Prompt <- ThreePrompts
    Asked <- ThreeAsked
    Prio <- Flat
    Levels = 1
    Threshold = 0
    Page = 1
    Clip = 100
    RatioUnit = 1
    Ratios = {0, 1}
    Total = 9
    MaxRunning = 2
    MaxQueued = 3
    MaxPrefill = 6
    ChunkSize = 3
    MaxInput = 8
    MaxReqLen = 8
    Mixed = FALSE
    Overlap = TRUE
    Timeouts = FALSE
    AbortSets <- Singles
    PauseModes = {"in_place", "retract"}
    PauseMidPrefill = FALSE
    MaxPauses = 1
    MaxHealth = 0
SPECIFICATION MCSpec
INVARIANTS
    SlotsAccounted
    NobodyLost
    DeliveredThroughStop
PROPERTIES
    AllAnswered
    LivesOnce
