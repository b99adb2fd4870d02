CONSTANTS
    UserArgs <- Launches
    None = None
    Off = Off
    Workers = {0, 1, 2}
    Nodes = {1, 2}
    Setups <- MCSetups
    Autotune = TRUE
    Graphs = 2
    CheckBalance = TRUE
    MaskRanks = {0, 1}
    MaskLayers = 3
    NumExperts = 2
    Models <- MCModels
    Budgets <- MCBudgets
    Strategies = {"front-loading", "uniform", "hotcore", "oracle", "frequency", "random"}
    RankFiles = {"absent", "misshapen", "good"}
    Ranking <- MCRanking
    NumLayers = 2
    ExpertIds = {1, 2, 3, 4}
    Gpu <- MCGpu
    Ram <- MCRam
    Modes = {"static", "adaptive", "tiered", "lora"}
    Faults = {{"describe", "adapter", "kernels", "map"}, {"describe", "adapter"}}
    MaxFaults = 2
    MaxKills = 6
    HasExperts = TRUE
    HasOthers = TRUE
SPECIFICATION MCSpec
INVARIANTS
    PlanHolds
    ReadyMeansLoaded
    RanksAgree
    ServedOnce
    TensorsWhole
PROPERTY
    EndsTogether
CHECK_DEADLOCK FALSE
