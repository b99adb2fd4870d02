CONSTANTS
    e1 = e1
    e2 = e2
    e3 = e3
    e4 = e4
    e5 = e5
    Expert = {e1, e2, e3, e4, e5}
    NGpu = 2
    NRam = 2
    MaxCount = 2
    Margin <- MCMargin
    MinGain <- MCMinGain
    RamMargin <- MCRamMargin
    RamMinGain <- MCRamMinGain
    MaxPromote = 2
    MaxRamMove = 1
    MinEvents = 2
    None = None
    BatchExperts = {1, 2, 3, 4, 5}
    Keep = 3
    RowRanks = 3
    RankCredit <- MCCredit
    ResidentBonus = 1
    PromotionCost = 1
    LeastSwap = 1
    MostSwap = 2
    ClassGrace <- MCGrace
    RouterRows <- MCRows
    SettledRow <- MCSettled
SPECIFICATION MCSpec
PROPERTIES
    MarginSettles
