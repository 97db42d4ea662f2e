SPECIFICATION FairSpec
CONSTANTS
    MaxSeasons = 1
    MaxBlock = 3
    HunterRankCollections = {hr1}
    SeasonPackCollections = {sp1}
    SeasonCollectionSets = {sc1}
    Hunters = {h1}
    UsdTokens = {usd1, usd2}
    Funds = 2
    KeyPrices <- PaymentPrices
    StonePrices <- FreeStones
    PriceModes <- BothModes
    PauseStates = {TRUE, FALSE}
    MaxKeys = 1
    MaxBatch = 0
    MaxStones = 0
    Callers = {h1}
    MaxWaiting = 2
    MaxSignatures = 1
    MaxGates = 2
    MaxNonce = 0
    SlotTables <- RewardSlots
    RequiredCounts <- RewardCounts
    GateBlockTables <- PaymentBlocks
    RewardTables <- PaymentRewards
    BoostBlockCounts = {2}
    MintStates = {TRUE}
    MonsterRanks = {0}
    StoneStates = {}
    KeyRanks = {0}
INVARIANTS
    KeyAccounting
    GateKeepsNothing
PROPERTIES
    KeysSoldAtListPrice
    GatesCleared
CHECK_DEADLOCK FALSE
