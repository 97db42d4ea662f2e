SPECIFICATION Spec
CONSTANTS
    MaxSeasons = 2
    MaxBlock = 5
    HunterRankCollections = {hr1}
    SeasonPackCollections = {sp1}
    SeasonCollectionSets = {sc1}
    Hunters = {h1, h2}
    UsdTokens = {usd1}
    Funds = 0
    KeyPrices <- FreePrices
    StonePrices <- FreeStones
    PriceModes <- UsdOnly
    PauseStates = {FALSE}
    MaxKeys = 0
    MaxBatch = 0
    MaxStones = 0
    Callers = {h2}
    MaxWaiting = 2
    MaxSignatures = 0
    MaxGates = 3
    MaxNonce = 0
    SlotTables <- RankSlots
    RequiredCounts <- RankCounts
    GateBlockTables <- RankBlocks
    RewardTables <- RankRewards
    BoostBlockCounts = {1}
    MintStates = {TRUE}
    MonsterRanks = {}
    StoneStates = {}
    KeyRanks = {0, 1}
INVARIANTS
    SlotsBounded
    LevelScoreExact
    RankEarned
    RankTokenUnique
PROPERTIES
    EndedSeasonScoreFrozen
CHECK_DEADLOCK FALSE
