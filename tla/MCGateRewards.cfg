SPECIFICATION Spec
CONSTANTS
    MaxSeasons = 1
    MaxBlock = 5
    HunterRankCollections = {hr1}
    SeasonPackCollections = {sp1}
    SeasonCollectionSets = {sc1}
    Hunters = {h1, h2}
    UsdTokens = {usd1}
    Funds = 0
    KeyPrices <- FreePrices
    StonePrices <- FreeStones
    PriceModes <- UsdOnly
    PauseStates = {FALSE}
    MaxKeys = 0
    MaxBatch = 1
    MaxStones = 1
    Callers = {h1, h2}
    MaxWaiting = 1
    MaxSignatures = 3
    MaxGates = 2
    MaxNonce = 1
    SlotTables <- RewardSlots
    RequiredCounts <- RewardCounts
    GateBlockTables <- RewardBlocks
    RewardTables <- RewardRewards
    BoostBlockCounts = {2}
    MintStates = {TRUE}
    MonsterRanks = {0, 1}
    StoneStates = {TRUE, FALSE}
    KeyRanks = {0}
SYMMETRY HunterSymmetry
INVARIANTS
    TypeOK
    SlotsExact
    StoneAccounting
    OneRewardPerSignature
    MintedTokensOpen
    ExpiredGateClearable
PROPERTIES
    LedgerKept
CHECK_DEADLOCK FALSE
