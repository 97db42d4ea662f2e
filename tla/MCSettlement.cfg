SPECIFICATION Spec
CONSTANTS
    Hunters = {h1, h2}
    MaxBlock = 2
    MaxMonsters = 2
    MaxSupply = 2
    MaxRequests = 1
    StartRanks <- Ranks2
    StartPairs <- Pairs
    StartScores <- StartTables
    ScoreTables <- Tables
    MaxChanges = 1
    RanksInUse = {3}
    StartStones <- StonesAtStart
    requiredStoneForArise <- Stones
    essenceStoneWhenReturned <- StonesReturned
    SeasonEnd <- Ends
    RankCollections <- RanksOf
    Claimants = {h1}
    Weights = {1, 3}
    MaxCount = 3
    MaxPlayed = 2
    ScoreRates <- Rates
    ScoresPerGate = {1}
    DENOMINATOR = 2
INVARIANTS
    ScoreIsOfHoldings
    RankRewardEarned
PROPERTIES
    ClaimPaysEndOfSeason
