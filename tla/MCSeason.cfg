SPECIFICATION SeasonSpec
CONSTANTS
    MaxSeasons = 3
    MaxBlock = 9
    HunterRankCollections = {hr1, hr2}
    SeasonPackCollections = {sp1}
    SeasonCollectionSets = {sc1}
INVARIANTS
    SeasonsOrdered
PROPERTIES
    EndedSeasonFrozen
    CurrentSeasonStable
CHECK_DEADLOCK FALSE
