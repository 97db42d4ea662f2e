SPECIFICATION Spec
CONSTANTS
    MaxMonsters = 2
    MaxBatch = 2
INVARIANTS
    TypeOK
    RankSetsAgree
    AriseInverse
    ArisePairsExist
    BatchLastWins
