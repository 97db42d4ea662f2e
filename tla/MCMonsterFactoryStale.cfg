SPECIFICATION Spec
CONSTANTS
    MaxMonsters = 2
    MaxBatch = 1
INVARIANTS
    AriseRanksAgree
