SPECIFICATION Spec
CONSTANTS
    MaxAttempts = 2
    MaxGates = 2
INVARIANTS
    MonstersAsTabled
    AriseChainsComplete
    SeasonAsMeant
    CountedGateHasRights
CHECK_DEADLOCK FALSE
