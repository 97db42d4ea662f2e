SPECIFICATION Spec
CONSTANTS
    MaxAttempts = 2
    MaxGates = 2
INVARIANTS
    CountedGateRanksUp
CHECK_DEADLOCK FALSE
