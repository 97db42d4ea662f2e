SPECIFICATION Spec
CONSTANTS
    Runs = {r1, r2}
    Networks = {"polygon", "mumbai", "hardhat"}
    ListedAtStart = {"mumbai"}
SYMMETRY RunSymmetry
INVARIANTS
    FileNeverMixes
    SerialWritesKept
    ListedSystemsWork
    SubmissionsMatch
CHECK_DEADLOCK FALSE
