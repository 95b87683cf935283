CONSTANTS
    Targets = {"chainstate", "sapling"}
    AttemptsMax = 1
    WipesMax = 1
    MaxArms = 1
    MaxDisarms = 1
    MaxMishaps = 1
    HaveWallet = TRUE
    NoMarker = NoMarker
SPECIFICATION FairSpec
INVARIANTS
    TypeOK
    QuarantineHolds
    WipeGuard
PROPERTIES
    RepairConcludes
    ParkedRepairRuns
CHECK_DEADLOCK FALSE
