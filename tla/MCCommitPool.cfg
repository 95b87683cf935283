SPECIFICATION PoolSpec
CONSTANTS
    Keys <- MCKeys
    Algos = {0}
    Blocks <- MCBlocks
    BroodOperators = {}
    HMPHeight = 1
    Stage2Height = 1
    Stage3Height = 1
    Stage4Height = 1
    DetHeight = 2
    SealAlgoFixHeight = 1
    RearmHeight = 2
    SealTrailingDepth = 0
    CommitmentOffset = 1
    PrivilegeWindow = 1
    WarmupBlocks = 1
    MinBlocksSolved = 1
    RecalibratedMinBlocks = 1
    DominanceCatchFloor = 2
    ExtendedWindow = 1
    SealLongWindow = 1
    ArmMinSealed = 1
    ArmMinElders = 1
    ArmMinDiversity = 1
    HoldMinElders = 1
    NoBlock = NoBlock
    NoAnchor = NoAnchor
    MaxHeight = 3
    MaxRestarts = 1
    Me = "me"
    Rank <- MCRank
    MaxPending = 2
    MaxCommitments = 1
    TTL = 0
    Future = 0
    MaxTime = 1
    NoAdd = NoAdd
INVARIANTS
    PoolTypeOK
    StaleOnlyIfLate
    TemplateFull
PROPERTY
    EntriesExpire
CHECK_DEADLOCK FALSE
