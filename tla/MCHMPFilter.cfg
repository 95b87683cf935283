\* A commitment is evicted and the key's later blocks are still in the lookback.
SPECIFICATION Spec
CONSTANTS
    Keys <- MCKeys
    Algos <- MCAlgos
    Blocks <- MCBlocks
    BroodOperators = {"k2"}
    HMPHeight = 1
    Stage2Height = 1
    Stage3Height = 2
    Stage4Height = 2
    DetHeight = 3
    SealAlgoFixHeight = 2
    RearmHeight = 5
    SealTrailingDepth = 1
    CommitmentOffset = 1
    PrivilegeWindow = 2
    WarmupBlocks = 1
    MinBlocksSolved = 2
    RecalibratedMinBlocks = 1
    DominanceCatchFloor = 2
    ExtendedWindow = 2
    SealLongWindow = 3
    ArmMinSealed = 1
    ArmMinElders = 1
    ArmMinDiversity = 1
    HoldMinElders = 1
    NoBlock = NoBlock
    NoAnchor = NoAnchor
    MaxHeight = 7
    MaxRestarts = 0
INVARIANT SameFilterAfterRestart
CHECK_DEADLOCK FALSE
