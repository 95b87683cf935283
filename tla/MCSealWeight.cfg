\* Both ladders: negative proofs from height 3, the rearm ladder from height 5.
SPECIFICATION Spec
CONSTANTS
    Keys <- MCKeys
    Algos <- MCAlgos
    Blocks <- MCBlocks
    BroodOperators = {"k3"}
    HMPHeight = 1
    Stage2Height = 1
    Stage3Height = 2
    Stage4Height = 3
    DetHeight = 2
    SealAlgoFixHeight = 3
    RearmHeight = 5
    SealTrailingDepth = 1
    CommitmentOffset = 1
    PrivilegeWindow = 5
    WarmupBlocks = 1
    MinBlocksSolved = 1
    RecalibratedMinBlocks = 1
    DominanceCatchFloor = 2
    ExtendedWindow = 5
    SealLongWindow = 5
    ArmMinSealed = 2
    ArmMinElders = 2
    ArmMinDiversity = 2
    HoldMinElders = 1
    NoBlock = NoBlock
    NoAnchor = NoAnchor
    MaxHeight = 6
    MaxRestarts = 0
INVARIANTS
    SealNeverPenalised
    SignerNeverHurts
CHECK_DEADLOCK FALSE
