\* Two algorithms, two identities; height 1 is stage 1, deterministic weighting from height 3.
SPECIFICATION FairSpec
CONSTANTS
    Keys <- MCKeys
    Algos <- MCAlgos
    Blocks <- MCBlocks
    BroodOperators = {"k2"}
    HMPHeight = 1
    Stage2Height = 2
    Stage3Height = 2
    Stage4Height = 2
    DetHeight = 3
    SealAlgoFixHeight = 2
    RearmHeight = 5
    SealTrailingDepth = 1
    CommitmentOffset = 1
    PrivilegeWindow = 2
    WarmupBlocks = 1
    MinBlocksSolved = 2
    RecalibratedMinBlocks = 1
    DominanceCatchFloor = 2
    ExtendedWindow = 1
    SealLongWindow = 3
    ArmMinSealed = 1
    ArmMinElders = 1
    ArmMinDiversity = 1
    HoldMinElders = 1
    NoBlock = NoBlock
    NoAnchor = NoAnchor
    MaxHeight = 7
    MaxRestarts = 1
INVARIANTS
    TypeOK
    RecordsMatchWindow
    WeighedOnChainState
    CommitmentsOnChain
    RestartKeepsSigners
    AnchorIsTip
PROPERTY
    LoopsEnd
CHECK_DEADLOCK FALSE
