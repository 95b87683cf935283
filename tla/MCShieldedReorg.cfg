SPECIFICATION Spec
CONSTANTS
    n1 = n1
    n2 = n2
    c1 = c1
    c2 = c2
    NoBlock = NoBlock
    NoBatch = NoBatch
    Blocks <- MCBlocks
    Work <- MCWork
    Nullifiers = {n1, n2}
    Notes = {c1, c2}
    Spends <- MCSpends
    Outputs <- MCOutputs
    ValueBalance <- MCValueBalance
    Verdict <- MCVerdict
    SaplingHeight = 2
    nSaplingStrictnessHeight = 3
    PlanX = FALSE
    MaxCrashes = 2
INVARIANTS NullifiersRecorded
CHECK_DEADLOCK FALSE
