SPECIFICATION Spec
CONSTANTS
    me = me
    p1 = p1
    Me = me
    NoMsg = NoMsg
    Blocks <- MCFork
    Signers <- MCAlone
    Window = 1
    Tolerance = 1
    Grace = 2
    Depth = 2
    MaxShares = 1
    MaxSeals = 1
    SignedKept = 1
    MaxBad = 0
    MaxOrder = 6
    MaxRestarts = 0
INVARIANTS
    NoEquivocation
