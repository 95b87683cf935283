SPECIFICATION FairSpec
CONSTANTS
    me = me
    p1 = p1
    Me = me
    NoMsg = NoMsg
    Blocks <- MCRivals
    Signers <- MCSigners
    Window = 1
    Tolerance = 1
    Grace = 2
    Depth = 2
    MaxShares = 2
    MaxSeals = 1
    SignedKept = 0
    MaxBad = 0
    MaxOrder = 6
    MaxRestarts = 0
PROPERTIES
    AssembledFrozen
    SessionsEnd
