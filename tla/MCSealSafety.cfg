SPECIFICATION Spec
CONSTANTS
    me = me
    p1 = p1
    Me = me
    NoMsg = NoMsg
    Blocks <- MCRivals
    Signers <- MCSigners
    Window = 1
    Tolerance = 0
    Grace = 1
    Depth = 2
    MaxShares = 1
    MaxSeals = 1
    SignedKept = 0
    MaxBad = 1
    MaxOrder = 2
    MaxRestarts = 1
INVARIANTS
    TypeOK
    OrderCoversSeals
    ShareQuota
    OneSignaturePerVisit
