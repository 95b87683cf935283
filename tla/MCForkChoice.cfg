\* Penalties and bonuses, an invalid block, a restart.
SPECIFICATION FairSpec
CONSTANTS
    Blocks <- MCLong
    Proof <- MCLongProof
    Address <- MCLongAddress
    Weightings <- MCMixed
    MaxBad = 1
    MaxRestarts = 1
    NoBlock = NoBlock
INVARIANTS
    TypeOK
    TipIsCandidate
    NoWorseCandidate
    CandidatesComplete
    TipIsBest
    UnpenalisedProgress
PROPERTY
    ActivationEnds
CHECK_DEADLOCK FALSE
