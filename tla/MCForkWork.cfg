\* A line of sealed blocks outgrows the provisional work of its headers.
SPECIFICATION Spec
CONSTANTS
    Blocks <- MCLine
    Proof <- MCLineProof
    Address <- MCLineAddress
    Weightings <- MCSealed
    MaxBad = 0
    MaxRestarts = 0
    NoBlock = NoBlock
INVARIANT MostSealWorkWins
CHECK_DEADLOCK FALSE
