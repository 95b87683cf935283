\* An unsealed branch under an armed penalty moves the tip back.
SPECIFICATION Spec
CONSTANTS
    Blocks <- MCFork
    Proof <- MCForkProof
    Address <- MCForkAddress
    Weightings <- MCRearm
    MaxBad = 0
    MaxRestarts = 0
    NoBlock = NoBlock
INVARIANT ForwardProgress
CHECK_DEADLOCK FALSE
