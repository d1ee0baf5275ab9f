CONSTANTS
    ShortTermWindow = 2
    LongTermWindow = 3
    StartHeights <- MCStartHeights
    Weights <- MCWeights
    MaxChainLength = 6
    MaxFailures = 1
INIT Init
NEXT Next
INVARIANTS
    LongTermWindowBound
CHECK_DEADLOCK FALSE
