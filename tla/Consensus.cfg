\* Both caches under one validator across the V10 and V15 activations.
CONSTANTS
    Window = 3
    ShortTermWindow = 3
    LongTermWindow = 3
    StartHeights <- MCStartHeights
    MajorVersions <- MCMajorVersions
    MinorVersions <- MCMinorVersions
    BlockWeights <- MCBlockWeights
    LongTermWeights <- MCLongTermWeights
    MaxChainLength = 7
    UsizeBits = 30
INIT Init
NEXT Next
INVARIANTS
    EffectiveMedianMatchesChain
    LongTermWeightsFollowSpec
CHECK_DEADLOCK FALSE
