\* Both builds start both caches on an empty chain; the validator then adds
\* up to five blocks to the weight cache.
CONSTANTS
    ShortTermWindow = 2
    LongTermWindow = 3
    Weights = {1, 2}
    MaxChainLength = 5
    U64Bits = 4
INIT Init
NEXT Next
INVARIANTS
    ReleaseCacheTracksChain
CHECK_DEADLOCK FALSE
