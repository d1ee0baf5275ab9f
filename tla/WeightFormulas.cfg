\* Every fork, windows of 1 to 3 weights around the penalty free zones;
\* blocks of weight 10 000, 300 000, 410 000 and 700 000.
CONSTANTS
    UsizeBits = 30
    MaxLen = 3
    WindowWeights = {20000, 60000, 150001, 300000, 700000}
    MaxTxs = 1
    MinerTxWeights = {10000, 300000}
    TxWeights = {400000}
INIT Init
NEXT Next
INVARIANTS
    EffectiveMedianMatchesSpec
    LongTermWeightMatchesSpec
CHECK_DEADLOCK FALSE
