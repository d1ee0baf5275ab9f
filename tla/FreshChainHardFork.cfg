\* HardForkState::init_from_chain_height(0), in a debug and a release build.
CONSTANTS
    ShortTermWindow = 2
    LongTermWindow = 3
    Weights = {1, 2}
    MaxChainLength = 5
    U64Bits = 4
INIT Init
NEXT Next
INVARIANT
    FreshChainStartsAtV1
CHECK_DEADLOCK FALSE
