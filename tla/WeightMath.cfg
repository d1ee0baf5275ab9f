CONSTANTS
    UsizeBits = 4
    MaxLen = 4
INIT Init
NEXT Extend
INVARIANTS
    MedianMatchesReference
CHECK_DEADLOCK FALSE
