\* One failing new_block, then the same block retried.
CONSTANTS
    Window = 2
    StartHeights <- MCStartHeights
    MajorVersions <- MCMajorVersions
    MinorVersions <- MCMinorVersions
    MaxChainLength = 5
    MaxFailures = 1
INIT Init
NEXT Next
INVARIANTS
    FailedBlockRetriable
CHECK_DEADLOCK FALSE
