CONSTANTS
    Window = 2
    StartHeights <- MCStartHeights
    MajorVersions <- MCMajorVersions
    MinorVersions <- MCMinorVersions
    MaxChainLength = 5
    MaxFailures = 1
INIT Init
NEXT Next
INVARIANTS
    AcceptedVersionsFollowSchedule
CHECK_DEADLOCK FALSE
