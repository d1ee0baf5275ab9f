CONSTANTS
    Window = 2
    StartHeights <- MCStartHeights
    MajorVersions <- MCMajorVersions
    MinorVersions <- MCMinorVersions
    MaxChainLength = 5
    MaxFailures = 2
INIT Init
NEXT Next
INVARIANTS
    VotesForMatchesWindow
CHECK_DEADLOCK FALSE
