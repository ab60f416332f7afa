\* Two callers of the client; two processes at one repository, or one process at
\* three repositories for two places.
CONSTANTS
    Callers = {c1, c2}
    Nobody = Nobody
    Kinds = {"repository", "readme", "activity", "search"}
    CoreInterval = 1
    SearchInterval = 1
    ServerBackoff = 1
    SecondaryBackoff = 1
    MaxRetries = 1
    MaxPages = 1
    MaxWindow = 1
    Runners = {1, 2}
    Repos = {1, 2, 3}
    Limit = 2
    PageSize = 1
    Window = 2
    StaleTicks = 2
    CallTicks = 1
    MaxPushes = 3
    ActivityPages = 2

SPECIFICATION CollectorSpec
CHECK_DEADLOCK FALSE

INVARIANT CollectorTypeOK
INVARIANT ReportAddsUp
PROPERTY SpacedRequests
PROPERTY CallsReturn
PROPERTY CountsAreWhole
PROPERTY CacheMovesForward
PROPERTY EachIsObserved
