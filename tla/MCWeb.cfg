\* Two handlers, one browser, two addresses for one bucket, three sessions;
\* two processes that assign two categories, one of them retired.
CONSTANTS
    Requests = {q1, q2}
    Browsers = {b1}
    Addresses = {x, y}
    u = u
    v = v
    Users = {u, v}
    None = None
    StateTicks = 1
    SessionTicks = 2
    WindowTicks = 1
    StartLimit = 2
    MaxAddresses = 1
    StateCapacity = 1
    SessionsPerUser = 2
    MaxTime = 2
    MaxDrawn = 7
    Writers = {w1, w2}
    Projects = {1}
    Slugs = {"multi-agent", "ai-agent"}
    Configured = {"multi-agent"}
    Texts <- TwoTexts
    Labels = {{}, {"multi-agent"}}
    Curated = {"multi-agent"}
    MaxRevision = 2

SYMMETRY Symmetric
SPECIFICATION WebSpec
CHECK_DEADLOCK FALSE

INVARIANT WebTypeOK
INVARIANT OneSessionPerLogin
INVARIANT DryRunForetells
PROPERTY PlacesAreLive
PROPERTY NewestSessionsSurvive
PROPERTY QuotaKept
PROPERTY RotationIsComplete
PROPERTY DecisionsStand
PROPERTY AnalysesKept
