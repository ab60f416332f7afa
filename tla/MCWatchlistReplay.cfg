\* A paused repository is both found by a source and listed on the watchlist.
CONSTANTS
    Runners = {p1}
    Adders = {}
    Repos = {1}
    Commands = {"discover", "pause"}
    TopicsSent = {TRUE}
    PromptAdds = TRUE
    MaxDay = 1
    MaxVersion = 1
    MaxInstant = 2

SPECIFICATION Spec
CHECK_DEADLOCK FALSE

PROPERTY DiscoveryKeepsPauses
