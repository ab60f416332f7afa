\* A watched repository is paused while a run is under way.
CONSTANTS
    Runners = {p1}
    Adders = {}
    Repos = {1}
    Commands = {"add", "pause"}
    TopicsSent = {TRUE}
    PromptAdds = TRUE
    MaxDay = 1
    MaxVersion = 1
    MaxInstant = 1

SPECIFICATION Spec
CHECK_DEADLOCK FALSE

PROPERTY RunsKeepPauses
