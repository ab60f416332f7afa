\* The scheduled run and a second one started by hand.
CONSTANTS
    Runners = {p1, p2}
    Adders = {}
    Repos = {1}
    Commands = {"discover"}
    TopicsSent = {TRUE}
    PromptAdds = TRUE
    MaxDay = 2
    MaxVersion = 2
    MaxInstant = 1

SPECIFICATION Spec
CHECK_DEADLOCK FALSE

INVARIANT NotModifiedIsCurrent
