\* One scheduled run at a time beside discovery, adds and the watch commands.
CONSTANTS
    Runners = {p1}
    Adders = {a1}
    Repos = {1, 2}
    Commands = {"discover", "add", "pause", "resume"}
    TopicsSent = {TRUE}
    PromptAdds = TRUE
    MaxDay = 3
    MaxVersion = 2
    MaxInstant = 2
    Deep = 1
    WideDays = 2

SPECIFICATION SidedSpec
CHECK_DEADLOCK FALSE

INVARIANT NotModifiedIsCurrent
INVARIANT CountsAreOfTheirDay
PROPERTY UnrequestedStayMissing
