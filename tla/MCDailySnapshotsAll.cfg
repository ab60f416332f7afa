\* One run beside an add in flight, every command and the imports of tags and legacy data.
CONSTANTS
    Runners = {p1}
    Adders = {a1}
    Repos = {1}
    Commands = {"discover", "add", "pause", "resume", "tags", "legacy"}
    TopicsSent = {TRUE, FALSE}
    PromptAdds = FALSE
    MaxDay = 2
    MaxVersion = 2
    MaxInstant = 1

SPECIFICATION Spec
CHECK_DEADLOCK FALSE

INVARIANT TypeOK
PROPERTY SuccessIsFinal
