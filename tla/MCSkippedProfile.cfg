\* A discovery that is cancelled while it stores its candidates.
CONSTANTS
    Processes = {p1}
    Profiles = {"d"}
    PeriodDays <- EachDay
    Board = "board"
    MaxDay = 0
    MaxRows = 4

SPECIFICATION DailySpec
CHECK_DEADLOCK FALSE

PROPERTY SkippedProfileIsStored
