\* One daily process over two days; three results for a limit of two, read on
\* pages of one; two renames of two repositories; three days of counts on two pages.
CONSTANTS
    Processes = {p1}
    Profiles = {"d"}
    PeriodDays <- EachDay
    Board = "board"
    MaxDay = 1
    MaxRows = 3
    Matches = {1, 2, 3}
    Today = 2
    MaxItems = 2
    PageSize = 1
    MaxDepth = 2
    MaxChanges = 1
    r1 = r1
    r2 = r2
    n1 = n1
    n2 = n2
    Repos = {r1, r2}
    Names = {n1, n2, n3}
    Channels = {"legacy", "manual"}
    MaxInstant = 2
    MaxFound = 2
    None = None
    Repositories = {1, 2, 3}
    AsOf = 2
    HistoryDays = 1
    WindowDays = 1
    MaxStars = 1
    Limit = 1
    MaxStored = 1

SPECIFICATION PlanningSpec
CHECK_DEADLOCK FALSE

INVARIANT PlanningTypeOK
INVARIANT SuccessIsWhole
INVARIANT CompleteIsWhole
INVARIANT IdentityOutlivesNames
INVARIANT GrowthIsCountedOnce
INVARIANT CurvesCompareOnePopulation
INVARIANT ListShowsEachOnce
PROPERTY SkippedBoardIsStored
PROPERTY ProfilesComeRound
