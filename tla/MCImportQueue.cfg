\* Two processes, two jobs, two attempts; the queue implements ImportService.
CONSTANTS
    Workers = {w1, w2}
    RepoIDs = {1}
    Requests <- TwoNames
    MaxJobs = 2
    ImportQueueLimit = 2
    ImportMaxAttempts = 2
    LeaseTicks = 2
    TimeoutTicks = 1
    ClaimSkew = 1
    MinuteTicks = 1
    MaxDelayTicks = 1

SYMMETRY Symmetry
SPECIFICATION Spec

INVARIANT TypeOK
INVARIANT ExclusiveWork
INVARIANT CopyIsCurrent
INVARIANT OutcomeIsDurable
INVARIANT LeaseDiscipline
PROPERTY CompletedStepsKept
PROPERTY ImplementsService
