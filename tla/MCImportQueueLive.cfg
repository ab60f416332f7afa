\* Liveness: one process that may crash and restart forever, two jobs.
CONSTANTS
    Workers = {w1}
    RepoIDs = {1}
    Requests <- TwoNames
    MaxJobs = 2
    ImportQueueLimit = 2
    ImportMaxAttempts = 2
    LeaseTicks = 2
    TimeoutTicks = 1
    ClaimSkew = 1
    MinuteTicks = 1
    MaxDelayTicks = 1

SPECIFICATION FairSpec

PROPERTY AcceptedJobsFinish
