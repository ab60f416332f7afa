\* Three jobs compete for two places; a request may conflict with a pending one.
CONSTANTS
    Workers = {w1}
    RepoIDs = {1}
    Requests <- Conflicting
    MaxJobs = 3
    ImportQueueLimit = 2
    ImportMaxAttempts = 2
    LeaseTicks = 1
    TimeoutTicks = 1
    ClaimSkew = 0
    MinuteTicks = 1
    MaxDelayTicks = 1

SPECIFICATION Spec

INVARIANT OnePendingPerRepository
INVARIANT QueueBounded
