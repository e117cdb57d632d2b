SPECIFICATION FairSpec
CONSTANTS
    p1 = p1
    p2 = p2
    r1 = r1
    r2 = r2
    small = small
    large = large
    Photos <- OnePhoto
    Requests <- TwoRequests
    Sizes <- TwoSizes
    MaxAttempts = 3
    MaxStalled = 1
    MaxFaults = 4
INVARIANTS
    Inductive
    RowAndOriginalFirst
    ThumbnailsAreStored
    FailedIsExhausted
    CompletedIsDone
    EventAfterCommit
PROPERTIES
    StatusOnlyAdvances
    JobRunsOnce
    EveryJobEnds
CHECK_DEADLOCK FALSE
