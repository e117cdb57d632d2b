SPECIFICATION Spec
CONSTANTS
    p1 = p1
    p2 = p2
    r1 = r1
    r2 = r2
    small = small
    large = large
    Photos <- OnePhoto
    Requests <- OneRequest
    Sizes <- TwoSizes
    MaxAttempts = 3
    MaxStalled = 1
    MaxFaults = 1
INVARIANT
    PendingHasJob
CHECK_DEADLOCK FALSE
