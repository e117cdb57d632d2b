SPECIFICATION Spec
CONSTANTS
    None = None
    s1 = s1
    s2 = s2
    t1 = t1
    v1 = v1
    Ids <- OneId
    Tokens <- OneToken
    Visitors <- OneVisitor
    MaxTries = 1
    Throttle = 2
    MaxTime = 1
    MaxFaults = 0
INVARIANTS
    ExpiredIsTold
CHECK_DEADLOCK FALSE
