SPECIFICATION FairSpec
CONSTANTS
    None = None
    s1 = s1
    s2 = s2
    t1 = t1
    v1 = v1
    Ids <- TwoIds
    Tokens <- OneToken
    Visitors <- OneVisitor
    MaxTries = 2
    Throttle = 2
    MaxTime = 2
    MaxFaults = 1
INVARIANTS
    Inductive
    TokensAreUnique
    GoneStaysGone
    EveryVisitIsTold
    ViewedIsThrottled
PROPERTIES
    UnlockEndsWhileAlive
CHECK_DEADLOCK FALSE
