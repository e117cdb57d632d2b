SPECIFICATION FairSpec
CONSTANTS
    a = a
    b = b
    r1 = r1
    r2 = r2
    g1 = g1
    g2 = g2
    Account = {a}
    Request = {r1, r2}
    Form = {g1}
    MaxScreens = 2
    AccessLife = 1
    RefreshLife = 2
    MaxTime = 2
    MaxCrashes = 1
    MaxLost = 1
    MaxFaults = 1
INVARIANTS
    OneRefreshServesAll
PROPERTIES
    EveryRequestEnds
CHECK_DEADLOCK FALSE
