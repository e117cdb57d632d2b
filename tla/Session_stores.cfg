SPECIFICATION Spec
CONSTANTS
    a = a
    b = b
    r1 = r1
    r2 = r2
    g1 = g1
    g2 = g2
    Account = {a, b}
    Request = {r1, r2}
    Form = {g1, g2}
    MaxScreens = 1
    AccessLife = 1
    RefreshLife = 2
    MaxTime = 3
    MaxCrashes = 1
    MaxLost = 1
    MaxFaults = 1
INVARIANTS
    Inductive
PROPERTIES
    OnlyFaultsEndSessions
    RefreshMovesForward
SYMMETRY Symmetry
CHECK_DEADLOCK FALSE
