SPECIFICATION Spec
CONSTANTS
    p1 = p1
    p2 = p2
    d1 = d1
    d2 = d2
    Photos <- OnePhoto
    Devices <- OneDevice
    MaxFaults = 0
INVARIANT
    EveryNoteIsShown
CHECK_DEADLOCK FALSE
