SPECIFICATION FairSpec
CONSTANTS
    p1 = p1
    p2 = p2
    d1 = d1
    d2 = d2
    Photos <- OnePhoto
    Devices <- OneDevice
    MaxFaults = 1
PROPERTIES
    MissedIsRecovered
CHECK_DEADLOCK FALSE
