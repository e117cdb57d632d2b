SPECIFICATION FairSpec
CONSTANTS
    p1 = p1
    p2 = p2
    d1 = d1
    d2 = d2
    Photos <- TwoPhotos
    Devices <- OneDevice
    MaxFaults = 0
PROPERTIES
    StreamReplacesPolling
CHECK_DEADLOCK FALSE
