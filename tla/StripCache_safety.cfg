SPECIFICATION Spec
CONSTANTS
    p1 = p1
    p2 = p2
    v1 = v1
    v2 = v2
    all = all
    gps_only = gps_only
    NoStrip = NoStrip
    All = all
    GpsOnly = gps_only
    Variants <- TwoVariants
    Visits <- TwoVisits
    Photos <- TwoPhotos
    MaxFaults = 1
SYMMETRY Symmetry
INVARIANTS
    Inductive
    AnswerIsStored
    LocationIsWithheld
PROPERTIES
    LossNeedsStaleRead
CHECK_DEADLOCK FALSE
