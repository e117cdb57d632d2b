SPECIFICATION Spec
CONSTANTS
    p1 = p1
    p2 = p2
    d1 = d1
    d2 = d2
    Photos <- TwoPhotos
    Devices <- OneDevice
    MaxFaults = 2
INVARIANTS
    NotedMeansShown
    NeverContradicts
SYMMETRY PhotoSymmetry
CHECK_DEADLOCK FALSE
