SPECIFICATION Spec
CONSTANTS
    Doc = {1, 2, 3}
    Folder = {2, 3}
    Batches = 2
    Retries = 1
    MaxPushes = 3
    MaxFaults = 2
INVARIANTS
    NothingTwice
    NothingMissed
PROPERTIES
    WrittenIsWhole
CHECK_DEADLOCK FALSE
