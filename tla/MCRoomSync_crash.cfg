SPECIFICATION Spec
CONSTANTS
    None = None
    Client = {1}
    QueueCap = 1
    Lossy = TRUE
    MaxEdits = 3
    MaxVersion = 3
    MaxGeneration = 2
    MaxSeq = 0
    MaxDrops = 1
INVARIANTS
    NeverDiverges
CHECK_DEADLOCK FALSE
