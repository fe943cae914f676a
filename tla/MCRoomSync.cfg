SPECIFICATION Spec
CONSTANTS
    None = None
    Client = {1}
    QueueCap = 1
    Lossy = TRUE
    MaxEdits = 2
    MaxVersion = 2
    MaxGeneration = 2
    MaxSeq = 1
    MaxDrops = 1
INVARIANTS
    WatcherAgrees
PROPERTIES
    GivesUpOnlyConfirmed
    WatcherCatchesUp
CHECK_DEADLOCK FALSE
