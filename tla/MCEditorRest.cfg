SPECIFICATION SpecRest
CONSTANTS
    None = None
    Me = 1
    Peer = 2
    Rest = 3
    MaxUndo = 2
    MaxBatch = 1
    Drafts <- NoDraft
    MaxEdits = 2
    MaxPuts = 0
    MaxGeneration = 2
    MaxSends = 1
    MaxWire = 2
    MaxDrops = 1
    MaxFails = 1
    MaxChases = 0
    MaxPolls = 1
INVARIANTS
    ShownOrPut
    
    
PROPERTIES
    PutReplacesWhatItKnew
    SavesEnd
CHECK_DEADLOCK FALSE
