SPECIFICATION Spec
CONSTANTS
    None = None
    Me = 1
    Peer = 2
    Rest = 3
    MaxUndo = 2
    MaxBatch = 1
    Drafts <- NoDraft
    MaxEdits = 3
    MaxPuts = 1
    MaxGeneration = 2
    MaxSends = 2
    MaxWire = 2
    MaxDrops = 1
INVARIANTS
    TextareaShowsDocument
    
    NothingTypedIsLost
PROPERTIES
    CompositionUntouched
    CaretsStick
CHECK_DEADLOCK FALSE
