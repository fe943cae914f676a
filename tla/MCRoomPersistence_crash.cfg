SPECIFICATION SpecDisk
CONSTANTS
    empty = empty
    a = a
    b = b
    k1 = k1
    k2 = k2
    h1 = h1
    None = None
    Key = {k1, k2}
    KeyOrder <- TwoKeys
    Handler = {h1}
    Reader = {}
    Text = {empty, a}
    EmptyText = empty
    TextLen <- MCTextLen
    TTL = {1}
    Password = {}
    Knows <- MCKnows
    Scope = {"edit"}
    MaxRooms = 2
    MaxTotal = 5
    MaxContent = 2
    MaxHistory = 0
    Throttle = 1
    RoomBase = 1
    ItemBytes = 1
    EntryBytes = 0
    MaxBatch = 1
    MaxNow = 1
    MaxVersion = 2
    MaxGeneration = 2
    MaxSalt = 0
    DiskFails = TRUE
    MaxRestarts = 1
INVARIANTS
    Accounting
    Limits
    NoLostWrite

    
CHECK_DEADLOCK FALSE
