SPECIFICATION SpecDisk
CONSTANTS
    empty = empty
    a = a
    b = b
    k1 = k1
    k2 = k2
    h1 = h1
    None = None
    Key = {k1}
    KeyOrder <- OneKey
    Handler = {h1}
    Reader = {}
    Text = {empty, a, b}
    EmptyText = empty
    TextLen <- MCTextLen
    TTL = {1}
    Password = {}
    Knows <- MCKnows
    Scope = {"edit"}
    MaxRooms = 1
    MaxTotal = 20
    MaxContent = 1
    MaxHistory = 1
    Throttle = 1
    RoomBase = 1
    ItemBytes = 1
    EntryBytes = 0
    MaxBatch = 1
    MaxNow = 1
    MaxVersion = 2
    MaxGeneration = 2
    MaxSalt = 0
    DiskFails = TRUE
    MaxRestarts = 1
PROPERTIES
    FilesCatchUp
    CloseReturns
CHECK_DEADLOCK FALSE
