SPECIFICATION Spec
CONSTANTS
    empty = empty
    a = a
    b = b
    h1 = h1
    h2 = h2
    secret1 = secret1
    secret2 = secret2
    None = None
    Key = {k1}
    Handler = {h1, h2}
    Reader = {h1}
    Text = {empty, a, b}
    EmptyText = empty
    TextLen <- MCTextLen
    TTL = {1}
    Password = {secret1}
    Knows <- MCKnows
    Scope = {"edit", "view"}
    MaxRooms = 1
    MaxTotal = 20
    MaxContent = 2
    MaxHistory = 1
    Throttle = 1
    RoomBase = 1
    ItemBytes = 1
    EntryBytes = 0
    MaxBatch = 1
    MaxNow = 1
    MaxVersion = 2
    MaxGeneration = 2
    MaxSalt = 3
SYMMETRY TextSymmetry

    
PROPERTIES
    VersionIdentifiesDocument
    NoLostUpdate
    AuthorizedWrites
CHECK_DEADLOCK FALSE
