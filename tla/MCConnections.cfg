SPECIFICATION Spec
CONSTANTS
    c1 = c1
    c2 = c2
    w = w
    here = here
    None = None
    Conn = {c1, c2}
    Client = {w}
    Owner <- OneOwner
    Address <- OneAddress
    MaxGlobal = 2
    MaxPerIP = 2
    QueueCap = 1
SYMMETRY Symmetry
INVARIANTS
    SlotsCounted
    NoSendOnClosed
    NoGhostCursor
    
