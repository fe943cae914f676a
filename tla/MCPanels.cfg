SPECIFICATION Spec
CONSTANTS
    None = None
    p1 = p1
    p2 = p2
    Passwords = {p1, p2}
    Scenarios <- Cases
INVARIANTS
    
    
    StoredOnce
PROPERTIES
    AuthEnds
    ListCatchesUp
CHECK_DEADLOCK FALSE
