SPECIFICATION Spec
CONSTANTS
    None = None
    p1 = p1
    p2 = p2
    Passwords = {p1, p2}
    Scenarios <- Cases
INVARIANTS
    OwnerIsNotGated
CHECK_DEADLOCK FALSE
