SPECIFICATION Spec
CONSTANTS
    None = None
    File = {f1, f2}
    TTL = {1}
    MaxNow = 1
    MaxRev = 2
    MaxRestarts = 1
INVARIANTS
    NoLeftovers
    ShownIsCurrent
PROPERTIES
    ExpiredFilesGo
    LivesOfFiles
CHECK_DEADLOCK FALSE
