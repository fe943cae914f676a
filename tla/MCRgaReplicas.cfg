SPECIFICATION Spec
CONSTANTS
    Site = {1, 2, 3}
    Text <- MCText
    MaxBatches = 3
INVARIANTS
    Convergence
    OneOrder
    EditShowsText
    SnapshotsLossless
CHECK_DEADLOCK FALSE
