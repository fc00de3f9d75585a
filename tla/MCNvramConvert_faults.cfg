SPECIFICATION Spec
CONSTANTS
    Bare = FALSE
    Disturbed = FALSE
    MaxWrites = 3
INVARIANTS
    TypeOK
    NvramKept
    SnapshotsWork
