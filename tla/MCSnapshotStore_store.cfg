SPECIFICATION Spec
CONSTANTS
    s1 = s1
    s2 = s2
    s3 = s3
    vda = vda
    vdb = vdb
    none = none
    Names = {s1, s2, s3}
    Disks = {vda, vdb}
    None = none
    Worlds <- MCWorlds
SYMMETRY MCSymmetry
INVARIANTS
    TypeOK
    MetaHasData
    CleanupComplete
PROPERTIES
    DeleteLeavesNoOrphan
    EditIsInnocent
