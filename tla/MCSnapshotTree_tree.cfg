SPECIFICATION Spec
CONSTANTS
    s1 = s1
    s2 = s2
    s3 = s3
    s4 = s4
    none = none
    Snaps = {s1, s2, s3, s4}
    None = none
    MaxStack = 2
    External = TRUE
    XmlFaults = TRUE
    CallFaults = TRUE
SYMMETRY MCSymmetry
INVARIANTS
    TypeOK
    AllReachable
    OwnParent
    TreeEnds
    CurrentShown
