SPECIFICATION FairSpec
CONSTANTS
    ann = ann
    bob = bob
    curl = curl
    none = none
    Visitors = {ann}
    Probe = curl
    Nobody = none
    Threshold = 1
    CallSeconds = 1
    MaxFaults = 2
    Chars <- MCChars
    Keys <- MCKeys
    Values <- MCValues
    Default = "default"
    MaxLine = 10
    MaxValue = 3
    MaxFile = 6
    MaxFiles = 3
INVARIANTS
    ServiceTypeOK
    ReadyWhileBusy
    ConfigRead
PROPERTY
    VisitorServed
