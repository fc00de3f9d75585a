SPECIFICATION FairSpec
CONSTANTS
    Worlds <- MCWorlds
    MaxPolls = 2
    MaxLate = 1
INVARIANTS
    TypeOK
    ToldTrue
PROPERTIES
    DetachesUnmounted
    Answered
