SPECIFICATION PageFairSpec
CONSTANTS
    ubuntu = ubuntu
    fedora = fedora
    s1 = s1
    s2 = s2
    none = none
    loading = loading
    failed = failed
    idle = idle
    asked = asked
    Machines = {ubuntu, fedora}
    Powers = {"running", "paused", "shutoff"}
    Trees <- MCTrees
    Starts <- MCStarts
    Nothing = none
    Loading = loading
    Failed = failed
    Idle = idle
    Asked = asked
    Slots = {1, 2}
    MaxChanges = 1
INVARIANTS
    PageTypeOK
    StartGuarded
PROPERTY
    CatchesUp
