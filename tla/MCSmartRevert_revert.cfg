SPECIFICATION Spec
CONSTANTS
    vm1 = vm1
    tab1 = tab1
    VMs = {vm1}
    Browsers = {tab1}
    Worlds <- MCWorlds
INVARIANTS
    TypeOK
    WarnedIfDiverged
    
    WatchedIsRemembered
PROPERTIES
    NoRevertWhileRunning
    SavedBeforeRevert
