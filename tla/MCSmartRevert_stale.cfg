SPECIFICATION Spec
CONSTANTS
    vm1 = vm1
    tab1 = tab1
    VMs = {vm1}
    Browsers = {tab1}
    Worlds <- MCWatched
PROPERTY
    NoSilentLoss
