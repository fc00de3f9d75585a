SPECIFICATION Spec
CONSTANTS
    vm1 = vm1
    vm2 = vm2
    vm3 = vm3
    Names = {vm1, vm2, vm3}
    MaxTracked = 2
    HasPath = TRUE
    Found <- MCFound
    Worlds <- MCWorlds
INVARIANTS
    TypeOK
    NeverBroken
    DiskFollowsMemory
    MarkedDirtyStaysDirty
PROPERTY
    ImplementsLedger
