CONSTANTS
    p1 = p1
    p2 = p2
    p3 = p3
    p4 = p4
    Process <- FourProcesses
    Tag <- TwoTags
    AskedModes = {"sh", "ex"}
SPECIFICATION LockSpec
INVARIANTS
    LockedExcludes
    LockInv
PROPERTIES
    ImplementsRWLock
