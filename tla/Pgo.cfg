CONSTANTS
    i1 = i1
    i2 = i2
    t1 = t1
    t2 = t2
    Process = {i1, i2, t1, t2}
    Tag <- Roles
    AskedModes = {"ex"}
    Cases <- TwoCases
    Commands <- Everything
    MaxRunning = 2
    Beside <- SameLock
    MaxPgc = 2
    Faults = {"fail", "site", "crash"}
SPECIFICATION MCSpec
INVARIANTS
    TypeOK
    LockUse
PROPERTIES
    TrainedExactly
    ServersStopped
    InitComplete
SYMMETRY Twins
