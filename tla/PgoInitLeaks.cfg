CONSTANTS
    i1 = i1
    i2 = i2
    t1 = t1
    t2 = t2
    Process = {i1, i2, t1, t2}
    Tag <- Roles
    AskedModes = {"ex"}
    Cases <- OneCase
    Commands <- InitAndTrain
    MaxRunning = 2
    Beside <- AnyTwo
    MaxPgc = 2
    Faults = {}
SPECIFICATION MCSpec
PROPERTIES
    InitDataWasted
