CONSTANTS
    p1 = p1
    p2 = p2
    p3 = p3
    k1 = k1
    k2 = k2
    Process = {p1, p2}
    Package = {k1}
    Tag <- OneTag
    AskedModes = {"ex"}
    MaxSeries = 2
    MaxMinute = 1
    Commands <- Mixed
    Events = {"fetch", "fs", "crash"}
SPECIFICATION FairSpec
INVARIANTS
    TypeOK
    LockUse
PROPERTIES
    Isolated
    Terminates
