CONSTANTS
    p1 = p1
    p2 = p2
    p3 = p3
    k1 = k1
    k2 = k2
    Process = {p1}
    Package = {k1, k2}
    Tag <- OneTag
    AskedModes = {"ex"}
    MaxSeries = 3
    MaxMinute = 2
    Commands <- Ordinary
    Events = {"fs", "crash"}
SPECIFICATION Spec
INVARIANTS
    AllClearIsTrue
PROPERTIES
    NothingLost
    KeepsPromises
