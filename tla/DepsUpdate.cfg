CONSTANTS
    p1 = p1
    p2 = p2
    p3 = p3
    k1 = k1
    k2 = k2
    Process = {p1, p2, p3}
    Package = {k1, k2}
    Tag <- OneTag
    AskedModes = {"ex"}
    MaxSeries = 2
    MaxMinute = 1
    Commands <- Ordinary
    Events = {"removeDeps"}
SPECIFICATION Spec
INVARIANTS
    DepsInv
PROPERTIES
    WaiterReportTrue
    SuccessIsWhole
    KeepsPromises
