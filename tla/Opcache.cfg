CONSTANTS
    Process = {p1, p2}
    File = {f1}
    None = None
    Capacity = 1
    MaxWasted = 1
    MaxTime = 2
    MaxRestarts = 1
    MaxKills = 1
SYMMETRY Alike
SPECIFICATION Spec
INVARIANTS
    TypeOK
    UsageExact
    OffOnlyForRestart
    SoundScriptsStay
    FreshCaches
