CONSTANTS
    Process = {p1, p2}
    File = {f1}
    None = None
    Capacity = 1
    MaxWasted = 1
    MaxTime = 1
    MaxRestarts = 1
    MaxKills = 0
SPECIFICATION Spec
PROPERTY RestartHappens
