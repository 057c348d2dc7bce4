CONSTANTS
    Branch <- MCBranch
    Crt <- MCCrt
    None = None
    Options <- MCOptions
    Environments <- MCEnvironments
    Listings <- MCListings
SPECIFICATION Spec
INVARIANTS
    ResolvesRight
    RefusesRight
    ConfigInv
PROPERTIES
    OneSeries
