CONSTANTS
    Packages <- MCPackages
    Zips = {"nginx", "joomla"}
SPECIFICATION Spec
INVARIANTS
    PackageInv
    SuccessInstalls
PROPERTIES
    UnforcedNeverBreaks
    FailureIsProgress
    Heals
