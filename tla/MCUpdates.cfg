SPECIFICATION UpdateSpec
CONSTANTS
    Installs = {i1, i2}
    None = None
    MaxChecks = 2
    MaxVersion = 1
    MaxFaults = 1
INVARIANTS
    ReadyHasPackage
    CardIsCurrent
SYMMETRY Interchangeable
CHECK_DEADLOCK FALSE
