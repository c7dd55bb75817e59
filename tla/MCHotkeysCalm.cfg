SPECIFICATION FairSpec
CONSTANTS
    k1 = k1
    k2 = k2
    None = None
    Initial <- StartSet
    Combos = {k1, k2}
    Actions <- MCActions
    VolumeActions <- MCVolume
    Shortcuts <- TwoSets
    Calm = TRUE
    Spurious = TRUE
    MaxPresses = 2
    MaxFaults = 1
    MaxRebinds = 1
    MaxQueue = 1
INVARIANTS
    StatusIsHonest
PROPERTIES
    OnePressOneAction
    Settles
CHECK_DEADLOCK FALSE
