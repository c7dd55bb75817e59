SPECIFICATION Spec
CONSTANTS
    Platforms <- BothPlatforms
    None = None
    MaxInputs = 3
INVARIANT
    NeverStuck
CHECK_DEADLOCK FALSE
