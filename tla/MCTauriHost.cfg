SPECIFICATION Spec
CONSTANTS
    Platforms <- BothPlatforms
    None = None
    MaxInputs = 3
INVARIANTS
    WindowsAgree
PROPERTIES
    LaunchReveals
    HudHides
    WaitsEnd
CHECK_DEADLOCK FALSE
