SPECIFICATION FairSpec
CONSTANTS
    MaxInputs = 3
    MaxFaults = 1
INVARIANTS
    SurfacesAgree
    MirrorFollowsCore
PROPERTIES
    EndsComeAbout
CHECK_DEADLOCK FALSE
