SPECIFICATION FairSpec
CONSTANTS
    Full = 2
    PerPercent = 1
    Steps <- MCSteps
    Wasapi = FALSE
    Webviews = TRUE
    Errors = {init, lost}
    Ready = Ready
    None = None
    MaxFaults = 1
    MaxMeddles = 1
INVARIANTS
    CacheExact
    SilencedRemembers
PROPERTIES
    MirrorSpec
    CacheCatchesUp
