SPECIFICATION FairLaunchSpec
CONSTANTS
    MaxLaunches = 3
    None = None
    MaxMishaps = 1
INVARIANTS
    OneInstance
    SignInsStayQuiet
PROPERTY
    RequestsAreAnswered
CHECK_DEADLOCK FALSE
