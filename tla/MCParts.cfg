SPECIFICATION Spec
CONSTANTS
    None = None
    Newest = 2
    MaxInputs = 4
    MaxFaults = 1
    Modifiers = {"CtrlAlt", "Alt"}
    Apps = {"game"}
    Recommended <- MCRecommended
    StartDisks <- MCDisks
    MaxGestures = 4
    MaxFailures = 1
    Devices = {speakers, headset}
    Sessions = {1, 2}
    Process <- TwoOfOne
    MaxOperations = 3
    MaxCallFaults = 1
    MaxMoves = 1
    Rows = {1, 2, 3, 4, 5}
    SessionLists <- MCLists
    Matching <- MCQueries
    MaxGlass = 3
    Installers = {setup1, setup2}
    Page = page
    Torn = torn
    Older = older
    Answers <- MCAnswers
    Running <- MCRunning
    MaxPublications = 1
    MaxProcesses = 2
    MaxDownloads = 2
    MaxLaunches = 2
    MaxMishaps = 1
    TypedNames <- MCTyped
    Desktops <- MCDesktops
    Extensions <- MCExtensions
    Cut <- MCCut
    RecommendedLists <- MCRecommendedLists
    MaxBlockInputs = 4
    StartTexts <- MCStartTexts
    NewLines <- MCNewLines
    Tidy <- MCTidy
    Dragged = {1, 10, 50, 100, 300}
    Strokes <- MCStrokes
    MaxTextInputs = 3
    CardMaterials = {"Auto", "Opaque"}
    Bounds <- MCBounds
    Chords = {"CtrlAlt", "CapsLock"}
    Heard <- MCHeard
    TextWidth <- MCTextWidth
    Statuses <- MCStatuses
    MaxCards = 2
    MaxCardFaults = 1
INVARIANTS
    CopiesAgree
    LegacyWindowIsHonest
    AudioIsSound
    GlassIsHonest
    PackagesAreWhole
    BlockingIsHonest
    ResultsAreRight
    CardsAreHonest
PROPERTIES
    DraftIsTheUsers
CHECK_DEADLOCK FALSE
