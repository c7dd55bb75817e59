SPECIFICATION FairSpec
CONSTANTS
    Modifiers <- TwoModifiers
    Recorded = {}
    Lists <- CleanLists
    Times = {t1, t2, t3, t4}
    Egui = TRUE
    Legacy <- SomeLegacy
    Edits <- SomeEdits
    Absent = Absent
    Bad = Bad
    None = None
    MaxFaults = 1
INVARIANTS
    ListenerFollowsConfig
    MemoryAndFileAgree
    MigrationIsFaithful
PROPERTIES
    EditsAreAdopted
