SPECIFICATION FairPages
CONSTANTS
    None = None
    Top = 2
    Half = 1
    StreamIds = {1, 2}
    StreamTops = {1, 2}
    Modifiers <- TwoModifiers
    MixerInputs = 3
    SettingsInputs = 5
INVARIANTS
    PagesAgree
PROPERTY
    RowsCatchUp
CHECK_DEADLOCK FALSE
