SPECIFICATION Spec
CONSTANTS
    config1 = config1
    override1 = override1
    override2 = override2
    baseA = baseA
    baseB = baseB
    raw = raw
    none = none
    some = some
    spaced = spaced
    ConfigPage <- OneConfigPage
    OverridePage <- TwoOverridePages
    Text <- Texts
    Items <- Lists
    Submitted <- Documents
    Default <- DefaultText
    Empty = none
    NoFile = NoFile
    None = None
    Merge <- Merged
    Normalize <- Trimmed
    MaxOrders = 3
    MaxPending = 2
    MaxLost = 1
SYMMETRY Interchangeable
INVARIANTS
    TypeOK
    CleanIsStored
PROPERTIES
    NoLostUpdate
    AppliedIsPreviewed
