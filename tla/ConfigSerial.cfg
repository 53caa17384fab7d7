SPECIFICATION PartSpec
CONSTANTS
    lcd = lcd
    portal = portal
    factory = factory
    changed = changed
    edited = edited
    Tasks <- MCTasks
    Values <- MCTwoValues
    Default <- factory
    NoBlob = NoBlob
    Overlap = FALSE
    LegacyMayFail = FALSE
    SnapMayFail = TRUE
    EraseMayFail = FALSE
    ResetMayBeCut = FALSE
    Parts = {"store", "panel", "sound"}
    MaxWrites = 1
    MaxEdits = 1
    MaxFails = 1
    On = 1
    Off = 4
    MaxLost = 1
SYMMETRY MCSymmetry
INVARIANTS
    TypesOK
    ShadowAgrees
    MirrorsFollowConfig
    OnePressOneDecision
    BeepReturns
PROPERTIES
    RetryIsStored
    FieldByField
    KeepsOthersWork
