SPECIFICATION FieldSpec
CONSTANTS
    Parts = {"tcp", "io", "rtu", "bus", "time", "card", "portal"}
    MaxClients = 2
    MaxFrames = 2
    MaxFailures = 1
    MaxRestarts = 2
    Writers = {"alarm", "mqtt"}
    MaxErrors = 1
    MaxPulses = 1
    MaxCommands = 2
    MaxOthers = 1
    MaxRefused = 1
    QueueLength = 1
    MasterSlots = 2
    Threshold = 2
    MaxChanges = 2
    MaxFaults = 1
    MaxBusFaults = 1
    MaxClockFaults = 1
    MaxCardFaults = 1
    MaxTime = 2
    MaxStarts = 1
    MaxSets = 2
    Debounce = 1
    FullAt = 2
    MaxRows = 5
    MaxPulls = 1
    SlotOrder <- MCSlotOrder
    Editions = {1, 2}
    MaxCuts = 1
INVARIANTS
    TypesOK
    CommandOutlives
    InputsReported
    ResetIsWhole
    MasterFollowsConfig
    FloorAndTrust
    LogReadsInOrder
    CertificateIsWhole
PROPERTIES
    AppliedAsWritten
    OtherRelayStays
