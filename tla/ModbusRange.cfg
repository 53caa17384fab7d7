SPECIFICATION FieldSpec
CONSTANTS
    Parts = {"rtu"}
    MaxClients = 2
    MaxFrames = 2
    MaxFailures = 1
    MaxRestarts = 1
    Writers = {"alarm", "mqtt"}
    MaxErrors = 1
    MaxPulses = 1
    MaxCommands = 1
    MaxOthers = 1
    MaxRefused = 1
    QueueLength = 1
    MasterSlots = 2
    Threshold = 2
    MaxChanges = 2
    MaxFaults = 1
    MaxBusFaults = 1
    MaxClockFaults = 1
    MaxCardFaults = 1
    MaxTime = 2
    MaxStarts = 1
    MaxSets = 2
    Debounce = 1
    FullAt = 2
    MaxRows = 5
    MaxPulls = 1
    SlotOrder <- MCSlotOrder
    Editions = {1, 2}
    MaxCuts = 1
PROPERTIES
    RangeApplied
