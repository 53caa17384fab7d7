SPECIFICATION Spec
CONSTANTS
    meter = meter
    panel = panel
    Tasks <- MCTasks
    Meter <- meter
    SeqMod = 4
    Threshold = 2
    PeriodTicks = 1
    Windows <- MCWindows
    DefaultWindow = 15
    MaxStep = 1
    MaxWh = 2
    MaxPeak = 0
    MaxEpoch = 1
    FailKinds <- MCNoFails
    Overlap = TRUE
    MeterMayFail = FALSE
PROPERTIES
    ResetNotUndone
