SPECIFICATION FairSpec
CONSTANTS
    meter = meter
    panel = panel
    Tasks <- MCTasks
    Meter <- meter
    SeqMod = 8
    Threshold = 2
    PeriodTicks = 1
    Windows <- MCWindows
    DefaultWindow = 15
    MaxStep = 1
    MaxWh = 2
    MaxPeak = 0
    MaxEpoch = 0
    FailKinds <- MCNoFails
    Overlap = FALSE
    MeterMayFail = TRUE
PROPERTIES
    NeverBackToZero
