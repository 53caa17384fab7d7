SPECIFICATION FairSpec
CONSTANTS
    lcd = lcd
    mqtt = mqtt
    Callers <- MCCallers
    Versions <- MCVersions
    Flashed = 2
    MayLackMemory = TRUE
    TimerMayFail = TRUE
INVARIANTS
    OneWorker
    ProbationKnown
PROPERTIES
    ImageOnTrial
    RequestsEnd
    HealthyImageCommits
