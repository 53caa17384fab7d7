SPECIFICATION FairSpec
CONSTANTS
    console = console
    Operators <- MCOperators
    Debounce = 1
    IdleTimeout = 0
    MaxEvents = 2
PROPERTIES
    PauseEnds
