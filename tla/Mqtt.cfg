SPECIFICATION FairSpec
CONSTANTS
    menu = menu
    Operators <- MCOperators
    OtaStates <- MCOtaStates
INVARIANTS
    ConnectedIsTrue
    IoIsTold
PROPERTIES
    FollowsConfig
    OtaIsTold
