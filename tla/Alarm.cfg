SPECIFICATION Spec
CONSTANTS
    v = v
    oc = oc
    VBits <- MCVBits
    OcBits <- MCOcBits
    FatalBits <- MCNoFatal
    MaxVer = 1
    Contents <- MCContentsOcComes
    Period = 4
INVARIANTS
    StaleLimitsMaskedUnlessLate
    RelayFollowsLatch
PROPERTIES
    LatchWindow
    OpenIncidents
