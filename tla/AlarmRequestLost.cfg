SPECIFICATION Spec
CONSTANTS
    v = v
    oc = oc
    VBits <- MCVBits
    OcBits <- MCOcBits
    FatalBits <- MCNoFatal
    MaxVer = 1
    Contents <- MCContents
    Period = 4
INVARIANTS
    StaleLimitsMasked
