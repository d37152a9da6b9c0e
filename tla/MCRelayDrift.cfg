\* Two announcements of one node at the same time.
CONSTANTS
    AddrBits = 4
    MaxRows <- MCRowsDrift
    NodeNames = {"n"}
    Keys = {"k1", "k2"}
    Platforms = {"openwrt"}
    ZoneNames = {"z1", "z2"}
    Hashes = {"h"}
    FirstIP = 2
    LastIP = 3
    RealBlocks <- MCRealBlocks
    SynthPool <- MCSynthPool
    MaxDevices = 0
    MaxOwnedZones = 0
    MaxAnnounced = 0
    Procs = {"p", "q"}
    Ops = {"createAnnouncement"}
    FaultKinds = {}
    MaxFaults = 0
    MaxCrashes = 0
    MaxAllocRetries = 2
SPECIFICATION SpecInUse
INVARIANT
    DriftFree
CHECK_DEADLOCK FALSE
