\* One request at a time, every handler, one failing call.
CONSTANTS
    AddrBits = 4
    MaxRows <- MCRowsSeq
    NodeNames = {"n"}
    Keys = {k1, k2}
    Platforms = {"openwrt"}
    ZoneNames = {za, zb}
    Hashes = {"h"}
    FirstIP = 2
    LastIP = 3
    RealBlocks <- MCOneBlock
    SynthPool <- MCSynthPool
    MaxDevices = 0
    MaxOwnedZones = 0
    MaxAnnounced = 0
    Procs = {"p"}
    Ops = {"register", "registerNode", "deleteNode", "createZone", "joinZone", "leaveZone",
           "kickMember", "changeZonePassword", "deleteZone", "createAnnouncement",
           "deleteAnnouncement", "deleteUser"}
    FaultKinds = {"kernel", "db"}
    MaxFaults = 1
    MaxCrashes = 0
    MaxAllocRetries = 2
SPECIFICATION SpecRelay
INVARIANTS
    DriftFree
    NothingMissing
    NoLeakedBlock
PROPERTIES
    SpecStore
    MirrorsDatabase
SYMMETRY MCSymmetry
CHECK_DEADLOCK FALSE
