\* Concurrent requests that only add: registrations, zones, joins.
CONSTANTS
    AddrBits = 4
    MaxRows <- MCRowsGrow
    NodeNames = {"n", "m"}
    Keys = {"k1", "k2"}
    Platforms = {"openwrt"}
    ZoneNames = {"z"}
    Hashes = {"h"}
    FirstIP = 2
    LastIP = 3
    RealBlocks <- MCOneBlock
    SynthPool <- MCSynthPool
    MaxDevices = 0
    MaxOwnedZones = 0
    MaxAnnounced = 0
    Procs = {"p", "q"}
    Ops = {"registerNode", "createZone", "joinZone"}
    FaultKinds = {"kernel"}
    MaxFaults = 1
    MaxCrashes = 1
    MaxAllocRetries = 2
SPECIFICATION SpecRelay
INVARIANTS
    RelayTypeOK
    NothingMissing
PROPERTY
    HandlersFinish
CHECK_DEADLOCK FALSE
