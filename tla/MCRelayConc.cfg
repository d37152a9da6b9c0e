\* Two concurrent requests of the handlers that add and remove memberships and announcements.
CONSTANTS
    AddrBits = 4
    MaxRows <- MCRowsConc
    NodeNames = {"n"}
    Keys = {"k1", "k2"}
    Platforms = {"openwrt"}
    ZoneNames = {"z1", "z2"}
    Hashes = {"h"}
    FirstIP = 2
    LastIP = 3
    RealBlocks <- MCOneBlock
    SynthPool <- MCSynthPool
    MaxDevices = 0
    MaxOwnedZones = 0
    MaxAnnounced = 0
    Procs = {p, q}
    Ops = {"deleteNode", "joinZone", "leaveZone", "kickMember",
           "createAnnouncement", "deleteAnnouncement", "deleteUser"}
    FaultKinds = {}
    MaxFaults = 0
    MaxCrashes = 1
    MaxAllocRetries = 2
SPECIFICATION SpecInUse
INVARIANTS
    OnlyMembersAnnounce
PROPERTIES
    RestartHeals
SYMMETRY MCProcsAlike
CHECK_DEADLOCK FALSE
