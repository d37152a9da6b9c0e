CONSTANTS
    AddrBits = 4
    MaxRows <- MCMaxRows
    NodeNames = {"n"}
    Keys = {k1, k2}
    Platforms = {"openwrt"}
    ZoneNames = {za, zb}
    Hashes = {h}
    FirstIP = 2
    LastIP = 3
    RealBlocks <- MCRealBlocks
    SynthPool <- MCSynthPool
    MaxDevices = 1
    MaxOwnedZones = 1
    MaxAnnounced = 1
SPECIFICATION SpecStore
INVARIANTS
    StoreTypeOK
    ReferentialIntegrity
    AnnouncementsDisjoint
    NodesDistinct
    CapsRespected
    SomeAdmin
PROPERTY
    OrphansOnlyByZoneDelete
SYMMETRY MCSymmetry
CHECK_DEADLOCK FALSE
