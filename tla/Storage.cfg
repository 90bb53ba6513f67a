\* FAT, EXT2 and the disk.
CONSTANTS
    a = a
    b = b
    Clusters = {2, 3, 4}
    ClusterSize = 2
    Sizes = {0, 2, 3}
    RootSlots = 2
    DirSlots = 1
    FatNames = {a, b}
    Handles = {1}
    MaxFaults = 1
    NIB = 2
    SectorBytes = 4
    TableValues = {0, 5}
    Volumes <- SmallVolumes
    BaseMax = 2
    ExtMax = 1
    Characters = {"a", "A", "1", ".", "/"}
    Refused = {"/"}
    Raised <- Capital
    Period = "."
    Space = " "
    NameMax = 4
    DirEntries = 2
    f1 = f1
    f2 = f2
    Groups = 2
    PerGroup = 2
    Meta = 1
    Direct = 2
    Files = {f1, f2}
    Opens = {1, 2}
    NewNames <- RecLens
    DirBlock = 6
    MaxE2Faults = 1
    ReportedSizes = {0, 4}
    LBA28_LIMIT = 3
    Counts = {0, 1, 2}
    SectorValues = {1}
    MaxLosses = 1
    MBRs <- SomeMBRs
SYMMETRY Alike
SPECIFICATION StorageSpec
INVARIANTS  NoClusterLost TableSound NamesSound 
PROPERTIES DiskSound
CONSTRAINT StillGuarded
CHECK_DEADLOCK FALSE
