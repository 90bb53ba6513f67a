\* Processes, boot, signals, messages, network.
CONSTANTS
    MAX_PROCS = 3
    FD_MAX = 4
    Codes = {0, 1}
    Spawners = {1, 2, 3}
    MaxBorn = 5
    BootDevices <- TwoDevices
    Contents <- AllContents
    Archives <- SomeArchives
    BlockBytes = 2
    MaxTicks = 1
    NULL = NULL
    SIG_MAX = 4
    SIGRTMIN = 3
    WordBits = 3
    RTQ_CAPACITY = 2
    Ports = {1, 2}
    ServiceNames <- SomeNames
    NameMax = 1
    DataLengths = {0, 3}
    IPC_MAX_DATA = 2
    MaxMessages = 3
    MaxServices = 3
    Devices = {1, 2}
    DeviceNames = {"lo", "eth"}
    LoName = "lo"
    Mtu = 1
    FrameLengths = {0, 1, 2}
    MaxPackets = 3
    Sockets = {1}
    Ips = {1, 2, 3}
    Macs = {1, 2}
    NET_ARP_CACHE_SIZE = 2
    Base = 4
    MaxBytes = 4
SPECIFICATION ServicesSpec
INVARIANTS WaitTargetStable NoOrphanDescriptors  IpcSound NetworkSound
    ShellWaitsOnlyForChildren
PROPERTIES ShellWaitReturns SignalsImplementBox  ExitCodeKept BootReachesScheduler
CHECK_DEADLOCK FALSE
