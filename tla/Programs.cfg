\* The name space, file contents, the loader and the library.
CONSTANTS
    n1 = n1
    n2 = n2
    Names = {n1, n2}
    Dot = Dot
    DotDot = DotDot
    Users = {u1}
    MaxNodes = 3
    MaxFiles = 2
    FD_MAX = 5
    PathMax = 2
    Targets = {"/", "/mnt"}
    RootTarget = "/"
    IOChunk = 2
    CopyBuf = 2
    MinCap = 1
    MaxLen = 4
    MaxEdits = 3
    FileSystems = {"ramfs", "disk"}
    MaxFrames = 20
    Spaces = {1, 2}
    Slots = 4
    PAGE_SIZE = 4
    StackPages = 3
    Programs <- SomePrograms
    ArgLists <- SomeArgs
    MaxArgs = 2
    MaxArg = 5
    WordBytes = 2
    StackAlign = 4
    Size = 5
    ByteValues = {0, 1, 2}
    LowerOf <- Fold
    WordWidth = 6
SYMMETRY Alike
SPECIFICATION ProgramsSpec
INVARIANTS NameSpaceSound TextualPathIsWalk FilesExact FramesSound 
    
CONSTRAINT FewLeaks
CHECK_DEADLOCK FALSE
