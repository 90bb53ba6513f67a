\* Files on a RAM file system and on a disk whose driver may fail a read.
CONSTANTS
    IOChunk = 2
    CopyBuf = 2
    MinCap = 1
    MaxLen = 4
    MaxEdits = 3
    FileSystems = {"ramfs", "disk"}
SPECIFICATION IOSpec
INVARIANT ReadErrorsReported
CHECK_DEADLOCK FALSE
