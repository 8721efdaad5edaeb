SPECIFICATION Spec
CONSTANTS
    MaxPid = 3
    MaxGroups = 4
    MaxLeaks = 1
    Procs = {0, 1, 2, 3}
    File = {f1, f2}
    MaxNumFds = 3
    MaxFileRefs = 4
    SigProcs = {0, 1, 2, 3}
    Unkillable = 1
    MaxFrames = 2
    Name = {"a", "d"}
    DevName = {"tty"}
    Mntpoint = "dev"
    Longer <- SameBucket
    MaxDentries = 5
    MaxPath = 2
    Byte = {1, 2}
    CHUNK_SIZE = 2
    MaxSize = 5
    MaxRead = 3
    Program = {"sh", "py", "bin"}
    Disks <- ProgramDisks
    MaxLoadDepth = 2
    PageBytes = 3
    StackPage = 8
    ArgsPage = 9
INVARIANTS RefsCounted ZombiesSound FilesCounted HandlersMasked PathRoundTrip ListingComplete ProgramLoaded
PROPERTIES  RamfsIsFlat
CHECK_DEADLOCK FALSE
