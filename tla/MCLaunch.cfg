CONSTANTS
    Frame <- MCFrame
    NullFrame <- MCNullFrame
    NumVPages = 7
    PageSize = 8
    max_ins = 3
    Launches <- NoLaunches
    Targets <- SafeTargets
    Programs <- MCPrograms
    npad = 8
    NumDataPages = 2
    Alloc <- MCAlloc
    HostMemory <- MCHostMemory
SPECIFICATION LaunchSpec
INVARIANTS
    LaunchTypeOK
    ImageLoaded
    LoadableIsLaunched
    DecodesImage
    FetchesAtPC
    NeverDegrades
PROPERTIES
    EntryReached
CHECK_DEADLOCK FALSE
