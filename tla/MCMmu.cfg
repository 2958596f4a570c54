CONSTANTS
    Frame <- MCFrame
    NullFrame <- MCNullFrame
    Byte <- MCByte
    Addrs <- MCAddrs
    Words <- MCWords
    Images <- MCImages
    LoadStarts <- MCLoadStarts
    PermChoices <- MCPermChoices
    HostMemory <- MCHostMemory
    ReadSizes <- MCReadSizes
    WriteSizes <- MCWriteSizes
    NumVPages = 4
    PageSize = 16
SPECIFICATION Spec
INVARIANT TypeOK
PROPERTIES
    StoresAreChecked
    ImplementsFlatMemory
