CONSTANTS
    Frame <- MCFrame
    NullFrame <- MCNullFrame
    Alloc <- MCAlloc
    HostMemory <- MCHostMemory
    Starts <- MCStarts
    RangeSizes <- MCRangeSizes
    PermChoices <- MCPermChoices
    NumVPages = 8
    PageSize = 2
    Entries = 2
    PldEntries = 2
SPECIFICATION Spec
INVARIANTS
    TypeOK
    FramesUsedOnce
    NoAliasing
    RangeMapped
PROPERTIES
    MappingsAreStable
    RangeIsNew
    ImplementsAddressSpace
