SPECIFICATION Spec
CONSTANTS
    NumWords = 48
    Mapped <- MCMapped
    InitialSPs = {26, 28}
    Masks <- MCMasks
    Spare = {1}
    CodeSize = 16
    InsSize <- MCInsSize
    MaxDepth = 3
    Room = 13
INVARIANT TypeOK
PROPERTY ImplementsCallStack
PROPERTY FaultsOnlyAtTheEdge
CHECK_DEADLOCK FALSE
