CONSTANTS
    Radix <- MCRadix
    Half <- MCHalf
    PageSize <- MCPageSize
    Mapped <- MCMapped
    Nums <- MCNums
    Data <- MCData
    Beginnings <- MCBeginnings
    TrapVector <- MCTrapVector
    BitAnd <- MCAnd
    BitOr <- MCOr
    MaxInsns = 2
SPECIFICATION Spec
CHECK_DEADLOCK FALSE
INVARIANTS
    TypeOK
    NoStrayRegister
PROPERTY ImplementsManual
