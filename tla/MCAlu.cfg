SPECIFICATION Spec
CONSTANTS
    Half = 4
    Narrow <- MCNarrow
    MaxShift = 3
    Pow2 <- MCPow2
    BitAnd <- MCAnd
    BitOr <- MCOr
    BitXor <- MCXor
INVARIANTS
    TypeOK
    UnsignedBranchesDecide
    TwoWordSum
    DivUndoesMul
CHECK_DEADLOCK FALSE
