SPECIFICATION Spec
CONSTANTS
    Half = 4
    Narrow <- MCNarrow
    MaxShift = 3
    Pow2 <- MCPow2
    BitAnd <- MCAnd
    BitOr <- MCOr
    BitXor <- MCXor
INVARIANT OverflowIsOverflow
CHECK_DEADLOCK FALSE
