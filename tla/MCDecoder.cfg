SPECIFICATION Spec
CONSTANTS
    max_ins = 7
    OperandBytes <- MCOperandBytes
INVARIANTS
    TypeOK
    OperandsFound
    OperandsByKind
    SizeCoversOperands
    MovesAsWritten
CHECK_DEADLOCK FALSE
