SPECIFICATION Spec
CONSTANTS
    MaxBlocks = 2
    MaxValues = 4
    MaxPrimOps = 1
    MaxReads = 2
    OpKinds = {op}
    PrimOpKinds = {k1}
    Consts = {c1}
    DistinctBlockReads = TRUE
    None = None
INVARIANT TypeOK
INVARIANT ValuesNameEntities
INVARIANT ValidatorAccepts
CHECK_DEADLOCK FALSE
