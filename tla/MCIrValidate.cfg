SPECIFICATION Spec
CONSTANTS
    MaxBlocks = 2
    MaxValues = 2
    MaxPrimOps = 0
    MaxReads = 2
    OpKinds = {op}
    PrimOpKinds = {k1}
    Consts = {c1}
    DistinctBlockReads = FALSE
    None = None
INVARIANT ValidatorAccepts
CHECK_DEADLOCK FALSE
