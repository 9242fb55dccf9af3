\* The primop pool and the walks, with a visitor that changes the function
\* during a walk.
SPECIFICATION FairSpec
CONSTANTS
    MaxBlocks = 1
    MaxValues = 4
    MaxPrimOps = 2
    MaxReads = 2
    MaxWalked = 3
    MaxVisitorOps = 1
    OpKinds = {op}
    PrimOpKinds = {k1, k2}
    Consts = {c1}
    DistinctBlockReads = TRUE
    None = None

INVARIANT TypeOK
INVARIANT PrimOpSharing
INVARIANT SharingIsTransitive
INVARIANT WalkVisitsReachable
INVARIANT MutWalkMatchesWalk
CHECK_DEADLOCK FALSE
PROPERTY WalkEnds
