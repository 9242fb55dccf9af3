SPECIFICATION Spec
CONSTANTS
    MaxNodes = 3
    MaxEdges = 4
    MaxPhis = 1
    Sources = {s1, s2}
    ParallelEdges = FALSE
SYMMETRY SourceSymmetry
INVARIANT TypeOK
PROPERTY RefinesBlockGraph
CHECK_DEADLOCK FALSE
