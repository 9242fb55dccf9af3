SPECIFICATION Spec
CONSTANTS
    MaxNodes = 2
    MaxEdges = 2
    MaxPhis = 1
    Sources = {s1, s2}
    ParallelEdges = TRUE
PROPERTY RefinesBlockGraph
CHECK_DEADLOCK FALSE
