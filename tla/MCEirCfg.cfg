SPECIFICATION Spec
CONSTANTS
    MaxNodes = 3
    MaxEdges = 4
    MaxPhis = 1
    Sources = {s1, s2}
SYMMETRY SourceSymmetry
INVARIANT TypeOK
INVARIANT AdjacencyConsistent
INVARIANT PhiEntriesMatchIncoming
PROPERTY RefinesBlockGraph
CHECK_DEADLOCK FALSE
