\* match_node against structural matching, over every term and pattern of
\* a few shapes: one value, one clause.
SPECIFICATION Spec
CONSTANTS
    Terms <- TermsDeep
    Nodes <- NodesDeep
    BindsRef <- MCBindsRef
    NumVars = 1
    MaxClauses = 1
    None = None
INVARIANT TypeOK
INVARIANT MatchNodeAgrees
INVARIANT BindsCoverPattern
CHECK_DEADLOCK FALSE
