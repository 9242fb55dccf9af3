\* The guard of the last clause fails.
SPECIFICATION Spec
CONSTANTS
    Terms <- TermsFew
    Nodes <- NodesFew
    BindsRef <- MCBindsRef
    NumVars = 1
    MaxClauses = 2
    None = None
INVARIANT DoBodyCanRun
CHECK_DEADLOCK FALSE
