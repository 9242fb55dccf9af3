\* The clauses of a case: up to three clauses over two values.
SPECIFICATION Spec
CONSTANTS
    Terms <- TermsFew
    Nodes <- NodesFew
    BindsRef <- MCBindsRef
    NumVars = 2
    MaxClauses = 3
    None = None
INVARIANT DoBodyAnswersFirstMatch
PROPERTY AnswersGrow
CHECK_DEADLOCK FALSE
