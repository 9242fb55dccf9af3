\* A process that runs one of the programs of MCProcess, under fairness.
SPECIFICATION FairSpec
CONSTANTS
    Programs <- MCPrograms
    Terminating <- MCTerminating
    Main <- MCMain
    Budgets = {0, 1, 2}
    MaxStack = 5
    None = None
INVARIANT TypeOK
INVARIANT CallStateMatchesStack
INVARIANT ControlFollowsEdges
INVARIANT ReturnIsFromCallee
INVARIANT ReadsAreBound
PROPERTY ReturnWrittenToCaller
PROPERTY Terminates
