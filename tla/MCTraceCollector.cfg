\* One VM with two processes whose calls, returns and blocks interleave.
SPECIFICATION Spec
CONSTANTS
    f1 = f1
    f2 = f2
    t1 = t1
    Threads = {t1}
    Pids = {0, 1}
    Functions = {f1, f2}
    Blocks = {0}
    MaxDepth = 2
    MaxEvents = 6
    None = None
SYMMETRY FunctionSymmetry
INVARIANT TypeOK
INVARIANT StacksMirrorCalls
INVARIANT DumpNests
