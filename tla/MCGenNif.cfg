\* The prototype cache under every order of gen_proto and build_function.
SPECIFICATION Spec
CONSTANTS
    Functions <- MCFunctions
    Idents <- MCIdents
    MaxBuilds = 2
    MaxLoc = 2
    None = None
INVARIANT TypeOK
INVARIANT DeclarationsAreCached
INVARIANT BodiesMatchBuilds
