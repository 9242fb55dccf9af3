------------------------------ MODULE MCGenNif ------------------------------
(***************************************************************************)
(* GenNif for TLC: a module with the function f/1, a lambda of it, f/2 and *)
(* h/0, which is not in continuation passing style, and g/1 of another     *)
(* module, which the functions call.                                       *)
(***************************************************************************)
EXTENDS GenNif

Ident(name, arity, lambda) ==
    [name |-> name, arity |-> arity, lambda |-> lambda]

MCFunctions ==
    (Ident("f", 1, None) :> [dialect |-> "CPS"])
    @@ (Ident("f", 1, 0) :> [dialect |-> "CPS"])
    @@ (Ident("f", 2, None) :> [dialect |-> "CPS"])
    @@ (Ident("h", 0, None) :> [dialect |-> "Normal"])

MCIdents == DOMAIN MCFunctions \cup {Ident("g", 1, None)}

=============================================================================
