-------------------------- MODULE MCTraceCollector --------------------------
(***************************************************************************)
(* Values for the constants of TraceCollector.                             *)
(***************************************************************************)
EXTENDS TraceCollector, TLC

CONSTANTS f1, f2, t1

FunctionSymmetry == Permutations({f1, f2})

=============================================================================
