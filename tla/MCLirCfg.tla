------------------------------ MODULE MCLirCfg ------------------------------
(***************************************************************************)
(* LirCfg for TLC.  The constants are given in the configurations:         *)
(* MCLirCfg.cfg keeps the builder to one edge per pair of blocks,          *)
(* MCLirCfgParallel.cfg does not.                                          *)
(***************************************************************************)
EXTENDS LirCfg, TLC

\* Values are only copied and compared for equality.
SourceSymmetry == Permutations(Sources)

=============================================================================
