------------------------------ MODULE MCEirCfg ------------------------------
(***************************************************************************)
(* EirCfg for TLC: three block labels and four edge labels are enough for  *)
(* two parallel edges into one block, a self-loop, a block that loses its  *)
(* last predecessor and is then removed, and a removal that cascades.      *)
(***************************************************************************)
EXTENDS EirCfg, TLC

\* The values of phi entries are only compared; any two are alike.
SourceSymmetry == Permutations(Sources)

=============================================================================
