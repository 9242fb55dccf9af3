---------------------------- MODULE MCIrFunction ----------------------------
(***************************************************************************)
(* IrFunction for TLC.  MCIrGraph.cfg gives the bounds to the blocks and   *)
(* their reads; MCIrValidate.cfg lets the builder read a block twice in    *)
(* one operation.                                                          *)
(***************************************************************************)
EXTENDS IrFunction, TLC

\* Operators and constants are only copied and compared for equality.
KindSymmetry == Permutations(PrimOpKinds) \cup Permutations(Consts)

=============================================================================
